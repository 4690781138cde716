------------------------------ MODULE MCProxyCache ------------------------------
(* ProxyCache for TLC: the rows a channel can have, and the behaviours of    *)
(* two kinds that are explored.  In the one there are no routes, and two     *)
(* administrators change two channels; in the other one administrator        *)
(* changes two routes and the only channel, whose row says little.           *)
EXTENDS ProxyCache, TLC

CONSTANTS m1, m2, c0, c1, c2, a0, a1, a2, i1, i2, n1, n2

VARIABLE focus

\* Two contents that overlap, so that an update shows in the index, and a
\* disabled channel.
SomeRows == {[enabled |-> TRUE, models |-> {m1}],
             [enabled |-> TRUE, models |-> {m1, m2}],
             [enabled |-> FALSE, models |-> {m1}]}
OneRow == [enabled |-> TRUE, models |-> {m1}]

ASSUME ProxyCacheAssumption

\* The channels and administrators of a focus; the others are never there.
ItsChannels == IF focus = "channels" THEN Channels \ {c0} ELSE Channels \cap {c0}
ItsAdmins   == IF focus = "channels" THEN Admins \ {a0} ELSE Admins \cap {a0}
ItsRows     == IF focus = "channels" THEN Rows ELSE {OneRow}

OneCache ==
    /\ focus \in {"channels", "routes"}
    /\ Init
    /\ \A c \in Channels : channelRow[c] # None => c \in ItsChannels /\ channelRow[c] \in ItsRows

AnyStep ==
    \/ \E l \in Loaders :
         \/ \E c \in ItsChannels : MissChannel(l, c)
         \/ ReadChannel(l) \/ FillChannel(l) \/ Abandon(l)
    \/ \E a \in ItsAdmins :
         \/ \E c \in ItsChannels :
              \/ DeleteChannel(a, c)
              \/ \E row \in ItsRows :
                   CreateChannel(a, c, row) \/ UpdateChannel(a, c, row) \/ ImportChannel(a, c, row)
         \/ Reset(a)
         \/ FollowUp(a)

RouteStep ==
    \/ \E l \in Loaders :
         \/ \E n \in Names : MissRoute(l, n)
         \/ ReadRoute(l) \/ ReadItems(l) \/ FillRoute(l)
    \/ \E a \in ItsAdmins, id \in RouteIds :
         \/ DeleteRoute(a, id)
         \/ \E c \in ItsChannels : ChangeItem(a, id, c)
         \/ \E row \in [name : Names, enabled : BOOLEAN, items : SUBSET ItsChannels] :
              CreateRoute(a, id, row) \/ UpdateRoute(a, id, row) \/ ImportRoute(a, id, row)

OneCacheStep ==
    /\ \/ AnyStep
       \/ focus = "routes" /\ RouteStep
    /\ UNCHANGED focus

Caches == OneCache /\ [][OneCacheStep]_<<vars, focus>>

\* Nothing has both a channel of the one kind and a route of the other, so
\* both may be renamed at once.
Swapped(a, b, c, d) == a :> b @@ b :> a @@ c :> d @@ d :> c
Alike == Permutations(Loaders) \cup {Swapped(c1, c2, i1, i2), Swapped(a1, a2, n1, n2)}
=============================================================================
