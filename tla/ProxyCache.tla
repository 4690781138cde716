------------------------------- MODULE ProxyCache -------------------------------
(***************************************************************************)
(* The cache of channels and routes between the requests and the database  *)
(* (src/src/infra/cache.rs, service/routing), and the changes of the       *)
(* configuration that invalidate it (service/{channel,route,backup}).      *)
(*                                                                         *)
(* A request that misses reads the database and then fills the cache; an   *)
(* administrator's change is committed first and invalidates afterwards,   *)
(* one await after the other.  Nothing in this cache expires, so what the  *)
(* two do to each other stays.                                             *)
(*                                                                         *)
(* A channel's row is abstracted to its models, a route's items to their   *)
(* channels.  A hit changes nothing and is no step.                        *)
(***************************************************************************)
EXTENDS Naturals, Sequences, FiniteSets

CONSTANTS
    Channels,    \* channel ids
    Models,
    Rows,        \* what a channel's row can say
    RouteIds,
    Names,       \* route names
    Loaders,     \* requests that may be loading at once
    Admins,      \* changes that may be under way at once
    MaxCached,   \* CACHE_MAX_SIZE
    None

ProxyCacheAssumption ==
    /\ IsFiniteSet(Channels)
    /\ IsFiniteSet(Names)
    /\ Rows \subseteq [enabled : BOOLEAN, models : SUBSET Models]
    /\ None \notin Rows
    /\ None \notin [name : Names, enabled : BOOLEAN, items : SUBSET Channels]
    /\ None \notin [id : RouteIds, items : SUBSET Channels]
    /\ MaxCached \in Nat \ {0}

VARIABLES
    channelRow,  \* channels: id -> row
    routeRow,    \* routes and route_items: id -> row
    channels,    \* ProxyCache.channels: id -> the row it was read from
    index,       \* ProxyCache.model_index: how often a model lists a channel
    routes,      \* ProxyCache.routes: name -> route
    load,        \* what each loader is doing
    todo,        \* what each change has still to do
    lost         \* history: things whose entry nothing pending will correct

database == <<channelRow, routeRow>>
cache    == <<channels, index, routes>>
vars     == <<database, cache, load, todo, lost>>

RouteRow  == [name : Names, enabled : BOOLEAN, items : SUBSET Channels]
RouteInfo == [id : RouteIds, items : SUBSET Channels]

\* What can be cached, and what a change can have to do.
ChannelThings == {"channel"} \X Channels
RouteThings   == {"route"} \X Names
Things        == ChannelThings \cup RouteThings

AllChannels == <<"channels", None>>
AllRoutes   == <<"routes", None>>
Work        == ({"rereadChannel", "channel"} \X Channels)
                 \cup ({"rereadRoute"} \X RouteIds)
                 \cup {AllChannels, AllRoutes}

Idle == [at |-> "idle"]
Load == {Idle}
        \cup [at : {"channel"}, c : Channels]
        \cup [at : {"fill"}, c : Channels, row : Rows]
        \cup [at : {"route"}, n : Names]
        \cup [at : {"items"}, n : Names, id : RouteIds]
        \cup [at : {"fillRoute"}, n : Names, route : RouteInfo]

TypeOK ==
    /\ channelRow \in [Channels -> Rows \cup {None}]
    /\ routeRow \in [RouteIds -> RouteRow \cup {None}]
    /\ channels \in [Channels -> Rows \cup {None}]
    /\ index \in [Models \X Channels -> 0..1]
    /\ routes \in [Names -> RouteInfo \cup {None}]
    /\ load \in [Loaders -> Load]
    /\ todo \in [Admins -> Seq(Work)]
    /\ lost \in SUBSET Things

\* The router starts with whatever the database has, and an empty cache.
Init ==
    /\ channelRow \in [Channels -> Rows \cup {None}]
    /\ routeRow = [id \in RouteIds |-> None]
    /\ channels = [c \in Channels |-> None]
    /\ index = [p \in Models \X Channels |-> 0]
    /\ routes = [n \in Names |-> None]
    /\ load = [l \in Loaders |-> Idle]
    /\ todo = [a \in Admins |-> <<>>]
    /\ lost = {}

-----------------------------------------------------------------------------
(* What the database answers.                                              *)

\* get_enabled_for_proxy.
VisibleChannel(c) ==
    IF channelRow[c] # None /\ channelRow[c].enabled
    THEN channelRow[c] ELSE None

\* find_enabled_by_name; names are unique.
EnabledAs(n) ==
    {id \in RouteIds : /\ routeRow[id] # None
                       /\ routeRow[id].name = n /\ routeRow[id].enabled}

\* list_route_items_for_proxy; a deleted route has no items.
Items(id) == IF routeRow[id] = None THEN {} ELSE routeRow[id].items

NameTaken(n, id) ==
    \E other \in RouteIds \ {id} : routeRow[other] # None /\ routeRow[other].name = n

\* Ids are UUIDs: a new one is one nobody has seen.
InTodo(id) == \E a \in Admins : \E i \in DOMAIN todo[a] : todo[a][i][2] = id
NewChannel(c) ==
    /\ channelRow[c] = None /\ channels[c] = None
    /\ \A l \in Loaders : load[l].at \in {"channel", "fill"} => load[l].c # c
    /\ ~InTodo(c)
    /\ \A id \in RouteIds : c \notin Items(id)
    /\ \A n \in Names : routes[n] # None => c \notin routes[n].items
NewRoute(id) ==
    /\ routeRow[id] = None
    /\ ~InTodo(id)
    /\ \A l \in Loaders : /\ load[l].at = "items" => load[l].id # id
                          /\ load[l].at = "fillRoute" => load[l].route.id # id
    /\ \A n \in Names : routes[n] # None => routes[n].id # id

-----------------------------------------------------------------------------
(* RoutingService: get_channel and find_route_by_name.                     *)

Doing(l, state) == load' = [load EXCEPT ![l] = state]

\* An entry is as good as the row it was read from: if that has changed and
\* its invalidation is over, nothing corrects the entry.
Filled(thing, current) == lost' = IF current THEN lost \ {thing} ELSE lost \cup {thing}

MissChannel(l, c) ==
    /\ load[l] = Idle /\ channels[c] = None
    /\ Doing(l, [at |-> "channel", c |-> c])
    /\ UNCHANGED <<database, cache, todo, lost>>

ReadChannel(l) ==
    /\ load[l].at = "channel"
    /\ LET found == VisibleChannel(load[l].c)
       IN  Doing(l, IF found = None THEN Idle
                    ELSE [at |-> "fill", c |-> load[l].c, row |-> found])
    /\ UNCHANGED <<database, cache, todo, lost>>

\* The index without a channel's cached models, and with new ones.
Unlisted(idx, c) ==
    [p \in Models \X Channels |->
       IF p[2] = c /\ channels[c] # None /\ p[1] \in channels[c].models THEN 0 ELSE idx[p]]

Listed(idx, c, models) ==
    [p \in Models \X Channels |->
       IF p[2] = c /\ p[1] \in models THEN idx[p] + 1 ELSE idx[p]]

Cached(table) == {x \in DOMAIN table : table[x] # None}

\* The entries there are.
CachedThings == ({"channel"} \X Cached(channels)) \cup ({"route"} \X Cached(routes))

Full(table) == Cardinality(Cached(table)) >= MaxCached

\* set_channel: at the limit a new channel takes the place of any other.
FillChannel(l) ==
    /\ load[l].at = "fill"
    /\ LET c   == load[l].c
           row == load[l].row
       IN  /\ \/ /\ channels[c] # None \/ ~Full(channels)
                 /\ channels' = [channels EXCEPT ![c] = row]
                 /\ index' = Listed(Unlisted(index, c), c, row.models)
              \/ /\ channels[c] = None /\ Full(channels)
                 /\ \E victim \in Cached(channels) :
                      /\ channels' = [channels EXCEPT ![victim] = None, ![c] = row]
                      /\ index' = Listed(Unlisted(index, victim), c, row.models)
           /\ Filled(<<"channel", c>>, row = VisibleChannel(c))
    /\ Doing(l, Idle)
    /\ UNCHANGED <<database, routes, todo>>

MissRoute(l, n) ==
    /\ load[l] = Idle /\ routes[n] = None
    /\ Doing(l, [at |-> "route", n |-> n])
    /\ UNCHANGED <<database, cache, todo, lost>>

\* The first query.  Routes found by expression are not cached.
ReadRoute(l) ==
    /\ load[l].at = "route"
    /\ \/ EnabledAs(load[l].n) = {} /\ Doing(l, Idle)
       \/ \E id \in EnabledAs(load[l].n) :
            Doing(l, [at |-> "items", n |-> load[l].n, id |-> id])
    /\ UNCHANGED <<database, cache, todo, lost>>

\* The second.
ReadItems(l) ==
    /\ load[l].at = "items"
    /\ Doing(l, [at |-> "fillRoute", n |-> load[l].n,
                 route |-> [id |-> load[l].id, items |-> Items(load[l].id)]])
    /\ UNCHANGED <<database, cache, todo, lost>>

CurrentRoute(n, route) == route.id \in EnabledAs(n) /\ route.items = Items(route.id)

\* Mutant: at the limit only an entry of the route's own makes room.
MutFillRoute(l) ==
    /\ load[l].at = "fillRoute"
    /\ LET n     == load[l].n
           route == load[l].route
       IN  /\ routes' = [routes EXCEPT ![n] = route]
           /\ Filled(<<"route", n>>, CurrentRoute(n, route))
    /\ Doing(l, Idle)
    /\ UNCHANGED <<database, channels, index, todo>>

\* set_group: at the limit any entry goes, the route's own not excepted.
FillRoute(l) ==
    /\ load[l].at = "fillRoute"
    /\ LET n     == load[l].n
           route == load[l].route
       IN  /\ \/ ~Full(routes) /\ routes' = [routes EXCEPT ![n] = route]
              \/ /\ Full(routes)
                 /\ \E victim \in Cached(routes) :
                      routes' = [routes EXCEPT ![victim] = None, ![n] = route]
           /\ Filled(<<"route", n>>, CurrentRoute(n, route))
    /\ Doing(l, Idle)
    /\ UNCHANGED <<database, channels, index, todo>>

\* A query fails, or the client leaves.
Abandon(l) ==
    /\ load[l] # Idle
    /\ Doing(l, Idle)
    /\ UNCHANGED <<database, cache, todo, lost>>

-----------------------------------------------------------------------------
(* ChannelService and RouteService.                                        *)

Committed(a, rest) == todo[a] = <<>> /\ todo' = [todo EXCEPT ![a] = rest]

CreateChannel(a, c, row) ==
    /\ NewChannel(c)
    /\ channelRow' = [channelRow EXCEPT ![c] = row]
    /\ Committed(a, <<<<"rereadChannel", c>>, AllChannels>>)
    /\ UNCHANGED <<routeRow, cache, load, lost>>

AfterUpdate(c) == <<<<"rereadChannel", c>>, <<"channel", c>>, AllRoutes>>

UpdateChannel(a, c, row) ==
    /\ channelRow[c] # None
    /\ channelRow' = [channelRow EXCEPT ![c] = row]
    /\ Committed(a, AfterUpdate(c))
    /\ UNCHANGED <<routeRow, cache, load, lost>>

\* Mutant: the routes are asked for after their items are gone.
MutAfterDelete(c) == <<<<"channel", c>>>>

\* Routes are invalidated if one had the channel.
AfterDelete(c) ==
    <<<<"channel", c>>>> \o IF \E id \in RouteIds : c \in Items(id)
                           THEN <<AllRoutes>> ELSE <<>>

\* One transaction with the items of routes.
DeleteChannel(a, c) ==
    /\ channelRow[c] # None
    /\ channelRow' = [channelRow EXCEPT ![c] = None]
    /\ routeRow' = [id \in RouteIds |->
                      IF routeRow[id] = None THEN None
                      ELSE [routeRow[id] EXCEPT !.items = @ \ {c}]]
    /\ Committed(a, AfterDelete(c))
    /\ UNCHANGED <<cache, load, lost>>

CreateRoute(a, id, row) ==
    /\ NewRoute(id) /\ ~NameTaken(row.name, id) /\ row.items # {}
    /\ routeRow' = [routeRow EXCEPT ![id] = row]
    /\ Committed(a, <<<<"rereadRoute", id>>, AllRoutes>>)
    /\ UNCHANGED <<channelRow, cache, load, lost>>

\* Items are left alone or replaced by some.
UpdateRoute(a, id, row) ==
    /\ routeRow[id] # None /\ ~NameTaken(row.name, id)
    /\ row.items # {} \/ row.items = routeRow[id].items
    /\ routeRow' = [routeRow EXCEPT ![id] = row]
    /\ Committed(a, <<<<"rereadRoute", id>>, AllRoutes>>)
    /\ UNCHANGED <<channelRow, cache, load, lost>>

DeleteRoute(a, id) ==
    /\ routeRow[id] # None
    /\ routeRow' = [routeRow EXCEPT ![id] = None]
    /\ Committed(a, <<AllRoutes>>)
    /\ UNCHANGED <<channelRow, cache, load, lost>>

\* add_item and delete_item.
ChangeItem(a, id, c) ==
    /\ routeRow[id] # None
    /\ \E items \in {Items(id) \cup {c}, Items(id) \ {c}} :
         routeRow' = [routeRow EXCEPT ![id].items = items]
    /\ Committed(a, <<AllRoutes>>)
    /\ UNCHANGED <<channelRow, cache, load, lost>>

-----------------------------------------------------------------------------
(* What follows a commit.                                                  *)

NextWork(a) == Head(todo[a])
Advance(a)  == todo' = [todo EXCEPT ![a] = Tail(@)]

\* The changed row is read again for the answer, and found.
ReadBack(a) ==
    /\ todo[a] # <<>>
    /\ \/ NextWork(a)[1] = "rereadChannel" /\ channelRow[NextWork(a)[2]] # None
       \/ NextWork(a)[1] = "rereadRoute" /\ routeRow[NextWork(a)[2]] # None
    /\ Advance(a)
    /\ UNCHANGED <<database, cache, load, lost>>

\* Mutant: the index is left to the next fill.
MutInvalidateChannel(a) ==
    /\ todo[a] # <<>> /\ NextWork(a)[1] = "channel"
    /\ LET c == NextWork(a)[2]
       IN  /\ channels' = [channels EXCEPT ![c] = None]
           /\ lost' = lost \ {<<"channel", c>>}
    /\ Advance(a)
    /\ UNCHANGED <<database, index, routes, load>>

\* invalidate_channel.
InvalidateChannel(a) ==
    /\ todo[a] # <<>> /\ NextWork(a)[1] = "channel"
    /\ LET c == NextWork(a)[2]
       IN  /\ channels' = [channels EXCEPT ![c] = None]
           /\ index' = Unlisted(index, c)
           /\ lost' = lost \ {<<"channel", c>>}
    /\ Advance(a)
    /\ UNCHANGED <<database, routes, load>>

InvalidateAllChannels(a) ==
    /\ todo[a] # <<>> /\ NextWork(a) = AllChannels
    /\ channels' = [c \in Channels |-> None]
    /\ index' = [p \in Models \X Channels |-> 0]
    /\ lost' = lost \ ChannelThings
    /\ Advance(a)
    /\ UNCHANGED <<database, routes, load>>

InvalidateAllRoutes(a) ==
    /\ todo[a] # <<>> /\ NextWork(a) = AllRoutes
    /\ routes' = [n \in Names |-> None]
    /\ lost' = lost \ RouteThings
    /\ Advance(a)
    /\ UNCHANGED <<database, channels, index, load>>

\* The things a piece of work invalidates.
Clears(work) ==
    CASE work[1] = "channel"  -> {<<"channel", work[2]>>}
      [] work[1] = "channels" -> ChannelThings
      [] work[1] = "routes"   -> RouteThings
      [] OTHER                -> {}
Pending(a) == UNION {Clears(todo[a][i]) : i \in DOMAIN todo[a]}

\* Reading the row back fails, or somebody has deleted it, or the client
\* leaves: the handler ends, and what it had still to do is not done.
LoseInvalidation(a) ==
    /\ todo[a] # <<>>
    /\ todo' = [todo EXCEPT ![a] = <<>>]
    /\ lost' = lost \cup (Pending(a) \cap CachedThings)
    /\ UNCHANGED <<database, cache, load>>

-----------------------------------------------------------------------------
(* BackupService: no cache is known to it.                                 *)

Reset(a) ==
    /\ Committed(a, <<>>)
    /\ channelRow' = [c \in Channels |-> None]
    /\ routeRow' = [id \in RouteIds |-> None]
    /\ lost' = lost \cup CachedThings
    /\ UNCHANGED <<cache, load>>

\* Import adds rows under new ids, and skips a name that is taken.  Bound: a
\* backup of one channel, or of one route to channels that exist.
ImportChannel(a, c, row) ==
    /\ NewChannel(c)
    /\ Committed(a, <<>>)
    /\ channelRow' = [channelRow EXCEPT ![c] = row]
    /\ UNCHANGED <<routeRow, cache, load, lost>>

ImportRoute(a, id, row) ==
    /\ NewRoute(id) /\ ~NameTaken(row.name, id)
    /\ \A c \in row.items : channelRow[c] # None
    /\ Committed(a, <<>>)
    /\ routeRow' = [routeRow EXCEPT ![id] = row]
    /\ UNCHANGED <<channelRow, cache, load, lost>>

-----------------------------------------------------------------------------

LoaderStep(l) ==
    \/ \E c \in Channels : MissChannel(l, c)
    \/ ReadChannel(l) \/ FillChannel(l)
    \/ \E n \in Names : MissRoute(l, n)
    \/ ReadRoute(l) \/ ReadItems(l) \/ FillRoute(l)
    \/ Abandon(l)

Change(a) ==
    \/ \E c \in Channels, row \in Rows :
         CreateChannel(a, c, row) \/ UpdateChannel(a, c, row) \/ ImportChannel(a, c, row)
    \/ \E c \in Channels : DeleteChannel(a, c)
    \/ \E id \in RouteIds, row \in RouteRow :
         CreateRoute(a, id, row) \/ UpdateRoute(a, id, row) \/ ImportRoute(a, id, row)
    \/ \E id \in RouteIds : DeleteRoute(a, id)
    \/ \E id \in RouteIds, c \in Channels : ChangeItem(a, id, c)
    \/ Reset(a)

FollowUp(a) ==
    \/ ReadBack(a)
    \/ InvalidateChannel(a) \/ InvalidateAllChannels(a) \/ InvalidateAllRoutes(a)
    \/ LoseInvalidation(a)

Next ==
    \/ \E l \in Loaders : LoaderStep(l)
    \/ \E a \in Admins : Change(a) \/ FollowUp(a)

Spec == Init /\ [][Next]_vars

-----------------------------------------------------------------------------
(* Properties.                                                             *)

\* The cached entry of a thing says something else than the database.
StaleChannel(c) == channels[c] # None /\ channels[c] # VisibleChannel(c)
StaleRoute(n)   == routes[n] # None /\ ~CurrentRoute(n, routes[n])

Corrected(thing) == thing \in lost \/ \E a \in Admins : thing \in Pending(a)

\* A stale entry is one whose invalidation is still to come, or one of three
\* known ways has lost it: a fill that read before the change, a change cut
\* short after its commit, a reset.  In particular each service invalidates
\* all that its change touches, and a deleted channel that no route uses
\* leaves no route stale.
StaleIsAccountedFor ==
    /\ \A c \in Channels : StaleChannel(c) => Corrected(<<"channel", c>>)
    /\ \A n \in Names : StaleRoute(n) => Corrected(<<"route", n>>)

\* The reverse index lists a channel under a model exactly if the channel is
\* cached with that model: fills that replace or evict an entry and the three
\* invalidations keep the two tables together (set_channel,
\* invalidate_channel).
IndexMatchesCache ==
    \A m \in Models, c \in Channels :
        index[<<m, c>>] = IF channels[c] # None /\ m \in channels[c].models THEN 1 ELSE 0

\* Neither table grows past its limit (set_channel, set_group).
CacheWithinLimit ==
    Cardinality(Cached(channels)) <= MaxCached /\ Cardinality(Cached(routes)) <= MaxCached

(* What a document says, and the code does not do.                         *)

\* docs/architecture.md:258, "after a change of the business configuration
\* the ProxyCache must be invalidated": a change that makes a cached channel
\* stale has an invalidation of it to do.
ChangesInvalidate ==
    [][\A c \in Channels :
         ~StaleChannel(c) /\ StaleChannel(c)' /\ channelRow' # channelRow
             => \E a \in Admins : <<"channel", c>> \in Pending(a)']_vars
=============================================================================
