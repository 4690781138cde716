---------------------------- MODULE ProxyCacheProofs ----------------------------
(***************************************************************************)
(* Machine-checked proofs about ProxyCache, for any number of channels,    *)
(* routes, requests that load and changes under way: every stale entry has *)
(* an invalidation to come or a known cause, the index of models and the   *)
(* table of channels agree, and no table outgrows its limit.               *)
(***************************************************************************)
EXTENDS ProxyCache, FiniteSetTheorems, TLAPS

-----------------------------------------------------------------------------
(* What a change has still to do.                                          *)

LEMMA ClearsWhat ==
    /\ \A work \in Work : Clears(work) \subseteq Things
    /\ \A c \in Channels : /\ Clears(<<"channel", c>>) = {<<"channel", c>>}
                           /\ Clears(<<"rereadChannel", c>>) = {}
    /\ \A id \in RouteIds : Clears(<<"rereadRoute", id>>) = {}
    /\ Clears(AllChannels) = ChannelThings
    /\ Clears(AllRoutes) = RouteThings
<1>1. \A c \in Channels : /\ Clears(<<"channel", c>>) = {<<"channel", c>>}
                          /\ Clears(<<"rereadChannel", c>>) = {}
  BY DEF Clears
<1>2. \A id \in RouteIds : Clears(<<"rereadRoute", id>>) = {}
  BY DEF Clears
<1>3. Clears(AllChannels) = ChannelThings /\ Clears(AllRoutes) = RouteThings
  BY DEF Clears, AllChannels, AllRoutes
<1>4. ASSUME NEW work \in Work
      PROVE  Clears(work) \subseteq Things
  <2>1. CASE work \in {"rereadChannel", "channel"} \X Channels
    BY <2>1 DEF Clears, Things, ChannelThings
  <2>2. CASE work \in {"rereadRoute"} \X RouteIds
    BY <2>2 DEF Clears
  <2>3. CASE work \in {AllChannels, AllRoutes}
    BY <1>3, <2>3 DEF Things
  <2>4. QED
    BY <2>1, <2>2, <2>3 DEF Work
<1>5. QED
  BY <1>1, <1>2, <1>3, <1>4

\* The kinds of work, told apart by their names.
LEMMA WorkKinds ==
    ASSUME NEW work \in Work
    PROVE  /\ work[1] = "channel" => work[2] \in Channels /\ work = <<"channel", work[2]>>
           /\ work[1] \in {"rereadChannel", "rereadRoute"} => Clears(work) = {}
<1>1. CASE work \in {"rereadChannel", "channel"} \X Channels
  BY <1>1 DEF Clears
<1>2. CASE work \in {"rereadRoute"} \X RouteIds
  BY <1>2 DEF Clears
<1>3. CASE work \in {AllChannels, AllRoutes}
  BY <1>3 DEF AllChannels, AllRoutes
<1>4. QED
  BY <1>1, <1>2, <1>3 DEF Work

LEMMA ShortSequences ==
    ASSUME NEW S, NEW x \in S, NEW y \in S, NEW z \in S
    PROVE  <<>> \in Seq(S) /\ <<x>> \in Seq(S) /\ <<x, y>> \in Seq(S) /\ <<x, y, z>> \in Seq(S)
OBVIOUS

\* What the changes put into todo.
LEMMA WorkOfChanges ==
    /\ \A c \in Channels :
         /\ <<<<"rereadChannel", c>>, AllChannels>> \in Seq(Work)
         /\ AfterUpdate(c) \in Seq(Work)
         /\ AfterDelete(c) \in Seq(Work)
    /\ \A id \in RouteIds : <<<<"rereadRoute", id>>, AllRoutes>> \in Seq(Work)
    /\ <<AllRoutes>> \in Seq(Work)
    /\ <<>> \in Seq(Work)
<1>1. AllChannels \in Work /\ AllRoutes \in Work
  BY DEF Work
<1>2. \A c \in Channels : <<"rereadChannel", c>> \in Work /\ <<"channel", c>> \in Work
  BY DEF Work
<1>3. \A id \in RouteIds : <<"rereadRoute", id>> \in Work
  BY DEF Work
<1> HIDE DEF Work
<1>4. ASSUME NEW c \in Channels
      PROVE  AfterDelete(c) \in Seq(Work)
  <2>1. <<<<"channel", c>>>> \in Seq(Work) /\ <<AllRoutes>> \in Seq(Work) /\ <<>> \in Seq(Work)
    BY <1>1, <1>2, ShortSequences
  <2>2. QED
    BY <2>1 DEF AfterDelete
<1>5. ASSUME NEW c \in Channels
      PROVE  /\ <<<<"rereadChannel", c>>, AllChannels>> \in Seq(Work)
             /\ AfterUpdate(c) \in Seq(Work)
  BY <1>1, <1>2, ShortSequences DEF AfterUpdate
<1>6. ASSUME NEW id \in RouteIds
      PROVE  <<<<"rereadRoute", id>>, AllRoutes>> \in Seq(Work)
  BY <1>1, <1>3, ShortSequences
<1>7. <<AllRoutes>> \in Seq(Work) /\ <<>> \in Seq(Work)
  BY <1>1, ShortSequences
<1>8. QED
  BY <1>4, <1>5, <1>6, <1>7

\* Work done one piece at a time: what is left besides the piece.
LEMMA WorkAdvances ==
    ASSUME NEW a \in Admins, todo \in [Admins -> Seq(Work)], todo[a] # <<>>, Advance(a)
    PROVE  /\ NextWork(a) \in Work
           /\ todo' \in [Admins -> Seq(Work)]
           /\ \A b \in Admins : \A thing \in Pending(b) :
                 thing \in Clears(NextWork(a)) \/ thing \in Pending(b)'
<1> DEFINE s == todo[a]
<1>1. /\ s \in Seq(Work) /\ Len(s) \in Nat \ {0} /\ Head(s) = s[1]
      /\ Tail(s) \in Seq(Work) /\ Len(Tail(s)) = Len(s) - 1
      /\ \A i \in 1..(Len(s) - 1) : Tail(s)[i] = s[i + 1]
  <2>1. s \in Seq(Work) /\ s # <<>>
    OBVIOUS
  <2> HIDE DEF s
  <2>2. QED
    BY <2>1
<1>2. NextWork(a) \in Work
  BY <1>1 DEF NextWork
<1>3. todo' \in [Admins -> Seq(Work)] /\ todo'[a] = Tail(s)
      /\ \A b \in Admins \ {a} : todo'[b] = todo[b]
  BY <1>1 DEF Advance
<1>4. ASSUME NEW b \in Admins, NEW thing \in Pending(b)
      PROVE  thing \in Clears(NextWork(a)) \/ thing \in Pending(b)'
  <2>1. PICK i \in DOMAIN todo[b] : thing \in Clears(todo[b][i])
    BY <1>4 DEF Pending
  <2>2. CASE b # a
    BY <1>3, <2>1, <2>2 DEF Pending
  <2>3. CASE b = a /\ i = 1
    BY <1>1, <2>1, <2>3 DEF NextWork
  <2>4. CASE b = a /\ i # 1
    <3>1. /\ i - 1 \in DOMAIN todo'[a]
          /\ todo'[a][i - 1] = todo[a][i]
      <4> HIDE DEF s
      <4>1. i \in 1..Len(s)
        BY <1>1, <2>1, <2>4 DEF s
      <4>2. i - 1 \in 1..(Len(s) - 1) /\ (i - 1) + 1 = i
        BY <1>1, <2>4, <4>1
      <4>3. DOMAIN Tail(s) = 1..(Len(s) - 1)
        BY <1>1
      <4>4. QED
        BY <1>1, <1>3, <4>2, <4>3 DEF s
    <3>2. QED
      BY <2>1, <2>4, <3>1 DEF Pending
  <2>5. QED
    BY <2>2, <2>3, <2>4
<1>5. QED
  BY <1>2, <1>3, <1>4

\* A change begins: everything else that is pending stays so, and what it has
\* to do is added.
LEMMA WorkBegins ==
    ASSUME NEW a \in Admins, todo \in [Admins -> Seq(Work)],
           NEW rest \in Seq(Work), Committed(a, rest)
    PROVE  /\ todo' \in [Admins -> Seq(Work)]
           /\ \A b \in Admins : Pending(b) \subseteq Pending(b)'
           /\ \A i \in DOMAIN rest : Clears(rest[i]) \subseteq Pending(a)'
<1>1. todo' \in [Admins -> Seq(Work)] /\ todo[a] = <<>> /\ todo'[a] = rest
      /\ \A b \in Admins \ {a} : todo'[b] = todo[b]
  BY DEF Committed
<1>2. Pending(a) = {}
  BY <1>1 DEF Pending
<1>3. \A b \in Admins \ {a} : Pending(b) = Pending(b)'
  BY <1>1 DEF Pending
<1>4. \A i \in DOMAIN rest : Clears(rest[i]) \subseteq Pending(a)'
  BY <1>1 DEF Pending
<1>5. QED
  BY <1>1, <1>2, <1>3, <1>4

\* What is pending are things.
LEMMA PendingThings ==
    ASSUME todo \in [Admins -> Seq(Work)]
    PROVE  \A a \in Admins : Pending(a) \subseteq Things
<1> SUFFICES ASSUME NEW a \in Admins, NEW i \in DOMAIN todo[a]
             PROVE  Clears(todo[a][i]) \subseteq Things
  BY DEF Pending
<1>1. todo[a][i] \in Work
  <2>1. todo[a] \in Seq(Work)
    OBVIOUS
  <2>2. QED
    BY <2>1
<1>2. QED
  BY <1>1, ClearsWhat

-----------------------------------------------------------------------------
(* Types.                                                                  *)

LEMMA LoadKinds ==
    ASSUME NEW x \in Load
    PROVE  /\ x.at = "channel" => x.c \in Channels
           /\ x.at = "fill" => x.c \in Channels /\ x.row \in Rows
           /\ x.at = "route" => x.n \in Names
           /\ x.at = "items" => x.n \in Names /\ x.id \in RouteIds
           /\ x.at = "fillRoute" => x.n \in Names /\ x.route \in RouteInfo
<1>1. CASE x = Idle
  BY <1>1 DEF Idle
<1>2. CASE x \in [at : {"channel"}, c : Channels]
  BY <1>2
<1>3. CASE x \in [at : {"fill"}, c : Channels, row : Rows]
  BY <1>3
<1>4. CASE x \in [at : {"route"}, n : Names]
  BY <1>4
<1>5. CASE x \in [at : {"items"}, n : Names, id : RouteIds]
  BY <1>5
<1>6. CASE x \in [at : {"fillRoute"}, n : Names, route : RouteInfo]
  BY <1>6
<1>7. QED
  BY <1>1, <1>2, <1>3, <1>4, <1>5, <1>6 DEF Load

LEMMA LoadTypes ==
    /\ Idle \in Load
    /\ \A c \in Channels : [at |-> "channel", c |-> c] \in Load
    /\ \A c \in Channels, row \in Rows : [at |-> "fill", c |-> c, row |-> row] \in Load
    /\ \A n \in Names : [at |-> "route", n |-> n] \in Load
    /\ \A n \in Names, id \in RouteIds : [at |-> "items", n |-> n, id |-> id] \in Load
    /\ \A n \in Names, route \in RouteInfo :
          [at |-> "fillRoute", n |-> n, route |-> route] \in Load
BY DEF Load

LEMMA Answers ==
    ASSUME ProxyCacheAssumption, TypeOK
    PROVE  /\ \A c \in Channels : VisibleChannel(c) \in Rows \cup {None}
           /\ \A id \in RouteIds : Items(id) \in SUBSET Channels
BY DEF TypeOK, VisibleChannel, Items, RouteRow

\* The index that the table of channels asks for.
Expected == [p \in Models \X Channels |->
               IF channels[p[2]] # None /\ p[1] \in channels[p[2]].models THEN 1 ELSE 0]

\* Every fill and every invalidation takes the index along.
LEMMA IndexStep ==
    ASSUME ProxyCacheAssumption, TypeOK, index = Expected, [Next]_vars
    PROVE  index' = Expected'
<1>1. /\ channels \in [Channels -> Rows \cup {None}]
      /\ load \in [Loaders -> Load] /\ todo \in [Admins -> Seq(Work)]
  BY DEF TypeOK
<1>2. ASSUME NEW l \in Loaders, FillChannel(l)
      PROVE  index' = Expected'
  <2> DEFINE c == load[l].c
             row == load[l].row
  <2>1. c \in Channels /\ row \in Rows /\ row # None
    BY <1>1, <1>2, LoadKinds DEF FillChannel, ProxyCacheAssumption
  <2>2. CASE /\ channels[c] # None \/ ~Full(channels)
             /\ channels' = [channels EXCEPT ![c] = row]
             /\ index' = Listed(Unlisted(index, c), c, row.models)
    <3> HIDE DEF c, row
    <3>1. QED
      BY <1>1, <2>1, <2>2 DEF Expected, Listed, Unlisted
  <2>3. ASSUME NEW victim \in Cached(channels), channels[c] = None,
               channels' = [channels EXCEPT ![victim] = None, ![c] = row],
               index' = Listed(Unlisted(index, victim), c, row.models)
        PROVE  index' = Expected'
    <3>1. victim \in Channels /\ victim # c /\ channels[victim] # None
      BY <1>1, <2>3 DEF Cached
    <3> HIDE DEF c, row
    <3>2. /\ channels'[victim] = None /\ channels'[c] = row
          /\ \A d \in Channels \ {victim, c} : channels'[d] = channels[d]
      BY <1>1, <2>1, <2>3, <3>1
    <3>3. ASSUME NEW p \in Models \X Channels
          PROVE  index'[p] = IF channels'[p[2]] # None /\ p[1] \in channels'[p[2]].models
                             THEN 1 ELSE 0
      BY <1>1, <2>1, <2>3, <3>1, <3>2 DEF Expected, Listed, Unlisted
    <3>4. index' = [p \in Models \X Channels |-> index'[p]]
      BY <2>3 DEF Listed
    <3>5. QED
      BY <3>3, <3>4 DEF Expected
  <2>4. QED
    BY <1>2, <2>2, <2>3 DEF FillChannel
<1>3. ASSUME NEW a \in Admins, InvalidateChannel(a)
      PROVE  index' = Expected'
  <2> DEFINE c == NextWork(a)[2]
  <2>1. channels' = [channels EXCEPT ![c] = None] /\ index' = Unlisted(index, c)
    BY <1>3 DEF InvalidateChannel
  <2> HIDE DEF c
  <2>2. QED
    BY <1>1, <2>1 DEF Expected, Unlisted
<1>4. ASSUME NEW a \in Admins, InvalidateAllChannels(a)
      PROVE  index' = Expected'
  BY <1>4 DEF InvalidateAllChannels, Expected
<1>5. CASE UNCHANGED <<channels, index>>
  BY <1>5 DEF Expected
<1>6. ASSUME NEW l \in Loaders, LoaderStep(l)
      PROVE  index' = Expected'
  BY <1>2, <1>5, <1>6
  DEF LoaderStep, MissChannel, ReadChannel, MissRoute, ReadRoute, ReadItems, FillRoute,
      Abandon, cache
<1>7. ASSUME NEW a \in Admins, Change(a) \/ FollowUp(a)
      PROVE  index' = Expected'
  BY <1>3, <1>4, <1>5, <1>7
  DEF Change, FollowUp, CreateChannel, UpdateChannel, DeleteChannel, CreateRoute, UpdateRoute,
      DeleteRoute, ChangeItem, Reset, ImportChannel, ImportRoute, ReadBack,
      InvalidateAllRoutes, LoseInvalidation, cache
<1>8. QED
  BY <1>5, <1>6, <1>7 DEF Next, vars, cache

LEMMA LoaderTypes ==
    ASSUME ProxyCacheAssumption, TypeOK, index' = Expected',
           NEW l \in Loaders, LoaderStep(l)
    PROVE  TypeOK'
<1>1. /\ load \in [Loaders -> Load] /\ lost \in SUBSET Things
      /\ channels \in [Channels -> Rows \cup {None}]
      /\ routes \in [Names -> RouteInfo \cup {None}]
  BY DEF TypeOK
<1>2. database' = database /\ todo' = todo
  BY DEF LoaderStep, MissChannel, ReadChannel, FillChannel, MissRoute, ReadRoute, ReadItems,
         FillRoute, Abandon
<1>3. load' \in [Loaders -> Load]
  <2>1. ASSUME NEW state \in Load, Doing(l, state)
        PROVE  load' \in [Loaders -> Load]
    BY <1>1, <2>1 DEF Doing
  <2>2. ASSUME NEW c \in Channels, MissChannel(l, c)
        PROVE  load' \in [Loaders -> Load]
    BY <2>1, <2>2, LoadTypes DEF MissChannel
  <2>3. CASE ReadChannel(l)
    <3>1. load[l].c \in Channels /\ VisibleChannel(load[l].c) \in Rows \cup {None}
      BY <1>1, <2>3, LoadKinds, Answers DEF ReadChannel
    <3>2. QED
      BY <2>1, <2>3, <3>1, LoadTypes DEF ReadChannel
  <2>4. CASE FillChannel(l) \/ FillRoute(l) \/ Abandon(l)
    BY <2>1, <2>4, LoadTypes DEF FillChannel, FillRoute, Abandon
  <2>5. ASSUME NEW n \in Names, MissRoute(l, n)
        PROVE  load' \in [Loaders -> Load]
    BY <2>1, <2>5, LoadTypes DEF MissRoute
  <2>6. CASE ReadRoute(l)
    <3>1. load[l].n \in Names /\ EnabledAs(load[l].n) \subseteq RouteIds
      BY <1>1, <2>6, LoadKinds DEF ReadRoute, EnabledAs
    <3>2. QED
      BY <2>1, <2>6, <3>1, LoadTypes DEF ReadRoute
  <2>7. CASE ReadItems(l)
    <3>1. load[l].n \in Names /\ load[l].id \in RouteIds
      BY <1>1, <2>7, LoadKinds DEF ReadItems
    <3>2. [id |-> load[l].id, items |-> Items(load[l].id)] \in RouteInfo
      BY <3>1, Answers DEF RouteInfo
    <3>3. QED
      BY <2>1, <2>7, <3>1, <3>2, LoadTypes DEF ReadItems
  <2>8. QED
    BY <2>2, <2>3, <2>4, <2>5, <2>6, <2>7 DEF LoaderStep
<1>4. /\ channels' \in [Channels -> Rows \cup {None}]
      /\ routes' \in [Names -> RouteInfo \cup {None}]
      /\ lost' \in SUBSET Things
  <2>1. CASE FillChannel(l)
    <3>1. load[l].c \in Channels /\ load[l].row \in Rows
      BY <1>1, <2>1, LoadKinds DEF FillChannel
    <3>2. <<"channel", load[l].c>> \in Things
      BY <3>1 DEF Things, ChannelThings
    <3>3. channels' \in [Channels -> Rows \cup {None}] /\ routes' = routes
      BY <1>1, <2>1, <3>1 DEF FillChannel
    <3>4. lost' \in SUBSET Things
      BY <1>1, <2>1, <3>2 DEF FillChannel, Filled
    <3>5. QED
      BY <1>1, <3>3, <3>4
  <2>2. CASE FillRoute(l)
    <3>1. load[l].n \in Names /\ load[l].route \in RouteInfo
      BY <1>1, <2>2, LoadKinds DEF FillRoute
    <3>2. <<"route", load[l].n>> \in Things
      BY <3>1 DEF Things, RouteThings
    <3>3. routes' \in [Names -> RouteInfo \cup {None}] /\ channels' = channels
      BY <1>1, <2>2, <3>1 DEF FillRoute
    <3>4. lost' \in SUBSET Things
      BY <1>1, <2>2, <3>2 DEF FillRoute, Filled
    <3>5. QED
      BY <1>1, <3>3, <3>4
  <2>3. CASE UNCHANGED <<channels, routes, lost>>
    BY <1>1, <2>3
  <2>4. QED
    BY <2>1, <2>2, <2>3
    DEF LoaderStep, MissChannel, ReadChannel, MissRoute, ReadRoute, ReadItems, Abandon, cache
<1>5. index' \in [Models \X Channels -> 0..1]
  BY DEF Expected
<1>6. QED
  BY <1>2, <1>3, <1>4, <1>5 DEF TypeOK, database

\* The entries are things that are cached.
LEMMA EntriesAreThings ==
    ASSUME TypeOK
    PROVE  /\ CachedThings \subseteq Things
           /\ \A c \in Channels : channels[c] # None => <<"channel", c>> \in CachedThings
           /\ \A n \in Names : routes[n] # None => <<"route", n>> \in CachedThings
<1>1. DOMAIN channels = Channels /\ DOMAIN routes = Names
  BY DEF TypeOK
<1>2. QED
  BY <1>1 DEF CachedThings, Cached, Things, ChannelThings, RouteThings

LEMMA ChangeTypes ==
    ASSUME ProxyCacheAssumption, TypeOK, NEW a \in Admins, Change(a)
    PROVE  TypeOK'
<1>1. /\ todo \in [Admins -> Seq(Work)] /\ lost \in SUBSET Things
      /\ channelRow \in [Channels -> Rows \cup {None}]
      /\ routeRow \in [RouteIds -> RouteRow \cup {None}]
  BY DEF TypeOK
<1>2. UNCHANGED <<channels, index, routes, load>>
  BY DEF Change, CreateChannel, UpdateChannel, DeleteChannel, CreateRoute, UpdateRoute,
         DeleteRoute, ChangeItem, Reset, ImportChannel, ImportRoute, cache
<1>3. todo' \in [Admins -> Seq(Work)]
  <2>1. PICK rest \in Seq(Work) : Committed(a, rest)
    BY WorkOfChanges
    DEF Change, CreateChannel, UpdateChannel, DeleteChannel, CreateRoute, UpdateRoute,
        DeleteRoute, ChangeItem, Reset, ImportChannel, ImportRoute
  <2>2. QED
    BY <1>1, <2>1, WorkBegins
<1>4. lost' \in SUBSET Things
  BY <1>1, EntriesAreThings
  DEF Change, CreateChannel, UpdateChannel, DeleteChannel, CreateRoute, UpdateRoute,
      DeleteRoute, ChangeItem, Reset, ImportChannel, ImportRoute
<1>5. channelRow' \in [Channels -> Rows \cup {None}]
  BY <1>1
  DEF Change, CreateChannel, UpdateChannel, DeleteChannel, CreateRoute, UpdateRoute,
      DeleteRoute, ChangeItem, Reset, ImportChannel, ImportRoute
<1>6. routeRow' \in [RouteIds -> RouteRow \cup {None}]
  <2>1. ASSUME NEW c \in Channels, DeleteChannel(a, c)
        PROVE  routeRow' \in [RouteIds -> RouteRow \cup {None}]
    BY <1>1, <2>1 DEF DeleteChannel, RouteRow
  <2>2. ASSUME NEW id \in RouteIds, NEW c \in Channels, ChangeItem(a, id, c)
        PROVE  routeRow' \in [RouteIds -> RouteRow \cup {None}]
    <3>1. PICK items \in SUBSET Channels : routeRow' = [routeRow EXCEPT ![id].items = items]
      BY <2>2, Answers DEF ChangeItem
    <3>2. routeRow[id] \in RouteRow
      BY <1>1, <2>2 DEF ChangeItem
    <3>3. [routeRow[id] EXCEPT !.items = items] \in RouteRow
      BY <3>2 DEF RouteRow
    <3>4. QED
      BY <1>1, <3>1, <3>3
  <2>3. ASSUME NEW id \in RouteIds, NEW row \in RouteRow,
               CreateRoute(a, id, row) \/ UpdateRoute(a, id, row) \/ ImportRoute(a, id, row)
        PROVE  routeRow' \in [RouteIds -> RouteRow \cup {None}]
    BY <1>1, <2>3 DEF CreateRoute, UpdateRoute, ImportRoute
  <2>4. ASSUME NEW id \in RouteIds, DeleteRoute(a, id)
        PROVE  routeRow' \in [RouteIds -> RouteRow \cup {None}]
    BY <1>1, <2>4 DEF DeleteRoute
  <2>5. CASE Reset(a)
    BY <2>5 DEF Reset
  <2>6. CASE routeRow' = routeRow
    BY <1>1, <2>6
  <2>7. QED
    BY <2>1, <2>2, <2>3, <2>4, <2>5, <2>6
    DEF Change, CreateChannel, UpdateChannel, ImportChannel
<1>7. QED
  BY <1>2, <1>3, <1>4, <1>5, <1>6 DEF TypeOK

LEMMA FollowUpTypes ==
    ASSUME ProxyCacheAssumption, TypeOK, index' = Expected', NEW a \in Admins, FollowUp(a)
    PROVE  TypeOK'
<1>1. /\ todo \in [Admins -> Seq(Work)] /\ lost \in SUBSET Things
      /\ channels \in [Channels -> Rows \cup {None}]
      /\ routes \in [Names -> RouteInfo \cup {None}]
  BY DEF TypeOK
<1>2. UNCHANGED <<channelRow, routeRow, load>>
  BY DEF FollowUp, ReadBack, InvalidateChannel, InvalidateAllChannels, InvalidateAllRoutes,
         LoseInvalidation, database
<1>3. todo' \in [Admins -> Seq(Work)]
  <2>1. CASE LoseInvalidation(a)
    BY <1>1, <2>1, WorkOfChanges DEF LoseInvalidation
  <2>2. CASE todo[a] # <<>> /\ Advance(a)
    BY <1>1, <2>2, WorkAdvances
  <2>3. QED
    BY <2>1, <2>2
    DEF FollowUp, ReadBack, InvalidateChannel, InvalidateAllChannels, InvalidateAllRoutes
<1>4. lost' \in SUBSET Things
  <2>1. Pending(a) \subseteq Things
    BY <1>1, PendingThings
  <2>2. QED
    BY <1>1, <2>1
    DEF FollowUp, ReadBack, InvalidateChannel, InvalidateAllChannels, InvalidateAllRoutes,
        LoseInvalidation
<1>5. /\ channels' \in [Channels -> Rows \cup {None}]
      /\ routes' \in [Names -> RouteInfo \cup {None}]
  BY <1>1
  DEF FollowUp, ReadBack, InvalidateChannel, InvalidateAllChannels, InvalidateAllRoutes,
      LoseInvalidation, cache
<1>6. index' \in [Models \X Channels -> 0..1]
  BY DEF Expected
<1>7. QED
  BY <1>2, <1>3, <1>4, <1>5, <1>6 DEF TypeOK

-----------------------------------------------------------------------------
(* The limit.                                                              *)

\* A table below its limit takes one more entry.
LEMMA RoomForOne ==
    ASSUME NEW S, IsFiniteSet(S), NEW x, NEW T, NEW max \in Nat, T \subseteq S \cup {x},
           ~(Cardinality(S) >= max)
    PROVE  Cardinality(T) <= max
<1>1. /\ IsFiniteSet(S \cup {x}) /\ Cardinality(S) \in Nat
      /\ Cardinality(S \cup {x}) <= Cardinality(S) + 1
  BY FS_AddElement, FS_CardinalityType
<1>2. Cardinality(T) <= Cardinality(S \cup {x}) /\ Cardinality(T) \in Nat
      /\ Cardinality(S \cup {x}) \in Nat
  BY <1>1, FS_Subset, FS_CardinalityType
<1>3. QED
  BY <1>1, <1>2

\* In a full table an entry takes the place of another.
LEMMA PlaceOfAnother ==
    ASSUME NEW S, IsFiniteSet(S), NEW x, NEW victim \in S, NEW T,
           T \subseteq (S \ {victim}) \cup {x}
    PROVE  Cardinality(T) <= Cardinality(S)
<1>1. /\ IsFiniteSet(S \ {victim}) /\ Cardinality(S \ {victim}) = Cardinality(S) - 1
      /\ Cardinality(S) \in Nat /\ Cardinality(S \ {victim}) \in Nat
  BY FS_RemoveElement, FS_CardinalityType
<1> DEFINE R == S \ {victim}
<1>2. /\ IsFiniteSet(R \cup {x})
      /\ Cardinality(R \cup {x}) <= Cardinality(R) + 1
  <2> HIDE DEF R
  <2>1. IsFiniteSet(R) /\ Cardinality(R) \in Nat
    BY <1>1 DEF R
  <2>2. QED
    BY <2>1, FS_AddElement
<1>3. Cardinality(T) <= Cardinality((S \ {victim}) \cup {x}) /\ Cardinality(T) \in Nat
      /\ Cardinality((S \ {victim}) \cup {x}) \in Nat
  BY <1>2, FS_Subset, FS_CardinalityType
<1>4. QED
  BY <1>1, <1>2, <1>3

LEMMA LimitStep ==
    ASSUME ProxyCacheAssumption, TypeOK, TypeOK', CacheWithinLimit, [Next]_vars
    PROVE  CacheWithinLimit'
<1>1. /\ channels \in [Channels -> Rows \cup {None}]
      /\ channels' \in [Channels -> Rows \cup {None}]
      /\ routes \in [Names -> RouteInfo \cup {None}]
      /\ routes' \in [Names -> RouteInfo \cup {None}]
      /\ MaxCached \in Nat
  BY DEF TypeOK, ProxyCacheAssumption
<1>2. /\ Cached(channels) \subseteq Channels /\ Cached(routes) \subseteq Names
      /\ IsFiniteSet(Cached(channels)) /\ IsFiniteSet(Cached(routes))
      /\ Cardinality(Cached(channels)) \in Nat /\ Cardinality(Cached(routes)) \in Nat
  <2>1. Cached(channels) \subseteq Channels /\ Cached(routes) \subseteq Names
    BY <1>1 DEF Cached
  <2>2. IsFiniteSet(Cached(channels)) /\ IsFiniteSet(Cached(routes))
    BY <2>1, FS_Subset DEF ProxyCacheAssumption
  <2>3. QED
    BY <2>1, <2>2, FS_CardinalityType
<1>3. Cached(channels)' = Cached(channels') /\ Cached(routes)' = Cached(routes')
  BY DEF Cached
<1>4. ASSUME NEW l \in Loaders, FillChannel(l)
      PROVE  Cardinality(Cached(channels')) <= MaxCached
  <2> DEFINE c == load[l].c
             row == load[l].row
  <2>1. CASE channels[c] # None /\ channels' = [channels EXCEPT ![c] = row]
    <3>1. Cached(channels') \subseteq Cached(channels)
      BY <1>1, <2>1 DEF Cached
    <3>2. Cardinality(Cached(channels')) <= Cardinality(Cached(channels))
          /\ Cardinality(Cached(channels')) \in Nat
      BY <1>2, <3>1, FS_Subset, FS_CardinalityType
    <3>3. QED
      BY <1>1, <1>2, <3>2 DEF CacheWithinLimit
  <2>2. CASE ~Full(channels) /\ channels' = [channels EXCEPT ![c] = row]
    <3>1. Cached(channels') \subseteq Cached(channels) \cup {c}
      BY <1>1, <2>2 DEF Cached
    <3> HIDE DEF c
    <3>2. QED
      BY <1>1, <1>2, <2>2, <3>1, RoomForOne DEF Full
  <2>3. ASSUME NEW victim \in Cached(channels),
               channels' = [channels EXCEPT ![victim] = None, ![c] = row],
               channels[c] = None
        PROVE  Cardinality(Cached(channels')) <= MaxCached
    <3>1. Cached(channels') \subseteq (Cached(channels) \ {victim}) \cup {c}
      BY <1>1, <2>3 DEF Cached
    <3>2. Cardinality(Cached(channels')) <= Cardinality(Cached(channels))
      <4> HIDE DEF c
      <4>1. QED
        BY <1>2, <3>1, PlaceOfAnother
    <3>3. Cardinality(Cached(channels')) \in Nat
      <4>1. Cached(channels') \subseteq Channels
        BY <1>1 DEF Cached
      <4>2. QED
        BY <4>1, FS_Subset, FS_CardinalityType DEF ProxyCacheAssumption
    <3>4. QED
      BY <1>1, <1>2, <3>2, <3>3 DEF CacheWithinLimit
  <2>4. QED
    BY <1>4, <2>1, <2>2, <2>3 DEF FillChannel
<1>5. ASSUME NEW l \in Loaders, FillRoute(l)
      PROVE  Cardinality(Cached(routes')) <= MaxCached
  <2> DEFINE n == load[l].n
             route == load[l].route
  <2>1. CASE ~Full(routes) /\ routes' = [routes EXCEPT ![n] = route]
    <3>1. Cached(routes') \subseteq Cached(routes) \cup {n}
      BY <1>1, <2>1 DEF Cached
    <3> HIDE DEF n
    <3>2. QED
      BY <1>1, <1>2, <2>1, <3>1, RoomForOne DEF Full
  <2>2. ASSUME NEW victim \in Cached(routes),
               routes' = [routes EXCEPT ![victim] = None, ![n] = route]
        PROVE  Cardinality(Cached(routes')) <= MaxCached
    <3>1. Cached(routes') \subseteq (Cached(routes) \ {victim}) \cup {n}
      BY <1>1, <2>2 DEF Cached
    <3>2. Cardinality(Cached(routes')) <= Cardinality(Cached(routes))
      <4> HIDE DEF n
      <4>1. QED
        BY <1>2, <3>1, PlaceOfAnother
    <3>3. Cardinality(Cached(routes')) \in Nat
      <4>1. Cached(routes') \subseteq Names
        BY <1>1 DEF Cached
      <4>2. QED
        BY <4>1, FS_Subset, FS_CardinalityType DEF ProxyCacheAssumption
    <3>4. QED
      BY <1>1, <1>2, <3>2, <3>3 DEF CacheWithinLimit
  <2>3. QED
    BY <1>5, <2>1, <2>2 DEF FillRoute
<1>6. Cached([c \in Channels |-> None]) = {} /\ Cached([n \in Names |-> None]) = {}
  BY DEF Cached
<1>7. CASE channels' \in {channels, [c \in Channels |-> None]} /\ routes' = routes
  <2>1. CASE channels' = channels
    BY <1>7, <2>1 DEF CacheWithinLimit
  <2>2. CASE channels' = [c \in Channels |-> None]
    <3>1. Cardinality(Cached(channels')) = 0
      BY <1>6, <2>2, FS_EmptySet
    <3>2. QED
      BY <1>1, <1>3, <1>7, <3>1 DEF CacheWithinLimit
  <2>3. QED
    BY <1>7, <2>1, <2>2
<1>8. CASE routes' \in {routes, [n \in Names |-> None]} /\ channels' = channels
  BY <1>1, <1>3, <1>6, <1>8, FS_EmptySet DEF CacheWithinLimit
<1>9. ASSUME NEW l \in Loaders, LoaderStep(l)
      PROVE  CacheWithinLimit'
  <2>1. CASE FillChannel(l)
    <3>1. routes' = routes
      BY <2>1 DEF FillChannel
    <3>2. QED
      BY <1>3, <1>4, <2>1, <3>1 DEF CacheWithinLimit
  <2>2. CASE FillRoute(l)
    <3>1. channels' = channels
      BY <2>2 DEF FillRoute
    <3>2. QED
      BY <1>3, <1>5, <2>2, <3>1 DEF CacheWithinLimit
  <2>3. CASE UNCHANGED <<channels, routes>>
    BY <1>7, <2>3
  <2>4. QED
    BY <1>9, <2>1, <2>2, <2>3
    DEF LoaderStep, MissChannel, ReadChannel, MissRoute, ReadRoute, ReadItems, Abandon, cache
<1>10. ASSUME NEW a \in Admins, InvalidateChannel(a)
       PROVE  CacheWithinLimit'
  <2>1. /\ channels' = [channels EXCEPT ![NextWork(a)[2]] = None]
        /\ routes' = routes
    BY <1>10 DEF InvalidateChannel
  <2>2. Cached(channels') \subseteq Cached(channels)
    BY <1>1, <2>1 DEF Cached
  <2>3. Cardinality(Cached(channels')) <= Cardinality(Cached(channels))
        /\ Cardinality(Cached(channels')) \in Nat
    BY <1>2, <2>2, FS_Subset, FS_CardinalityType
  <2>4. QED
    BY <1>1, <1>2, <1>3, <2>1, <2>3 DEF CacheWithinLimit
<1>11. ASSUME NEW a \in Admins, Change(a) \/ FollowUp(a)
       PROVE  CacheWithinLimit'
  BY <1>7, <1>8, <1>10, <1>11
  DEF Change, FollowUp, CreateChannel, UpdateChannel, DeleteChannel, CreateRoute, UpdateRoute,
      DeleteRoute, ChangeItem, Reset, ImportChannel, ImportRoute, ReadBack,
      InvalidateAllChannels, InvalidateAllRoutes, LoseInvalidation, cache
<1>12. QED
  BY <1>7, <1>9, <1>11 DEF Next, vars, cache

-----------------------------------------------------------------------------
(* Stale entries.                                                          *)

\* A request that loads leaves what is pending, and accounts for its fill.
LEMMA LoaderAccounts ==
    ASSUME ProxyCacheAssumption, TypeOK, StaleIsAccountedFor, NEW l \in Loaders, LoaderStep(l)
    PROVE  StaleIsAccountedFor'
<1>1. channelRow' = channelRow /\ routeRow' = routeRow /\ todo' = todo
  BY DEF LoaderStep, MissChannel, ReadChannel, FillChannel, MissRoute, ReadRoute, ReadItems,
         FillRoute, Abandon, database
<1>2. /\ \A c \in Channels : VisibleChannel(c)' = VisibleChannel(c)
      /\ \A n, route : CurrentRoute(n, route) <=> CurrentRoute(n, route)'
      /\ \A a \in Admins : Pending(a)' = Pending(a)
  BY <1>1 DEF VisibleChannel, CurrentRoute, EnabledAs, Items, Pending
<1>3. /\ channels \in [Channels -> Rows \cup {None}]
      /\ routes \in [Names -> RouteInfo \cup {None}] /\ load[l] \in Load
  BY DEF TypeOK
<1>4. CASE UNCHANGED <<channels, routes, lost>>
  BY <1>1, <1>2, <1>4
  DEF StaleIsAccountedFor, StaleChannel, StaleRoute, Corrected, VisibleChannel, CurrentRoute,
      EnabledAs, Items
<1>5. CASE FillChannel(l)
  <2> DEFINE filled == load[l].c
             row == load[l].row
  <2>1. filled \in Channels /\ row \in Rows
    BY <1>3, <1>5, LoadKinds DEF FillChannel
  <2>2. /\ channels'[filled] = row /\ routes' = routes
        /\ \A c \in Channels \ {filled} : channels'[c] \in {channels[c], None}
    BY <1>3, <1>5, <2>1 DEF FillChannel
  <2>3. lost' = IF row = VisibleChannel(filled) THEN lost \ {<<"channel", filled>>}
                ELSE lost \cup {<<"channel", filled>>}
    BY <1>5 DEF FillChannel, Filled
  <2> HIDE DEF filled, row
  <2>4. ASSUME NEW c \in Channels, StaleChannel(c)'
        PROVE  Corrected(<<"channel", c>>)'
    <3>1. channels'[c] # None /\ channels'[c] # VisibleChannel(c)
      BY <1>2, <2>4 DEF StaleChannel
    <3>2. CASE c = filled
      BY <2>2, <2>3, <3>1, <3>2 DEF Corrected
    <3>3. CASE c # filled
      <4>1. Corrected(<<"channel", c>>)
        BY <2>2, <3>1, <3>3 DEF StaleIsAccountedFor, StaleChannel
      <4>2. <<"channel", c>> # <<"channel", filled>>
        BY <3>3
      <4>3. QED
        BY <1>2, <2>3, <4>1, <4>2 DEF Corrected
    <3>4. QED
      BY <3>2, <3>3
  <2>5. ASSUME NEW n \in Names, StaleRoute(n)'
        PROVE  Corrected(<<"route", n>>)'
    <3>1. StaleRoute(n)
      BY <1>1, <2>2, <2>5 DEF StaleRoute, CurrentRoute, EnabledAs, Items
    <3>2. Corrected(<<"route", n>>) /\ <<"route", n>> # <<"channel", filled>>
      BY <3>1 DEF StaleIsAccountedFor
    <3>3. QED
      BY <1>2, <2>3, <3>2 DEF Corrected
  <2>6. QED
    BY <2>4, <2>5 DEF StaleIsAccountedFor
<1>6. CASE FillRoute(l)
  <2> DEFINE filled == load[l].n
             route == load[l].route
  <2>1. filled \in Names /\ route \in RouteInfo
    BY <1>3, <1>6, LoadKinds DEF FillRoute
  <2>2. /\ routes'[filled] = route /\ channels' = channels
        /\ \A n \in Names \ {filled} : routes'[n] \in {routes[n], None}
    BY <1>3, <1>6, <2>1 DEF FillRoute
  <2>3. lost' = IF CurrentRoute(filled, route) THEN lost \ {<<"route", filled>>}
                ELSE lost \cup {<<"route", filled>>}
    BY <1>6 DEF FillRoute, Filled
  <2> HIDE DEF filled, route
  <2>4. ASSUME NEW n \in Names, StaleRoute(n)'
        PROVE  Corrected(<<"route", n>>)'
    <3>1. routes'[n] # None /\ ~CurrentRoute(n, routes'[n])
      BY <1>1, <2>4 DEF StaleRoute, CurrentRoute, EnabledAs, Items
    <3>2. CASE n = filled
      BY <2>2, <2>3, <3>1, <3>2 DEF Corrected
    <3>3. CASE n # filled
      <4>1. Corrected(<<"route", n>>)
        BY <2>2, <3>1, <3>3 DEF StaleIsAccountedFor, StaleRoute
      <4>2. <<"route", n>> # <<"route", filled>>
        BY <3>3
      <4>3. QED
        BY <1>2, <2>3, <4>1, <4>2 DEF Corrected
    <3>4. QED
      BY <3>2, <3>3
  <2>5. ASSUME NEW c \in Channels, StaleChannel(c)'
        PROVE  Corrected(<<"channel", c>>)'
    <3>1. StaleChannel(c)
      BY <1>2, <2>2, <2>5 DEF StaleChannel
    <3>2. Corrected(<<"channel", c>>) /\ <<"channel", c>> # <<"route", filled>>
      BY <3>1 DEF StaleIsAccountedFor
    <3>3. QED
      BY <1>2, <2>3, <3>2 DEF Corrected
  <2>6. QED
    BY <2>4, <2>5 DEF StaleIsAccountedFor
<1>7. QED
  BY <1>4, <1>5, <1>6
  DEF LoaderStep, MissChannel, ReadChannel, MissRoute, ReadRoute, ReadItems, Abandon, cache

\* Each change asks for the invalidation of all that it makes stale, or has
\* nothing cached to make stale, or gives everything up as lost.
LEMMA ChangeAccounts ==
    ASSUME ProxyCacheAssumption, TypeOK, StaleIsAccountedFor, NEW a \in Admins, Change(a)
    PROVE  StaleIsAccountedFor'
<1>1. /\ todo \in [Admins -> Seq(Work)] /\ lost \in SUBSET Things
      /\ channelRow \in [Channels -> Rows \cup {None}]
      /\ routeRow \in [RouteIds -> RouteRow \cup {None}]
      /\ routes \in [Names -> RouteInfo \cup {None}]
  BY DEF TypeOK
<1>2. /\ UNCHANGED <<channels, routes>>
      /\ lost \subseteq lost'
  BY <1>1
  DEF Change, CreateChannel, UpdateChannel, DeleteChannel, CreateRoute, UpdateRoute,
      DeleteRoute, ChangeItem, Reset, ImportChannel, ImportRoute, cache
<1>3. ASSUME NEW rest \in Seq(Work), Committed(a, rest)
      PROVE  /\ \A thing : Corrected(thing) => Corrected(thing)'
             /\ \A i \in DOMAIN rest : \A thing \in Clears(rest[i]) : Corrected(thing)'
  BY <1>1, <1>2, <1>3, WorkBegins DEF Corrected
<1>4. \A thing : Corrected(thing) => Corrected(thing)'
  BY <1>3, WorkOfChanges
  DEF Change, CreateChannel, UpdateChannel, DeleteChannel, CreateRoute, UpdateRoute,
      DeleteRoute, ChangeItem, Reset, ImportChannel, ImportRoute
<1>5. ASSUME NEW c \in Channels
      PROVE  \/ channelRow'[c] = channelRow[c]
             \/ channels[c] = None
             \/ Corrected(<<"channel", c>>)'
  <2>1. CASE Reset(a)
    BY <2>1, EntriesAreThings DEF Reset, Corrected
  <2>2. ASSUME NEW row \in Rows, UpdateChannel(a, c, row)
        PROVE  Corrected(<<"channel", c>>)'
    <3>1. Committed(a, AfterUpdate(c)) /\ AfterUpdate(c) \in Seq(Work)
      BY <2>2, WorkOfChanges DEF UpdateChannel
    <3>2. 2 \in DOMAIN AfterUpdate(c) /\ AfterUpdate(c)[2] = <<"channel", c>>
      BY DEF AfterUpdate
    <3>3. QED
      BY <1>3, <3>1, <3>2, ClearsWhat
  <2>3. CASE DeleteChannel(a, c)
    <3>1. Committed(a, AfterDelete(c)) /\ AfterDelete(c) \in Seq(Work)
      BY <2>3, WorkOfChanges DEF DeleteChannel
    <3>2. 1 \in DOMAIN AfterDelete(c) /\ AfterDelete(c)[1] = <<"channel", c>>
      BY DEF AfterDelete
    <3>3. QED
      BY <1>3, <3>1, <3>2, ClearsWhat
  <2>4. ASSUME NEW row \in Rows, CreateChannel(a, c, row) \/ ImportChannel(a, c, row)
        PROVE  channels[c] = None
    BY <2>4 DEF CreateChannel, ImportChannel, NewChannel
  <2>5. ASSUME NEW d \in Channels \ {c}, NEW row \in Rows,
               \/ CreateChannel(a, d, row) \/ UpdateChannel(a, d, row)
               \/ ImportChannel(a, d, row)
        PROVE  channelRow'[c] = channelRow[c]
    BY <1>1, <2>5 DEF CreateChannel, UpdateChannel, ImportChannel
  <2>6. CASE channelRow' = channelRow
    BY <2>6
  <2>7. ASSUME NEW d \in Channels \ {c}, DeleteChannel(a, d)
        PROVE  channelRow'[c] = channelRow[c]
    BY <1>1, <2>7 DEF DeleteChannel
  <2>8. QED
    BY <2>1, <2>2, <2>3, <2>4, <2>5, <2>6, <2>7
    DEF Change, CreateRoute, UpdateRoute, DeleteRoute, ChangeItem, ImportRoute
<1>6. ASSUME NEW n \in Names, routes[n] # None
      PROVE  \/ CurrentRoute(n, routes[n]) => CurrentRoute(n, routes[n])'
             \/ Corrected(<<"route", n>>)'
  <2>1. routes[n] \in RouteInfo /\ routes[n].id \in RouteIds
    BY <1>1, <1>6 DEF RouteInfo
  <2>2. <<"route", n>> \in RouteThings /\ <<"route", n>> \in Things
    BY DEF RouteThings, Things
  <2>3. ASSUME NEW rest \in Seq(Work), Committed(a, rest),
               \E i \in DOMAIN rest : rest[i] = AllRoutes
        PROVE  Corrected(<<"route", n>>)'
    BY <1>3, <2>2, <2>3, ClearsWhat
  <2>4. CASE Reset(a)
    BY <1>6, <2>4, EntriesAreThings DEF Reset, Corrected
  <2>5. ASSUME NEW c \in Channels, NEW row, UpdateChannel(a, c, row)
        PROVE  Corrected(<<"route", n>>)'
    <3>1. 3 \in DOMAIN AfterUpdate(c) /\ AfterUpdate(c)[3] = AllRoutes
      BY DEF AfterUpdate
    <3>2. QED
      BY <2>3, <2>5, <3>1, WorkOfChanges DEF UpdateChannel
  <2>6. ASSUME NEW id \in RouteIds, NEW row \in RouteRow,
               CreateRoute(a, id, row) \/ UpdateRoute(a, id, row)
        PROVE  Corrected(<<"route", n>>)'
    <3> DEFINE rest == <<<<"rereadRoute", id>>, AllRoutes>>
    <3>1. rest \in Seq(Work) /\ Committed(a, rest)
      BY <2>6, WorkOfChanges DEF CreateRoute, UpdateRoute
    <3>2. 2 \in DOMAIN rest /\ rest[2] = AllRoutes
      OBVIOUS
    <3> HIDE DEF rest
    <3>3. QED
      BY <2>3, <3>1, <3>2
  <2>7. ASSUME Committed(a, <<AllRoutes>>)
        PROVE  Corrected(<<"route", n>>)'
    <3> DEFINE rest == <<AllRoutes>>
    <3>1. rest \in Seq(Work) /\ Committed(a, rest)
      BY <2>7, WorkOfChanges
    <3>2. 1 \in DOMAIN rest /\ rest[1] = AllRoutes
      OBVIOUS
    <3> HIDE DEF rest
    <3>3. QED
      BY <2>3, <3>1, <3>2
  <2>8. ASSUME NEW c \in Channels, DeleteChannel(a, c)
        PROVE  \/ CurrentRoute(n, routes[n]) => CurrentRoute(n, routes[n])'
               \/ Corrected(<<"route", n>>)'
    <3>1. CASE \E id \in RouteIds : c \in Items(id)
      <4>1. 2 \in DOMAIN AfterDelete(c) /\ AfterDelete(c)[2] = AllRoutes
        BY <3>1 DEF AfterDelete
      <4>2. QED
        BY <2>3, <2>8, <4>1, WorkOfChanges DEF DeleteChannel
    <3>2. CASE \A id \in RouteIds : c \notin Items(id)
      <4>1. ASSUME NEW id \in RouteIds
            PROVE  routeRow'[id] = routeRow[id]
        <5>1. routeRow'[id] = IF routeRow[id] = None THEN None
                              ELSE [routeRow[id] EXCEPT !.items = @ \ {c}]
          BY <2>8 DEF DeleteChannel
        <5>2. CASE routeRow[id] # None
          <6>1. routeRow[id] \in RouteRow /\ c \notin routeRow[id].items
            BY <1>1, <3>2, <5>2 DEF Items
          <6>2. routeRow[id].items \ {c} = routeRow[id].items
            BY <6>1
          <6>3. QED
            BY <5>1, <5>2, <6>1, <6>2 DEF RouteRow
        <5>3. QED
          BY <5>1, <5>2
      <4>2. CurrentRoute(n, routes[n]) => CurrentRoute(n, routes[n])'
        BY <1>2, <2>1, <4>1 DEF CurrentRoute, EnabledAs, Items
      <4>3. QED
        BY <4>2
    <3>3. QED
      BY <3>1, <3>2
  <2>9. ASSUME NEW id \in RouteIds, NEW row \in RouteRow, ImportRoute(a, id, row)
        PROVE  CurrentRoute(n, routes[n]) => CurrentRoute(n, routes[n])'
    <3>1. routes[n].id # id /\ routeRow' = [routeRow EXCEPT ![id] = row]
      BY <1>6, <2>9 DEF ImportRoute, NewRoute
    <3>2. routeRow'[routes[n].id] = routeRow[routes[n].id]
      BY <1>1, <3>1
    <3>3. QED
      BY <1>2, <2>1, <3>2 DEF CurrentRoute, EnabledAs, Items
  <2>10. CASE routeRow' = routeRow
    BY <1>2, <2>10 DEF CurrentRoute, EnabledAs, Items
  <2>11. ASSUME NEW c \in Channels, NEW row \in Rows,
                CreateChannel(a, c, row) \/ ImportChannel(a, c, row)
         PROVE  routeRow' = routeRow
    BY <2>11 DEF CreateChannel, ImportChannel
  <2>12. ASSUME NEW id \in RouteIds, DeleteRoute(a, id)
         PROVE  Corrected(<<"route", n>>)'
    BY <2>7, <2>12 DEF DeleteRoute
  <2>13. ASSUME NEW id \in RouteIds, NEW c \in Channels, ChangeItem(a, id, c)
         PROVE  Corrected(<<"route", n>>)'
    BY <2>7, <2>13 DEF ChangeItem
  <2>14. QED
    BY <2>4, <2>5, <2>6, <2>8, <2>9, <2>10, <2>11, <2>12, <2>13 DEF Change
<1>7. ASSUME NEW c \in Channels, StaleChannel(c)'
      PROVE  Corrected(<<"channel", c>>)'
  <2>1. CASE channelRow'[c] = channelRow[c]
    <3>1. StaleChannel(c)
      BY <1>2, <1>7, <2>1 DEF StaleChannel, VisibleChannel
    <3>2. QED
      BY <1>4, <3>1 DEF StaleIsAccountedFor
  <2>2. channels[c] # None
    BY <1>2, <1>7 DEF StaleChannel
  <2>3. QED
    BY <1>5, <2>1, <2>2
<1>8. ASSUME NEW n \in Names, StaleRoute(n)'
      PROVE  Corrected(<<"route", n>>)'
  <2>1. routes[n] # None /\ ~(CurrentRoute(n, routes[n])')
    BY <1>2, <1>8 DEF StaleRoute
  <2>2. CASE ~CurrentRoute(n, routes[n])
    BY <1>4, <2>1, <2>2 DEF StaleIsAccountedFor, StaleRoute
  <2>3. QED
    BY <1>6, <2>1, <2>2
<1>9. QED
  BY <1>7, <1>8 DEF StaleIsAccountedFor

\* What a handler does after its commit clears what it says, and what it does
\* not get to is lost.
LEMMA FollowUpAccounts ==
    ASSUME ProxyCacheAssumption, TypeOK, StaleIsAccountedFor, NEW a \in Admins, FollowUp(a)
    PROVE  StaleIsAccountedFor'
<1>1. /\ todo \in [Admins -> Seq(Work)]
      /\ channels \in [Channels -> Rows \cup {None}]
  BY DEF TypeOK
<1>2. UNCHANGED <<channelRow, routeRow>>
  BY DEF FollowUp, ReadBack, InvalidateChannel, InvalidateAllChannels, InvalidateAllRoutes,
         LoseInvalidation, database
<1>3. \A c \in Channels : VisibleChannel(c)' = VisibleChannel(c)
  BY <1>2 DEF VisibleChannel
<1>4. ASSUME todo[a] # <<>>, Advance(a), NEW thing, Corrected(thing),
             \/ thing \in lost'
             \/ thing \notin lost /\ thing \notin Clears(NextWork(a))
      PROVE  Corrected(thing)'
  BY <1>1, <1>4, WorkAdvances DEF Corrected
<1>5. ASSUME \A c \in Channels : channels'[c] # None =>
                channels'[c] = channels[c] /\ (Corrected(<<"channel", c>>) => Corrected(<<"channel", c>>)'),
             \A n \in Names : routes'[n] # None =>
                routes'[n] = routes[n] /\ (Corrected(<<"route", n>>) => Corrected(<<"route", n>>)')
      PROVE  StaleIsAccountedFor'
  <2>1. \A c \in Channels : StaleChannel(c)' => StaleChannel(c) /\ channels'[c] # None
    BY <1>3, <1>5 DEF StaleChannel
  <2>2. \A n \in Names : StaleRoute(n)' => StaleRoute(n) /\ routes'[n] # None
    BY <1>2, <1>5 DEF StaleRoute, CurrentRoute, EnabledAs, Items
  <2>3. QED
    BY <1>5, <2>1, <2>2 DEF StaleIsAccountedFor
<1>6. CASE ReadBack(a)
  <2>1. /\ todo[a] # <<>> /\ Advance(a) /\ UNCHANGED <<channels, routes, lost>>
        /\ NextWork(a)[1] \in {"rereadChannel", "rereadRoute"}
    BY <1>6 DEF ReadBack, cache
  <2>2. Clears(NextWork(a)) = {}
    BY <1>1, <2>1, WorkAdvances, WorkKinds
  <2>3. \A thing : Corrected(thing) => Corrected(thing)'
    BY <1>4, <2>1, <2>2
  <2>4. QED
    BY <1>5, <2>1, <2>3
<1>7. CASE InvalidateChannel(a)
  <2> DEFINE d == NextWork(a)[2]
  <2>1. /\ todo[a] # <<>> /\ Advance(a) /\ routes' = routes /\ NextWork(a)[1] = "channel"
        /\ channels' = [channels EXCEPT ![d] = None] /\ lost' = lost \ {<<"channel", d>>}
    BY <1>7 DEF InvalidateChannel
  <2>2. d \in Channels /\ NextWork(a) = <<"channel", d>>
    BY <1>1, <2>1, WorkAdvances, WorkKinds
  <2> HIDE DEF d
  <2>3. Clears(NextWork(a)) = {<<"channel", d>>}
    BY <2>2, ClearsWhat
  <2>4. \A thing : thing # <<"channel", d>> /\ Corrected(thing) => Corrected(thing)'
    BY <1>4, <2>1, <2>3
  <2>5. \A c \in Channels : channels'[c] # None =>
            channels'[c] = channels[c] /\ <<"channel", c>> # <<"channel", d>>
    BY <1>1, <2>1, <2>2
  <2>6. \A n \in Names : <<"route", n>> # <<"channel", d>>
    OBVIOUS
  <2>7. QED
    BY <1>5, <2>1, <2>4, <2>5, <2>6
<1>8. CASE InvalidateAllChannels(a)
  <2>1. /\ todo[a] # <<>> /\ Advance(a) /\ routes' = routes /\ lost' = lost \ ChannelThings
        /\ Clears(NextWork(a)) = ChannelThings
        /\ \A c \in Channels : channels'[c] = None
    BY <1>8, ClearsWhat DEF InvalidateAllChannels
  <2>2. \A thing : thing \notin ChannelThings /\ Corrected(thing) => Corrected(thing)'
    BY <1>4, <2>1
  <2>3. \A n \in Names : <<"route", n>> \notin ChannelThings
    BY DEF ChannelThings
  <2>4. QED
    BY <1>5, <2>1, <2>2, <2>3
<1>9. CASE InvalidateAllRoutes(a)
  <2>1. /\ todo[a] # <<>> /\ Advance(a) /\ channels' = channels /\ lost' = lost \ RouteThings
        /\ Clears(NextWork(a)) = RouteThings
        /\ \A n \in Names : routes'[n] = None
    BY <1>9, ClearsWhat DEF InvalidateAllRoutes
  <2>2. \A thing : thing \notin RouteThings /\ Corrected(thing) => Corrected(thing)'
    BY <1>4, <2>1
  <2>3. \A c \in Channels : <<"channel", c>> \notin RouteThings
    BY DEF RouteThings
  <2>4. QED
    BY <1>5, <2>1, <2>2, <2>3
<1>10. CASE LoseInvalidation(a)
  <2>1. /\ UNCHANGED <<channels, routes>> /\ lost' = lost \cup (Pending(a) \cap CachedThings)
        /\ \A b \in Admins \ {a} : todo'[b] = todo[b]
    BY <1>1, <1>10 DEF LoseInvalidation, cache
  <2>2. \A b \in Admins \ {a} : Pending(b)' = Pending(b)
    BY <2>1 DEF Pending
  <2>3. \A thing \in CachedThings : Corrected(thing) => Corrected(thing)'
    BY <2>1, <2>2 DEF Corrected
  <2>4. QED
    BY <1>5, <2>1, <2>3, EntriesAreThings
<1>11. QED
  BY <1>6, <1>7, <1>8, <1>9, <1>10 DEF FollowUp

-----------------------------------------------------------------------------

IInv ==
    /\ TypeOK
    /\ index = Expected
    /\ StaleIsAccountedFor
    /\ CacheWithinLimit

LEMMA Initially ==
    ASSUME ProxyCacheAssumption, Init
    PROVE  IInv
<1>1. TypeOK
  BY WorkOfChanges, LoadTypes DEF Init, TypeOK
<1>2. index = Expected
  BY DEF Init, Expected
<1>3. StaleIsAccountedFor
  BY DEF Init, StaleIsAccountedFor, StaleChannel, StaleRoute
<1>4. CacheWithinLimit
  <2>1. Cached(channels) = {} /\ Cached(routes) = {}
    BY DEF Init, Cached
  <2>2. QED
    BY <2>1, FS_EmptySet DEF CacheWithinLimit, ProxyCacheAssumption
<1>5. QED
  BY <1>1, <1>2, <1>3, <1>4 DEF IInv

LEMMA Inductive ==
    ASSUME ProxyCacheAssumption, IInv, [Next]_vars
    PROVE  IInv'
<1>1. TypeOK /\ index = Expected /\ StaleIsAccountedFor /\ CacheWithinLimit
  BY DEF IInv
<1>2. index' = Expected'
  BY <1>1, IndexStep
<1>3. CASE UNCHANGED vars
  BY <1>1, <1>3
  DEF IInv, vars, database, cache, TypeOK, Expected, StaleIsAccountedFor, CacheWithinLimit,
      StaleChannel, StaleRoute, Corrected, Pending, VisibleChannel, CurrentRoute, EnabledAs,
      Items, Cached
<1>4. ASSUME NEW l \in Loaders, LoaderStep(l)
      PROVE  TypeOK' /\ StaleIsAccountedFor'
  BY <1>1, <1>2, <1>4, LoaderTypes, LoaderAccounts
<1>5. ASSUME NEW a \in Admins, Change(a)
      PROVE  TypeOK' /\ StaleIsAccountedFor'
  BY <1>1, <1>5, ChangeTypes, ChangeAccounts
<1>6. ASSUME NEW a \in Admins, FollowUp(a)
      PROVE  TypeOK' /\ StaleIsAccountedFor'
  BY <1>1, <1>2, <1>6, FollowUpTypes, FollowUpAccounts
<1>7. CASE Next
  <2>1. TypeOK' /\ StaleIsAccountedFor'
    BY <1>4, <1>5, <1>6, <1>7 DEF Next
  <2>2. CacheWithinLimit'
    BY <1>1, <2>1, LimitStep
  <2>3. QED
    BY <1>2, <2>1, <2>2 DEF IInv
<1>8. QED
  BY <1>3, <1>7

LEMMA Always ==
    ASSUME ProxyCacheAssumption
    PROVE  Spec => []IInv
<1>1. Init => IInv
  BY Initially
<1>2. IInv /\ [Next]_vars => IInv'
  BY Inductive
<1>3. QED
  BY <1>1, <1>2, PTL DEF Spec

\* Every entry that says something else than the database has an invalidation
\* to come, or lost it in one of three ways: a fill that read before the
\* change, a change cut short after its commit, a reset (infra/cache.rs,
\* service/channel/mod.rs, service/route/mod.rs).
THEOREM StaleIsAccountedForHolds ==
    ASSUME ProxyCacheAssumption
    PROVE  Spec => []StaleIsAccountedFor
<1>1. IInv => StaleIsAccountedFor
  BY DEF IInv
<1>2. QED
  BY <1>1, Always, PTL

\* Through every fill, eviction and invalidation the reverse index lists a
\* channel under exactly the models of its cached row, once each
\* (infra/cache.rs, set_channel, invalidate_channel).
THEOREM IndexMatchesCacheHolds ==
    ASSUME ProxyCacheAssumption
    PROVE  Spec => []IndexMatchesCache
<1>1. IInv => IndexMatchesCache
  BY DEF IInv, Expected, IndexMatchesCache
<1>2. QED
  BY <1>1, Always, PTL

\* No table outgrows its limit, whoever fills it at the same time
\* (infra/cache.rs, set_channel, set_group).
THEOREM CacheWithinLimitHolds ==
    ASSUME ProxyCacheAssumption
    PROVE  Spec => []CacheWithinLimit
<1>1. IInv => CacheWithinLimit
  BY DEF IInv
<1>2. QED
  BY <1>1, Always, PTL
=============================================================================
