----------------------------- MODULE KeyCacheProofs -----------------------------
(* That a disabled key stops working in bounded time, for any keys, any      *)
(* number of requests and administrators, any lifetime and any delay.        *)
EXTENDS KeyCache, TLAPS

\* What is cached, or about to be, was enabled when its row was read.
EnabledLately ==
    /\ \A k \in Keys : row[k] \in EnabledRows => off[k] = 0
    /\ \A r \in Requests :
          pc[r].at = "found" /\ pc[r].row \in EnabledRows => off[pc[r].key] <= pc[r].age
    /\ \A k \in Keys :
          entry[k] # None /\ entry[k].row \in EnabledRows => off[k] <= entry[k].age + MaxDelay

IInv == TypeOK /\ EnabledLately /\ GrantsExpire

USE KeyCacheAssumption

(* The cache starts empty and every key disabled.                            *)
LEMMA InitHolds == Init => IInv
  BY DEF Init, IInv, TypeOK, EnabledLately, GrantsExpire, OffCap, AtRequest, AtAdmin, Idle

(* The shapes a request's state can have.                                    *)
LEMMA RequestShapes ==
    ASSUME TypeOK, NEW r \in Requests
    PROVE  /\ pc[r].at = "query" => pc[r].key \in Keys
           /\ pc[r].at = "found" =>
                 /\ pc[r].key \in Keys /\ pc[r].row \in Rows
                 /\ pc[r].age \in 0 .. MaxDelay
                 /\ pc[r] = Found(pc[r].key, pc[r].row, pc[r].age)
  BY DEF TypeOK, AtRequest, Idle, Query, Found

LEMMA AdminShapes ==
    ASSUME TypeOK, NEW a \in Admins, admin[a] # Idle
    PROVE  admin[a].key \in Keys
  BY DEF TypeOK, AtAdmin, Idle, Change

(* The steps of a request keep what is cached recent enough.                 *)
LEMMA AskKeeps ==
    ASSUME IInv, NEW r \in Requests, Ask(r)
    PROVE  IInv'
  <1> USE DEF IInv
  <1>1. ASSUME NEW k \in Keys, Hit(r, k) PROVE IInv'
    <2>1. entry[k] \in Entry /\ entry[k].age < TTL
      BY <1>1 DEF Hit, Live, TypeOK
    <2>2. TypeOK'
      BY <1>1, <2>1 DEF Hit, TypeOK, Answered, Answer, Entry
    <2>3. EnabledLately'
      BY <1>1 DEF Hit, EnabledLately
    <2>4. answer'.granted => off[k] < TTL + MaxDelay
      <3>1. answer'.granted => entry[k].row \in EnabledRows
        BY <1>1, Zenon DEF Hit, Answered
      <3>2. entry[k] # None /\ entry[k].age \in 0 .. TTL /\ off[k] \in 0 .. OffCap
        BY <1>1, <2>1 DEF Hit, Live, Entry, TypeOK
      <3>3. entry[k].row \in EnabledRows => off[k] <= entry[k].age + MaxDelay
        BY <3>2 DEF EnabledLately
      <3> QED BY <2>1, <3>1, <3>2, <3>3 DEF OffCap
    <2>5. answer'.key = k /\ off' = off
      BY <1>1 DEF Hit, Answered
    <2> QED BY <2>2, <2>3, <2>4, <2>5 DEF GrantsExpire
  <1>2. ASSUME NEW k \in Keys, Miss(r, k) PROVE IInv'
    <2>1. TypeOK'
      BY <1>2 DEF Miss, TypeOK, AtRequest
    <2>2. EnabledLately'
      BY <1>2 DEF Miss, EnabledLately, Query, TypeOK
    <2> QED BY <1>2, <2>1, <2>2 DEF Miss, GrantsExpire
  <1>3. CASE ReadRow(r)
    <2> DEFINE k == pc[r].key
    <2>1. k \in Keys
      BY <1>3, RequestShapes DEF ReadRow
    <2>2. CASE row[k] = None
      <3>1. pc' = [pc EXCEPT ![r] = Idle] /\ Answered(k, None)
        BY <1>3, <2>2 DEF ReadRow
      <3>2. TypeOK'
        BY <1>3, <2>1, <3>1 DEF ReadRow, TypeOK, AtRequest, Answered, Answer
      <3>3. EnabledLately'
        BY <1>3, <3>1 DEF ReadRow, EnabledLately, Idle, TypeOK
      <3>4. GrantsExpire'
        BY <3>1 DEF GrantsExpire, Answered
      <3> QED BY <3>2, <3>3, <3>4
    <2>3. CASE row[k] # None
      <3>1. pc' = [pc EXCEPT ![r] = Found(k, row[k], 0)] /\ answer' = None
        BY <1>3, <2>3 DEF ReadRow
      <3>2. row[k] \in Rows
        BY <2>1, <2>3 DEF TypeOK
      <3>3. TypeOK'
        BY <1>3, <2>1, <3>1, <3>2 DEF ReadRow, TypeOK, AtRequest
      <3>4. EnabledLately'
        BY <1>3, <2>1, <3>1 DEF ReadRow, EnabledLately, Found, TypeOK
      <3> QED BY <3>1, <3>3, <3>4 DEF GrantsExpire
    <2> QED BY <2>2, <2>3
  <1>4. CASE Store(r)
    <2> DEFINE k == pc[r].key
               x == pc[r].row
    <2>1. k \in Keys /\ x \in Rows /\ pc[r].age \in 0 .. MaxDelay
      BY <1>4, RequestShapes DEF Store
    <2>2. entry' = [j \in Keys |-> IF j = k THEN [row |-> x, age |-> 0]
                                   ELSE IF j \in Kept THEN entry[j] ELSE None]
      BY <1>4 DEF Store
    <2>3. Answered(k, x) /\ pc' = [pc EXCEPT ![r] = Idle]
      BY <1>4 DEF Store
    <2>4. TypeOK'
      <3>1. entry' \in [Keys -> Entry \cup {None}]
        BY <2>1, <2>2 DEF TypeOK, Entry
      <3>2. answer' \in Answer
        BY <2>1, <2>3 DEF Answered, Answer
      <3>3. missed' \subseteq Keys
        BY <1>4, <2>1 DEF Store, TypeOK
      <3> QED BY <1>4, <2>3, <3>1, <3>2, <3>3 DEF Store, TypeOK, AtRequest
    <2>5. x \in EnabledRows => off[k] <= pc[r].age
      BY <1>4 DEF Store, EnabledLately
    <2>6. EnabledLately'
      <3>1. ASSUME NEW q \in Requests, pc'[q].at = "found", pc'[q].row \in EnabledRows
            PROVE  off[pc'[q].key] <= pc'[q].age
        BY <2>3, <3>1 DEF EnabledLately, TypeOK, Idle
      <3>2. ASSUME NEW j \in Keys, entry'[j] # None, entry'[j].row \in EnabledRows
            PROVE  off[j] <= entry'[j].age + MaxDelay
        <4>1. CASE j = k
          BY <2>1, <2>2, <2>5, <3>2, <4>1 DEF TypeOK
        <4>2. CASE j # k
          BY <2>2, <3>2, <4>2 DEF EnabledLately
        <4> QED BY <4>1, <4>2
      <3> QED BY <1>4, <3>1, <3>2 DEF Store, EnabledLately
    <2>7. answer'.granted => off[k] < TTL + MaxDelay
      <3>1. answer'.granted => x \in EnabledRows
        BY <2>3, Zenon DEF Answered
      <3>2. off[k] \in 0 .. OffCap
        BY <2>1 DEF TypeOK
      <3> QED BY <2>1, <2>5, <3>1, <3>2 DEF OffCap
    <2>8. answer'.key = k /\ off' = off
      BY <1>4, <2>3 DEF Store, Answered
    <2> QED BY <2>4, <2>6, <2>7, <2>8 DEF GrantsExpire
  <1>5. CASE GiveUp(r)
    <2>1. TypeOK'
      BY <1>5 DEF GiveUp, TypeOK, AtRequest
    <2>2. EnabledLately'
      BY <1>5 DEF GiveUp, EnabledLately, Idle, TypeOK
    <2> QED BY <1>5, <2>1, <2>2 DEF GiveUp, GrantsExpire
  <1> QED BY <1>1, <1>2, <1>3, <1>4, <1>5 DEF Ask

(* A row that is written restarts the clock of a key it enables.             *)
LEMMA WrittenKeeps ==
    ASSUME IInv, NEW k \in Keys, NEW x \in Rows \cup {None}, Written(k, x),
           UNCHANGED <<entry, pc>>,
           used' \subseteq Keys, missed' \subseteq Keys,
           admin' \in [Admins -> AtAdmin]
    PROVE  IInv'
  <1> USE DEF IInv
  <1>1. TypeOK'
    BY DEF Written, TypeOK, OffCap
  <1>2. \A j \in Keys : off'[j] = off[j] \/ off'[j] = 0
    BY DEF Written, TypeOK
  <1>3. EnabledLately'
    <2>1. \A j \in Keys : row'[j] \in EnabledRows => off'[j] = 0
      BY DEF Written, EnabledLately, TypeOK
    <2>2. ASSUME NEW q \in Requests, pc[q].at = "found", pc[q].row \in EnabledRows
          PROVE  off'[pc[q].key] <= pc[q].age
      <3>1. pc[q].key \in Keys /\ pc[q].age \in 0 .. MaxDelay
        BY <2>2, RequestShapes
      <3> QED BY <1>2, <2>2, <3>1 DEF EnabledLately
    <2>3. ASSUME NEW j \in Keys, entry[j] # None, entry[j].row \in EnabledRows
          PROVE  off'[j] <= entry[j].age + MaxDelay
      <3>1. entry[j].age \in 0 .. TTL
        BY <2>3 DEF TypeOK, Entry
      <3> QED BY <1>2, <2>3, <3>1 DEF EnabledLately
    <2> QED BY <2>1, <2>2, <2>3 DEF EnabledLately
  <1> QED BY <1>1, <1>3 DEF Written, GrantsExpire

(* So do the steps of an administrator.                                      *)
LEMMA ManageKeeps ==
    ASSUME IInv, NEW a \in Admins, Manage(a)
    PROVE  IInv'
  <1> USE DEF IInv
  <1>1. ASSUME NEW k \in Keys, Delete(a, k) PROVE IInv'
    <2>1. admin' \in [Admins -> AtAdmin]
      BY <1>1 DEF Delete, TypeOK, AtAdmin
    <2> QED BY <1>1, <2>1, WrittenKeeps DEF Delete, TypeOK
  <1>2. ASSUME NEW k \in Keys, NEW x \in Rows, Update(a, k, x) PROVE IInv'
    <2>1. admin' \in [Admins -> AtAdmin]
      BY <1>2 DEF Update, TypeOK, AtAdmin
    <2> QED BY <1>2, <2>1, WrittenKeeps DEF Update, TypeOK
  <1>3. CASE Reread(a)
    <2>1. admin[a].key \in Keys
      BY <1>3, AdminShapes DEF Reread, Idle
    <2>2. TypeOK'
      BY <1>3, <2>1 DEF Reread, TypeOK, AtAdmin
    <2> QED BY <1>3, <2>2 DEF Reread, EnabledLately, GrantsExpire
  <1>4. CASE Invalidate(a)
    <2>1. admin[a].key \in Keys
      BY <1>4, AdminShapes DEF Invalidate, Idle
    <2>2. TypeOK'
      BY <1>4, <2>1 DEF Invalidate, TypeOK, AtAdmin
    <2>3. EnabledLately'
      BY <1>4, <2>1 DEF Invalidate, EnabledLately, TypeOK
    <2> QED BY <1>4, <2>2, <2>3 DEF Invalidate, GrantsExpire
  <1>5. CASE Abandon(a)
    <2>1. admin[a].key \in Keys
      BY <1>5, AdminShapes DEF Abandon
    <2>2. TypeOK'
      BY <1>5, <2>1 DEF Abandon, TypeOK, AtAdmin
    <2> QED BY <1>5, <2>2 DEF Abandon, EnabledLately, GrantsExpire
  <1> QED BY <1>1, <1>2, <1>3, <1>4, <1>5 DEF Manage

(* A tick makes everything older at once.                                    *)
LEMMA TickKeeps ==
    ASSUME IInv, Tick
    PROVE  IInv'
  <1> USE DEF IInv
  <1>1. \A k \in Keys : /\ off'[k] \in 0 .. OffCap
                        /\ off'[k] <= off[k] + 1
                        /\ row[k] \in EnabledRows => off'[k] = 0
    BY DEF Tick, TypeOK, OffCap
  <1>2. \A k \in Keys : entry[k] # None =>
            /\ entry'[k] \in Entry
            /\ entry'[k].row = entry[k].row
            /\ entry'[k].age = IF entry[k].age < TTL THEN entry[k].age + 1 ELSE entry[k].age
    BY DEF Tick, Older, TypeOK, Entry
  <1>3. \A k \in Keys : entry[k] = None => entry'[k] = None
    BY DEF Tick, Older
  <1>4. ASSUME NEW r \in Requests, pc[r].at = "found"
        PROVE  pc'[r] = Found(pc[r].key, pc[r].row, pc[r].age + 1)
               /\ pc[r].age + 1 \in 0 .. MaxDelay
    <2>1. pc[r].age \in 0 .. MaxDelay /\ pc[r].age < MaxDelay
      BY <1>4, RequestShapes DEF Tick
    <2>2. pc[r] = Found(pc[r].key, pc[r].row, pc[r].age)
      BY <1>4, RequestShapes
    <2>3. pc'[r] = [pc[r] EXCEPT !.age = @ + 1]
      BY <1>4 DEF Tick
    <2> QED BY <2>1, <2>2, <2>3 DEF Found
  <1>5. \A r \in Requests : pc[r].at # "found" => pc'[r] = pc[r]
    BY DEF Tick
  <1>6. TypeOK'
    <2>1. pc' \in [Requests -> AtRequest]
      <3>1. ASSUME NEW r \in Requests PROVE pc'[r] \in AtRequest
        <4>1. CASE pc[r].at = "found"
          BY <1>4, <4>1, RequestShapes DEF AtRequest
        <4>2. CASE pc[r].at # "found"
          BY <1>5, <4>2 DEF TypeOK
        <4> QED BY <4>1, <4>2
      <3> QED BY <3>1 DEF Tick
    <2>2. entry' \in [Keys -> Entry \cup {None}]
      BY <1>2, <1>3 DEF Tick
    <2>3. off' \in [Keys -> 0 .. OffCap]
      BY <1>1 DEF Tick
    <2> QED BY <2>1, <2>2, <2>3 DEF Tick, TypeOK
  <1>7. EnabledLately'
    <2>1. ASSUME NEW r \in Requests, pc'[r].at = "found", pc'[r].row \in EnabledRows
          PROVE  off'[pc'[r].key] <= pc'[r].age
      <3>1. pc[r].at = "found"
        BY <1>5, <2>1
      <3>2. pc'[r] = Found(pc[r].key, pc[r].row, pc[r].age + 1)
        BY <1>4, <3>1
      <3>3. pc'[r].key = pc[r].key /\ pc'[r].row = pc[r].row /\ pc'[r].age = pc[r].age + 1
        BY <3>2 DEF Found
      <3>4. pc[r].key \in Keys /\ pc[r].age \in 0 .. MaxDelay
        BY <3>1, RequestShapes
      <3>5. off[pc[r].key] \in Nat /\ off'[pc[r].key] \in Nat
        BY <1>1, <3>4 DEF TypeOK, OffCap
      <3> QED BY <1>1, <2>1, <3>1, <3>3, <3>4, <3>5 DEF EnabledLately
    <2>2. ASSUME NEW k \in Keys, entry'[k] # None, entry'[k].row \in EnabledRows
          PROVE  off'[k] <= entry'[k].age + MaxDelay
      <3>1. entry[k] # None /\ entry[k].row \in EnabledRows
        BY <1>2, <1>3, <2>2
      <3>2. off[k] <= entry[k].age + MaxDelay
        BY <3>1 DEF EnabledLately
      <3>3. entry[k].age \in 0 .. TTL /\ off[k] \in 0 .. OffCap
        BY <3>1 DEF TypeOK, Entry
      <3> QED BY <1>1, <1>2, <3>1, <3>2, <3>3 DEF OffCap
    <2>3. \A k \in Keys : row'[k] \in EnabledRows => off'[k] = 0
      BY <1>1 DEF Tick
    <2> QED BY <2>1, <2>2, <2>3 DEF EnabledLately
  <1> QED BY <1>6, <1>7 DEF Tick, GrantsExpire

(* The invariant holds in every reachable state.                            *)
LEMMA IInvHolds == Spec => []IInv
  <1>1. IInv /\ [Next]_vars => IInv'
    <2> SUFFICES ASSUME IInv, [Next]_vars PROVE IInv'
      OBVIOUS
    <2>1. ASSUME NEW r \in Requests, Ask(r) PROVE IInv'
      BY <2>1, AskKeeps
    <2>2. ASSUME NEW a \in Admins, Manage(a) PROVE IInv'
      BY <2>2, ManageKeeps
    <2>3. ASSUME NEW k \in Keys, NEW x \in Rows, Create(k, x) PROVE IInv'
      <3>1. UNCHANGED <<entry, pc>> /\ used' \subseteq Keys /\ missed' \subseteq Keys
            /\ admin' \in [Admins -> AtAdmin] /\ Written(k, x)
        BY <2>3 DEF Create, IInv, TypeOK
      <3> QED BY <3>1, WrittenKeeps
    <2>4. ASSUME NEW k \in Keys, NEW x \in Rows, Import(k, x) PROVE IInv'
      <3>1. UNCHANGED <<entry, pc>> /\ used' \subseteq Keys /\ missed' \subseteq Keys
            /\ admin' \in [Admins -> AtAdmin] /\ Written(k, x)
        BY <2>4 DEF Import, IInv, TypeOK
      <3> QED BY <3>1, WrittenKeeps
    <2>5. CASE Reset
      BY <2>5 DEF Reset, IInv, TypeOK, EnabledLately, GrantsExpire
    <2>6. CASE Tick
      BY <2>6, TickKeeps
    <2>7. CASE UNCHANGED vars
      BY <2>7 DEF vars, IInv, TypeOK, EnabledLately, GrantsExpire
    <2> QED BY <2>1, <2>2, <2>3, <2>4, <2>5, <2>6, <2>7 DEF Next
  <1> QED BY InitHolds, <1>1, PTL DEF Spec

(* A disabled key is refused at the latest a lifetime and a delay after it   *)
(* was disabled, however requests, administrators, resets, imports and       *)
(* failures are interleaved (the cache of middleware/mod.rs).                *)
THEOREM GrantsExpireHolds == Spec => []GrantsExpire
  <1>1. IInv => GrantsExpire
    BY DEF IInv
  <1> QED BY IInvHolds, <1>1, PTL

-----------------------------------------------------------------------------
\* Only values that were given to a key are in the table or the cache.
KnownKeys ==
    /\ \A k \in Keys : row[k] # None \/ entry[k] # None => k \in used
    /\ \A r \in Requests : pc[r].at = "found" => pc[r].key \in used

LEMMA KnownKept == TypeOK /\ KnownKeys /\ [Next]_vars => KnownKeys'
  <1> SUFFICES ASSUME TypeOK, KnownKeys, [Next]_vars PROVE KnownKeys'
    OBVIOUS
  <1> USE DEF KnownKeys
  <1>1. ASSUME NEW r \in Requests, Ask(r) PROVE KnownKeys'
    <2>1. ASSUME NEW k \in Keys, Hit(r, k) \/ Miss(r, k) PROVE KnownKeys'
      BY <2>1 DEF Hit, Miss, Query, TypeOK
    <2>2. CASE ReadRow(r)
      BY <2>2, RequestShapes DEF ReadRow, Idle, Found, TypeOK
    <2>3. CASE Store(r)
      BY <2>3, RequestShapes DEF Store, Idle, TypeOK
    <2>4. CASE GiveUp(r)
      BY <2>4 DEF GiveUp, Idle, TypeOK
    <2> QED BY <1>1, <2>1, <2>2, <2>3, <2>4 DEF Ask
  <1>2. ASSUME NEW a \in Admins, Manage(a) PROVE KnownKeys'
    <2>1. ASSUME NEW k \in Keys, NEW x \in Rows, Delete(a, k) \/ Update(a, k, x)
          PROVE  KnownKeys'
      BY <2>1 DEF Delete, Update, Written, TypeOK
    <2>2. CASE Invalidate(a)
      BY <2>2 DEF Invalidate, TypeOK
    <2>3. CASE Reread(a) \/ Abandon(a)
      BY <2>3 DEF Reread, Abandon
    <2>4. ASSUME NEW k \in Keys, Delete(a, k) PROVE KnownKeys'
      BY <2>4 DEF Delete, Written, TypeOK
    <2> QED BY <1>2, <2>1, <2>2, <2>3, <2>4 DEF Manage
  <1>3. ASSUME NEW k \in Keys, NEW x \in Rows, Create(k, x) \/ Import(k, x) PROVE KnownKeys'
    BY <1>3 DEF Create, Import, Written, TypeOK
  <1>4. CASE Reset
    BY <1>4 DEF Reset
  <1>5. CASE Tick
    <2>1. \A r \in Requests : pc'[r].at = "found" => pc[r].at = "found" /\ pc'[r].key = pc[r].key
      BY <1>5, RequestShapes DEF Tick, Found
    <2> QED BY <1>5, <2>1 DEF Tick, Older
  <1>6. CASE UNCHANGED vars
    BY <1>6 DEF vars
  <1> QED BY <1>1, <1>2, <1>3, <1>4, <1>5, <1>6 DEF Next

(* Every step leaves stale entries with a cause.                             *)
LEMMA CausesKept ==
    IInv /\ KnownKeys /\ StaleGrantsExplained /\ [Next]_vars => StaleGrantsExplained'
  <1> SUFFICES ASSUME IInv, KnownKeys, StaleGrantsExplained, [Next]_vars
               PROVE  StaleGrantsExplained'
    OBVIOUS
  <1> USE DEF IInv, StaleGrantsExplained
  <1>1. ASSUME NEW r \in Requests, NEW k \in Keys, Hit(r, k) \/ Miss(r, k)
        PROVE  StaleGrantsExplained'
    BY <1>1 DEF Hit, Miss, Live
  <1>2. ASSUME NEW r \in Requests, ReadRow(r) \/ GiveUp(r) PROVE StaleGrantsExplained'
    BY <1>2 DEF ReadRow, GiveUp, Live
  <1>3. ASSUME NEW r \in Requests, Store(r) PROVE StaleGrantsExplained'
    <2> DEFINE k == pc[r].key
    <2>1. /\ entry' = [j \in Keys |-> IF j = k THEN [row |-> pc[r].row, age |-> 0]
                                     ELSE IF j \in Kept THEN entry[j] ELSE None]
          /\ missed' = IF pc[r].row = row[k] THEN missed \ {k} ELSE missed \cup {k}
          /\ UNCHANGED <<row, admin>>
      BY <1>3 DEF Store
    <2>2. SUFFICES ASSUME NEW j \in Keys, Live(entry'[j]), entry'[j].row # row[j]
                   PROVE  j \in missed' \/ \E a \in Admins : admin[a] # Idle /\ admin[a].key = j
      BY <2>1 DEF Live
    <2>3. CASE j = k
      BY <2>1, <2>2, <2>3
    <2>4. CASE j # k
      BY <2>1, <2>2, <2>4 DEF Live
    <2> QED BY <2>3, <2>4
  <1>4. ASSUME NEW a \in Admins, NEW k \in Keys, NEW x \in Rows \cup {None},
               admin[a] = Idle, Written(k, x), UNCHANGED <<entry, missed>>,
               admin' = [admin EXCEPT ![a] = Change("reread", k)]
               \/ admin' = [admin EXCEPT ![a] = Change("invalidate", k)]
        PROVE  StaleGrantsExplained'
    <2>1. admin'[a].key = k /\ admin'[a] # Idle
      BY <1>4 DEF Change, Idle, TypeOK
    <2>2. \A b \in Admins : admin[b] # Idle => admin'[b] = admin[b]
      BY <1>4 DEF TypeOK
    <2>3. \A j \in Keys : j # k => row'[j] = row[j]
      BY <1>4 DEF Written, TypeOK
    <2> QED BY <1>4, <2>1, <2>2, <2>3 DEF Live
  <1>5. ASSUME NEW a \in Admins, NEW k \in Keys, Delete(a, k) PROVE StaleGrantsExplained'
    BY <1>4, <1>5 DEF Delete
  <1>6. ASSUME NEW a \in Admins, NEW k \in Keys, NEW x \in Rows, Update(a, k, x)
        PROVE  StaleGrantsExplained'
    BY <1>4, <1>6 DEF Update
  <1>7. ASSUME NEW a \in Admins, Reread(a) PROVE StaleGrantsExplained'
    <2>1. admin[a].key \in Keys /\ admin[a] # Idle
      BY <1>7, AdminShapes DEF Reread, Idle
    <2>2. \A b \in Admins : b # a => admin'[b] = admin[b]
      BY <1>7 DEF Reread
    <2>3. row[admin[a].key] = None => admin[a].key \in missed'
      BY <1>7 DEF Reread
    <2>4. row[admin[a].key] # None => admin'[a].key = admin[a].key /\ admin'[a] # Idle
      BY <1>7 DEF Reread, Change, Idle, TypeOK
    <2>5. missed \subseteq missed' /\ UNCHANGED <<row, entry>>
      BY <1>7 DEF Reread
    <2> QED BY <2>1, <2>2, <2>3, <2>4, <2>5 DEF Live
  <1>8. ASSUME NEW a \in Admins, Invalidate(a) PROVE StaleGrantsExplained'
    <2> DEFINE k == admin[a].key
    <2>1. entry' = [entry EXCEPT ![k] = None] /\ missed' = missed \ {k} /\ row' = row
          /\ \A b \in Admins : b # a => admin'[b] = admin[b]
      BY <1>8 DEF Invalidate
    <2>2. \A j \in Keys : j # k => entry'[j] = entry[j]
      BY <2>1 DEF TypeOK
    <2>3. k \in Keys => entry'[k] = None
      BY <2>1 DEF TypeOK
    <2> QED BY <2>1, <2>2, <2>3 DEF Live
  <1>9. ASSUME NEW a \in Admins, Abandon(a) PROVE StaleGrantsExplained'
    <2>1. missed' = missed \cup {admin[a].key} /\ UNCHANGED <<row, entry>>
          /\ \A b \in Admins : b # a => admin'[b] = admin[b]
      BY <1>9 DEF Abandon
    <2> QED BY <2>1 DEF Live
  <1>10. ASSUME NEW k \in Keys, NEW x \in Rows, Create(k, x) PROVE StaleGrantsExplained'
    BY <1>10 DEF Create, Written, Live, TypeOK, KnownKeys
  <1>11. ASSUME NEW k \in Keys, NEW x \in Rows, Import(k, x) PROVE StaleGrantsExplained'
    BY <1>11 DEF Import, Written, Live, TypeOK
  <1>12. CASE Reset
    BY <1>12 DEF Reset, Live, TypeOK
  <1>13. CASE Tick
    <2>1. UNCHANGED <<row, admin, missed>>
      BY <1>13 DEF Tick
    <2>2. ASSUME NEW k \in Keys, Live(entry'[k])
          PROVE  Live(entry[k]) /\ entry'[k].row = entry[k].row
      BY <1>13, <2>2 DEF Tick, Older, Live, TypeOK, Entry
    <2> QED BY <2>1, <2>2 DEF Live
  <1>14. CASE UNCHANGED vars
    BY <1>14 DEF vars, Live
  <1> QED BY <1>1, <1>2, <1>3, <1>5, <1>6, <1>7, <1>8, <1>9, <1>10, <1>11, <1>12, <1>13, <1>14
      DEF Next, Ask, Manage

(* A cached row in use that differs from the table has a cause: a change on  *)
(* its way to the cache, a change nobody announces, or a late store          *)
(* (the update and delete of api_keys.rs against the cache of mod.rs).       *)
THEOREM StaleGrantsExplainedHolds == Spec => []StaleGrantsExplained
  <1>1. Init => KnownKeys /\ StaleGrantsExplained
    BY DEF Init, KnownKeys, StaleGrantsExplained, Live, Idle
  <1>2. IInv => TypeOK
    BY DEF IInv
  <1> QED BY IInvHolds, KnownKept, CausesKept, <1>1, <1>2, PTL DEF Spec

(* A full cache never gives up an entry in use to make room                  *)
(* (ApiKeyCache::set, mod.rs:90-93).                                         *)
THEOREM UsedEntriesStayHolds == Spec => UsedEntriesStay
  <1> DEFINE Stays == \A k \in Keys : Live(entry[k]) /\ entry'[k] = None
                        => \E a \in Admins : admin[a].at = "invalidate" /\ admin[a].key = k
  <1>1. IInv /\ [Next]_vars => [Stays]_vars
    <2> SUFFICES ASSUME TypeOK, Next, NEW k \in Keys, Live(entry[k]), entry'[k] = None
                 PROVE  \E a \in Admins : admin[a].at = "invalidate" /\ admin[a].key = k
      BY DEF IInv
    <2>1. entry[k] # None /\ entry[k] \in Entry
      BY DEF Live, TypeOK
    <2>2. ASSUME NEW r \in Requests, Store(r) PROVE FALSE
      <3>1. k \in Kept
        BY DEF Kept
      <3>2. [row |-> pc[r].row, age |-> 0] # None
        <4>1. [row |-> pc[r].row, age |-> 0] \in [row : Rows, age : Nat]
          BY <2>2, RequestShapes DEF Store
        <4> QED BY <4>1
      <3> QED BY <2>1, <2>2, <3>1, <3>2 DEF Store
    <2>3. ASSUME NEW a \in Admins, Invalidate(a) PROVE admin[a].at = "invalidate" /\ admin[a].key = k
      BY <2>1, <2>3 DEF Invalidate, TypeOK
    <2>4. CASE Tick
      <3>1. entry'[k] \in [row : Rows, age : Nat]
        BY <2>1, <2>4 DEF Tick, Older, Entry
      <3> QED BY <3>1
    <2>5. CASE entry' = entry
      BY <2>1, <2>5
    <2> QED BY <2>2, <2>3, <2>4, <2>5 DEF Next, Ask, Manage, Hit, Miss, ReadRow, GiveUp, Delete,
               Update, Reread, Abandon, Create, Import, Reset, Written
  <1> QED BY IInvHolds, <1>1, PTL DEF Spec, UsedEntriesStay
=============================================================================
