-------------------------------- MODULE KeyCache --------------------------------
(* The clients' API keys: the table, the cache in front of it                *)
(* (src/api/middleware/mod.rs), the requests that ask for a grant and the    *)
(* administrators that change keys (src/api/handlers/admin/api_keys.rs).     *)
(* Time passes in ticks; a request's future may rest for at most MaxDelay    *)
(* of them between the answer of its query and the store into the cache.     *)
EXTENDS Integers, FiniteSets

CONSTANTS
    Keys,        \* the values clients present
    Rows,        \* what a row of the table can say
    EnabledRows, \* the rows of keys that are enabled
    Requests,    \* requests that may be under way at once
    Admins,      \* changes that may be under way at once
    TTL,         \* CACHE_TTL_SECS
    MaxCached,   \* entries at which set() looks for expired ones
    MaxDelay,    \* ticks between a query's answer and its store
    None

ASSUME KeyCacheAssumption ==
    /\ TTL \in Nat \ {0} /\ MaxDelay \in Nat /\ MaxCached \in Nat
    /\ EnabledRows \subseteq Rows
    /\ None \notin Rows /\ None \notin [row : Rows, age : Nat]

VARIABLES
    row,    \* row[k]: what the table says of k, or None
    used,   \* the values that were ever given to a key
    entry,  \* entry[k]: the cached row and its age, or None
    pc,     \* pc[r]: where request r is
    admin,  \* admin[a]: what is left of a change
    answer, \* the answer given in the last step, or None
    off,    \* off[k]: ticks since k was last enabled, up to OffCap
    missed  \* keys whose last change nobody will make known to the cache

vars == <<row, used, entry, pc, admin, answer, off, missed>>

OffCap   == TTL + MaxDelay
Entry    == [row : Rows, age : 0 .. TTL]
Idle     == [at |-> "idle"]
Query(k) == [at |-> "query", key |-> k]
Found(k, x, n) == [at |-> "found", key |-> k, row |-> x, age |-> n]
AtRequest == {Idle} \cup {Query(k) : k \in Keys}
                    \cup {Found(k, x, n) : k \in Keys, x \in Rows, n \in 0 .. MaxDelay}
Change(step, k) == [at |-> step, key |-> k]
AtAdmin   == {Idle} \cup {Change(s, k) : s \in {"reread", "invalidate"}, k \in Keys}
Answer    == [key : Keys, granted : BOOLEAN, row : Rows \cup {None}]

TypeOK ==
    /\ row \in [Keys -> Rows \cup {None}]
    /\ used \subseteq Keys
    /\ entry \in [Keys -> Entry \cup {None}]
    /\ pc \in [Requests -> AtRequest]
    /\ admin \in [Admins -> AtAdmin]
    /\ answer \in Answer \cup {None}
    /\ off \in [Keys -> 0 .. OffCap]
    /\ missed \subseteq Keys

Init ==
    /\ row = [k \in Keys |-> None]
    /\ used = {}
    /\ entry = [k \in Keys |-> None]
    /\ pc = [r \in Requests |-> Idle]
    /\ admin = [a \in Admins |-> Idle]
    /\ answer = None
    /\ off = [k \in Keys |-> OffCap]
    /\ missed = {}

-----------------------------------------------------------------------------
(* A request.                                                               *)

\* Mutant: an entry is good for as long as it is there.
MutLive(e) == e # None

\* ApiKeyCache::get finds the entry.
Live(e) == e # None /\ e.age < TTL

Answered(k, x) == answer' = [key |-> k, granted |-> x \in EnabledRows, row |-> x]

\* The cache has an answer: a grant, or 403 for a key it knows as disabled.
Hit(r, k) ==
    /\ pc[r] = Idle
    /\ Live(entry[k])
    /\ Answered(k, entry[k].row)
    /\ UNCHANGED <<row, used, entry, pc, admin, off, missed>>

Miss(r, k) ==
    /\ pc[r] = Idle
    /\ ~Live(entry[k])
    /\ pc' = [pc EXCEPT ![r] = Query(k)]
    /\ answer' = None
    /\ UNCHANGED <<row, used, entry, admin, off, missed>>

\* find_for_auth. A key without a row is refused with 401 and not cached.
ReadRow(r) ==
    /\ pc[r].at = "query"
    /\ LET k == pc[r].key IN
       IF row[k] = None
       THEN /\ pc' = [pc EXCEPT ![r] = Idle]
            /\ Answered(k, None)
       ELSE /\ pc' = [pc EXCEPT ![r] = Found(k, row[k], 0)]
            /\ answer' = None
    /\ UNCHANGED <<row, used, entry, admin, off, missed>>

Full == Cardinality({k \in Keys : entry[k] # None}) >= MaxCached

\* Mutant: the full cache is emptied.
MutKept == IF Full THEN {} ELSE Keys

\* The entries a full cache keeps when it is given another one.
Kept == IF Full THEN {k \in Keys : Live(entry[k])} ELSE Keys

\* ApiKeyCache::set, then the answer.
Store(r) ==
    /\ pc[r].at = "found"
    /\ LET k == pc[r].key IN
       /\ entry' = [j \in Keys |-> IF j = k THEN [row |-> pc[r].row, age |-> 0]
                                   ELSE IF j \in Kept THEN entry[j] ELSE None]
       /\ missed' = IF pc[r].row = row[k] THEN missed \ {k} ELSE missed \cup {k}
       /\ Answered(k, pc[r].row)
    /\ pc' = [pc EXCEPT ![r] = Idle]
    /\ UNCHANGED <<row, used, admin, off>>

\* The query fails (500), or the client leaves and its future is dropped.
GiveUp(r) ==
    /\ pc[r] # Idle
    /\ pc' = [pc EXCEPT ![r] = Idle]
    /\ answer' = None
    /\ UNCHANGED <<row, used, entry, admin, off, missed>>

-----------------------------------------------------------------------------
(* The administrators. Only an update and a delete tell the cache.          *)

Written(k, x) ==
    /\ row' = [row EXCEPT ![k] = x]
    /\ off' = IF x \in EnabledRows THEN [off EXCEPT ![k] = 0] ELSE off
    /\ answer' = None

\* A new key is enabled and has a value nobody had.
Create(k, x) ==
    /\ k \notin used
    /\ x \in EnabledRows
    /\ Written(k, x)
    /\ used' = used \cup {k}
    /\ UNCHANGED <<entry, pc, admin, missed>>

\* The import of a backup brings back the value of a key that is not there.
Import(k, x) ==
    /\ k \in used /\ row[k] = None
    /\ Written(k, x)
    /\ missed' = missed \cup {k}
    /\ UNCHANGED <<used, entry, pc, admin>>

Update(a, k, x) ==
    /\ admin[a] = Idle
    /\ row[k] # None
    /\ Written(k, x)
    /\ admin' = [admin EXCEPT ![a] = Change("reread", k)]
    /\ UNCHANGED <<used, entry, pc, missed>>

\* update() returns the row it reads back. A key deleted meanwhile is a 404
\* without an invalidation.
Reread(a) ==
    /\ admin[a].at = "reread"
    /\ admin' = [admin EXCEPT ![a] =
                    IF row[@.key] = None THEN Idle ELSE Change("invalidate", @.key)]
    /\ missed' = IF row[admin[a].key] = None THEN missed \cup {admin[a].key} ELSE missed
    /\ answer' = None
    /\ UNCHANGED <<row, used, entry, pc, off>>

\* Mutant: a delete leaves the cache to itself.
MutDelete(a, k) ==
    /\ admin[a] = Idle
    /\ row[k] # None
    /\ Written(k, None)
    /\ UNCHANGED <<used, entry, pc, admin, missed>>

Delete(a, k) ==
    /\ admin[a] = Idle
    /\ row[k] # None
    /\ Written(k, None)
    /\ admin' = [admin EXCEPT ![a] = Change("invalidate", k)]
    /\ UNCHANGED <<used, entry, pc, missed>>

Invalidate(a) ==
    /\ admin[a].at = "invalidate"
    /\ entry' = [entry EXCEPT ![admin[a].key] = None]
    /\ missed' = missed \ {admin[a].key}
    /\ admin' = [admin EXCEPT ![a] = Idle]
    /\ answer' = None
    /\ UNCHANGED <<row, used, pc, off>>

\* The query that reads the row back fails, or the client leaves.
Abandon(a) ==
    /\ admin[a] # Idle
    /\ missed' = missed \cup {admin[a].key}
    /\ admin' = [admin EXCEPT ![a] = Idle]
    /\ answer' = None
    /\ UNCHANGED <<row, used, entry, pc, off>>

\* The reset of a backup deletes every key and tells nobody.
Reset ==
    /\ row' = [k \in Keys |-> None]
    /\ missed' = missed \cup {k \in Keys : row[k] # None}
    /\ answer' = None
    /\ UNCHANGED <<used, entry, pc, admin, off>>

-----------------------------------------------------------------------------
Older(e) == IF e = None THEN None
            ELSE [e EXCEPT !.age = IF @ < TTL THEN @ + 1 ELSE @]

Tick ==
    /\ \A r \in Requests : pc[r].at = "found" => pc[r].age < MaxDelay
    /\ entry' = [k \in Keys |-> Older(entry[k])]
    /\ pc' = [r \in Requests |-> IF pc[r].at = "found"
                                 THEN [pc[r] EXCEPT !.age = @ + 1] ELSE pc[r]]
    /\ off' = [k \in Keys |-> IF row[k] \in EnabledRows THEN 0
                              ELSE IF off[k] < OffCap THEN off[k] + 1 ELSE off[k]]
    /\ answer' = None
    /\ UNCHANGED <<row, used, admin, missed>>

Ask(r)    == (\E k \in Keys : Hit(r, k) \/ Miss(r, k)) \/ ReadRow(r) \/ Store(r) \/ GiveUp(r)
Manage(a) ==
    \/ \E k \in Keys : Delete(a, k) \/ \E x \in Rows : Update(a, k, x)
    \/ Reread(a) \/ Invalidate(a) \/ Abandon(a)

Next ==
    \/ \E r \in Requests : Ask(r)
    \/ \E a \in Admins : Manage(a)
    \/ \E k \in Keys, x \in Rows : Create(k, x) \/ Import(k, x)
    \/ Reset
    \/ Tick

Spec == Init /\ [][Next]_vars

-----------------------------------------------------------------------------
(* Whatever is interleaved with a change, and whether or not the change ever *)
(* reaches the cache: a key that was disabled or deleted TTL + MaxDelay      *)
(* ticks ago, or that never was enabled, is not granted any more. The        *)
(* entry's lifetime (middleware/mod.rs:63-75) is what bounds the damage of a *)
(* row read before the change and cached after it (mod.rs:330).              *)
GrantsExpire == answer # None /\ answer.granted => off[answer.key] < TTL + MaxDelay

(* An entry in use that differs from the table has one of three causes: the  *)
(* change that made it stale has its invalidation still before it, nobody    *)
(* will ever announce that change (a reset, an import, a failed re-read, a   *)
(* client that left), or a row read before the change was stored after it.   *)
StaleGrantsExplained ==
    \A k \in Keys : Live(entry[k]) /\ entry[k].row # row[k] =>
        \/ k \in missed
        \/ \E a \in Admins : admin[a] # Idle /\ admin[a].key = k

(* A full cache makes room with expired entries only: an entry in use goes   *)
(* when its key is stored again or invalidated, and never because another    *)
(* key came (ApiKeyCache::set, mod.rs:90-93).                                *)
UsedEntriesStay ==
    [][\A k \in Keys : Live(entry[k]) /\ entry'[k] = None
          => \E a \in Admins : admin[a].at = "invalidate" /\ admin[a].key = k]_vars
=============================================================================
