---------------------------- MODULE CircuitBreaker ----------------------------
(***************************************************************************)
(* The circuit breaker map of src/src/llm/scheduler/circuit.rs under       *)
(* concurrent requests.  A request asks is_tripped for a key, is in flight *)
(* on that key, and then records a success, a failure, or nothing.  The    *)
(* map sits behind an async RwLock: each operation is one critical         *)
(* section, except is_tripped, which gives the read lock up before it      *)
(* takes the write lock that moves Open to HalfOpen.                       *)
(***************************************************************************)
EXTENDS BreakerOps, FiniteSets

CONSTANTS
    Channels,
    Hints,       \* key hints, the same set for every channel
    Requests,    \* concurrent requests; each may be reused for ever
    MaxAge       \* cleanup_expired's max_age, in ticks

ASSUME CircuitAssumption ==
    /\ MaxAge \in Nat
    /\ MaxCooldown < MaxAge
    /\ MaxAge <= AgeCap

VARIABLES
    entries,   \* the map: key -> entry, NoEntry when absent
    pc,        \* where each request is
    target,    \* the key it asked about last
    via        \* history: the breaker state it was let through under

vars == <<entries, pc, target, via>>

Keys == Channels \X Hints

TypeOK ==
    /\ entries \in [Keys -> CircuitEntry \cup {NoEntry}]
    /\ pc \in [Requests -> {"idle", "upgrading", "flight"}]
    /\ target \in [Requests -> Keys]
    /\ via \in [Requests -> CircuitState]

Init ==
    /\ entries = [k \in Keys |-> NoEntry]
    /\ pc = [r \in Requests |-> "idle"]
    /\ target \in [Requests -> Keys]
    /\ via = [r \in Requests |-> "Closed"]

-----------------------------------------------------------------------------

\* is_tripped answers (false, _) under the read lock.  A tripped key changes
\* nothing: the request goes on to its next key.
Admit(r, k) ==
    /\ pc[r] = "idle"
    /\ ~Tripped(entries[k])
    /\ ~HalfOpenDue(entries[k])
    /\ pc' = [pc EXCEPT ![r] = "flight"]
    /\ target' = [target EXCEPT ![r] = k]
    /\ via' = [via EXCEPT ![r] = IF entries[k].state = "HalfOpen"
                                 THEN "HalfOpen" ELSE "Closed"]
    /\ UNCHANGED entries

\* is_tripped sees Open with its cooldown over and drops the read lock.
SeeCooled(r, k) ==
    /\ pc[r] = "idle"
    /\ HalfOpenDue(entries[k])
    /\ pc' = [pc EXCEPT ![r] = "upgrading"]
    /\ target' = [target EXCEPT ![r] = k]
    /\ UNCHANGED <<entries, via>>

\* is_tripped has the write lock: HalfOpen without another look, and through.
HalfOpen(r) ==
    /\ pc[r] = "upgrading"
    /\ entries' = [entries EXCEPT ![target[r]] = HalfOpened(@)]
    /\ pc' = [pc EXCEPT ![r] = "flight"]
    /\ via' = [via EXCEPT ![r] = "HalfOpen"]
    /\ UNCHANGED target

RecordSuccess(r) ==
    /\ pc[r] = "flight"
    /\ entries' = [entries EXCEPT ![target[r]] = Restored(@)]
    /\ pc' = [pc EXCEPT ![r] = "idle"]
    /\ UNCHANGED <<target, via>>

RecordFailure(r) ==
    /\ pc[r] = "flight"
    /\ entries' = [entries EXCEPT ![target[r]] = Failed(@)]
    /\ pc' = [pc EXCEPT ![r] = "idle"]
    /\ UNCHANGED <<target, via>>

\* An error that is not the key's (a client error, a transport error, an
\* error inside a stream) or a dropped request: the breaker hears nothing.
EndUnrecorded(r) ==
    /\ pc[r] = "flight"
    /\ pc' = [pc EXCEPT ![r] = "idle"]
    /\ UNCHANGED <<entries, target, via>>

\* reset_channel, called between two passes over a channel's keys by a
\* request that is in flight on none of them.
ResetChannel(c) ==
    /\ \E r \in Requests : pc[r] = "idle"
    /\ entries' = [k \in Keys |->
                     IF k[1] = c THEN Restored(entries[k]) ELSE entries[k]]
    /\ UNCHANGED <<pc, target, via>>

\* Mutant: the shortest cooldown taken for the longest.
MutCleanupExpired ==
    /\ entries' = [k \in Keys |->
                     IF entries[k].age >= BaseCooldown THEN NoEntry ELSE entries[k]]
    /\ UNCHANGED <<pc, target, via>>

\* cleanup_expired, from the scheduler's cleanup task.
CleanupExpired ==
    /\ entries' = [k \in Keys |->
                     IF entries[k].age >= MaxAge THEN NoEntry ELSE entries[k]]
    /\ UNCHANGED <<pc, target, via>>

Tick ==
    /\ entries' = [k \in Keys |-> Aged(entries[k])]
    /\ UNCHANGED <<pc, target, via>>

Next ==
    \/ \E r \in Requests, k \in Keys : Admit(r, k) \/ SeeCooled(r, k)
    \/ \E r \in Requests : \/ HalfOpen(r) \/ RecordSuccess(r)
                           \/ RecordFailure(r) \/ EndUnrecorded(r)
    \/ \E c \in Channels : ResetChannel(c)
    \/ CleanupExpired
    \/ Tick

Spec == Init /\ [][Next]_vars

\* Time passes, a request that waits for the write lock gets it (the lock is
\* fair), and a request in flight ends (every upstream call has a timeout).
Fairness ==
    /\ WF_vars(Tick)
    /\ \A r \in Requests :
         /\ WF_vars(HalfOpen(r))
         /\ WF_vars(RecordSuccess(r) \/ RecordFailure(r) \/ EndUnrecorded(r))

FairSpec == Spec /\ Fairness

-----------------------------------------------------------------------------
(* Properties.                                                             *)

\* A key that passes traffic normally has fewer consecutive failures on its
\* books than the threshold: however successes, channel resets and the racy
\* move to HalfOpen interleave, no path back to Closed keeps a full counter
\* (record_success, reset_channel and record_failure).
ClosedBelowThreshold ==
    \A k \in Keys : entries[k].state = "Closed"
                        => entries[k].failures < FailureThreshold

\* The cleanup task never forgets a key whose cooldown still runs: being
\* Open, the key stays in the map until its cooldown is over (the max_age of
\* cleanup_expired against the longest cooldown_duration).
CoolingNotForgotten ==
    [][\A k \in Keys : Cooling(entries[k]) => entries'[k] # NoEntry]_vars

\* A probe that fails never earns the key a shorter cooldown than the one it
\* has just served (record_failure in HalfOpen, cooldown_duration).
RetripNeverShortens ==
    [][\A k \in Keys :
         entries[k].state = "HalfOpen" /\ entries'[k].state = "Open"
             => /\ CooldownDuration(entries'[k].trips)
                     >= CooldownDuration(entries[k].trips)
                /\ Cooling(entries'[k])]_vars

\* A cooldown always comes to an end although every failure recorded in Open
\* starts it again: only requests let through before can record one.
CooldownEnds ==
    \A k \in Keys : Cooling(entries[k]) ~> ~Cooling(entries[k])

(* What a comment of circuit.rs says, and the code does not do.            *)

\* circuit.rs:13, "half open, only a single probe request is let through".
SingleProbe ==
    \A k \in Keys :
        entries[k].state = "HalfOpen" =>
            Cardinality({r \in Requests : /\ pc[r] = "flight"
                                          /\ target[r] = k
                                          /\ via[r] = "HalfOpen"}) <= 1
=============================================================================
