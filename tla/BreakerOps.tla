------------------------------ MODULE BreakerOps ------------------------------
(***************************************************************************)
(* What one operation of the per-key circuit breaker does to one entry of  *)
(* its map (src/src/llm/scheduler/circuit.rs).  The operators are shared   *)
(* by CircuitBreaker, which interleaves them, and by Relay, which composes *)
(* them with the rest of the request path.                                 *)
(*                                                                         *)
(* last_failure_time is kept as the entry's age: the time since the last   *)
(* recorded failure, saturating at AgeCap.  trip_count saturates at        *)
(* TripCap, past which cooldown_duration no longer changes.                *)
(***************************************************************************)
EXTENDS Naturals

CONSTANTS
    FailureThreshold,  \* CircuitConfig.failure_threshold
    BaseCooldown,      \* CircuitConfig.base_cooldown_secs, in ticks
    MaxCooldown,       \* CircuitConfig.max_cooldown_secs, in ticks
    TripCap,           \* bound: trip_count is not counted past this
    AgeCap             \* bound: an age is not counted past this

ASSUME BreakerAssumption ==
    /\ FailureThreshold \in Nat \ {0}
    /\ BaseCooldown \in Nat \ {0}
    /\ MaxCooldown \in Nat \ {0}
    /\ BaseCooldown <= MaxCooldown
    /\ TripCap \in Nat \ {0}
    /\ AgeCap \in Nat \ {0}

\* The shift is capped: base * 2^shift.
MaxShift == 20
Shifted[shift \in 0..MaxShift] ==
    IF shift = 0 THEN BaseCooldown ELSE 2 * Shifted[shift - 1]

\* cooldown_duration: base * 2^(trip_count - 1), the result capped at the
\* maximum; the base alone for an entry never tripped.
CooldownDuration(trips) ==
    IF trips = 0
    THEN BaseCooldown
    ELSE LET cooldown == Shifted[IF trips - 1 < MaxShift THEN trips - 1 ELSE MaxShift]
         IN  IF cooldown < MaxCooldown THEN cooldown ELSE MaxCooldown

-----------------------------------------------------------------------------

CircuitState == {"Closed", "Open", "HalfOpen"}

CircuitEntry ==
    [ state    : CircuitState,
      failures : 0..FailureThreshold,   \* consecutive_failures
      age      : 0..AgeCap,             \* since last_failure_time
      trips    : 0..TripCap,            \* trip_count
      probe    : BOOLEAN ]              \* half_open_probe

\* A key the map has no entry for.
NoEntry ==
    [state |-> "None", failures |-> 0, age |-> 0, trips |-> 0, probe |-> FALSE]

Cooled(e)  == e.age >= CooldownDuration(e.trips)
Cooling(e) == e.state = "Open" /\ ~Cooled(e)

\* Mutant: the cooldown is not looked at; only a probe under way refuses.
MutTripped(e) == e.state = "HalfOpen" /\ e.probe

\* is_tripped under the read lock: the key is refused, or it is Open with its
\* cooldown over and the caller goes on to take the write lock, or (neither)
\* the request is let through at once.
Tripped(e)     == Cooling(e) \/ (e.state = "HalfOpen" /\ e.probe)
HalfOpenDue(e) == e.state = "Open" /\ Cooled(e)

\* is_tripped under the write lock: whatever the entry has become meanwhile.
HalfOpened(e) ==
    IF e = NoEntry
    THEN NoEntry
    ELSE [state |-> "HalfOpen", failures |-> e.failures, age |-> e.age,
          trips |-> e.trips, probe |-> FALSE]

\* Mutant: a success closes the key but leaves its counter.
MutRestored(e) ==
    IF e = NoEntry THEN NoEntry ELSE [e EXCEPT !.state = "Closed", !.trips = 0]

\* record_success, and reset_channel for each key of the channel; the time of
\* the last failure stays.
Restored(e) ==
    IF e = NoEntry
    THEN NoEntry
    ELSE [state |-> "Closed", failures |-> 0, age |-> e.age,
          trips |-> 0, probe |-> FALSE]

NextTrip(trips) == IF trips < TripCap THEN trips + 1 ELSE trips

\* Mutant: the time of the last failure is left alone.
MutOpened(e, failures, probe) ==
    [state |-> "Open", failures |-> failures, age |-> e.age,
     trips |-> NextTrip(e.trips), probe |-> probe]

Opened(e, failures, probe) ==
    [state |-> "Open", failures |-> failures, age |-> 0,
     trips |-> NextTrip(e.trips), probe |-> probe]

\* Mutant: a failed probe goes on counting instead of clearing the counter.
MutFailed(e) ==
    IF e.state = "Open" THEN [e EXCEPT !.age = 0]
    ELSE IF e.state = "HalfOpen" \/ e.failures + 1 >= FailureThreshold
    THEN Opened(e, e.failures + 1, e.probe)
    ELSE [state |-> "Closed", failures |-> e.failures + 1, age |-> 0,
          trips |-> e.trips, probe |-> e.probe]

\* record_failure.  A missing entry counts like a Closed one without failures;
\* Closed trips at the threshold and keeps its counter; a failed probe trips
\* again and clears it; Open only has its last_failure_time moved.
Failed(e) ==
    IF e.state = "Open"
    THEN [e EXCEPT !.age = 0]
    ELSE IF e.state = "HalfOpen"
    THEN Opened(e, 0, FALSE)
    ELSE IF e.failures + 1 >= FailureThreshold
    THEN Opened(e, e.failures + 1, e.probe)
    ELSE [state |-> "Closed", failures |-> e.failures + 1, age |-> 0,
          trips |-> e.trips, probe |-> e.probe]

\* One tick of the clock, seen by an entry.
Aged(e) ==
    IF e = NoEntry \/ e.age = AgeCap THEN e ELSE [e EXCEPT !.age = @ + 1]
=============================================================================
