------------------------------- MODULE HealthOps -------------------------------
(***************************************************************************)
(* What one operation does to the runtime status of one channel: the       *)
(* failure counter and the blacklist of                                    *)
(* src/src/llm/scheduler/state/{channel_status,mod}.rs.  Latency averages, *)
(* EWMA statistics and the success counter rank candidates only and are    *)
(* left out.                                                               *)
(*                                                                         *)
(* last_failure is kept as the time since then, saturating at FailureTTL   *)
(* ("never" behaves like "longer ago than the TTL"); blacklist_until as    *)
(* the time still to go.                                                   *)
(***************************************************************************)
EXTENDS Naturals

CONSTANTS
    BlacklistThreshold,  \* channels.failure_threshold
    BlacklistTicks,      \* channels.blacklist_minutes, in ticks
    FailureTTL,          \* FAILURE_TTL, in ticks
    FailureCap           \* bound: failure_count is not counted past this

ASSUME HealthAssumption ==
    /\ BlacklistThreshold \in Nat
    /\ BlacklistTicks \in Nat
    /\ FailureTTL \in Nat \ {0}
    /\ FailureCap \in Nat \ {0}
    /\ BlacklistThreshold <= FailureCap

Health ==
    [ known    : BOOLEAN,             \* the map has a ChannelStatus
      failures : 0..FailureCap,       \* failure_count
      age      : 0..FailureTTL,       \* since last_failure
      black    : BOOLEAN,             \* is_blacklisted
      left     : 0..BlacklistTicks ]  \* until blacklist_until

UnknownHealth ==
    [known |-> FALSE, failures |-> 0, age |-> FailureTTL,
     black |-> FALSE, left |-> 0]

\* is_channel_available: a channel without a status is available, and so is
\* one whose blacklist has run out, cleaned up or not.
Available(h) == ~h.known \/ ~h.black \/ h.left = 0

\* ensure_channel_status; the thresholds it copies are constants here.
Ensured(h) == [h EXCEPT !.known = TRUE]

\* Mutant: an empty counter leaves the blacklist in place.
MutHealthSuccess(h) ==
    LET failures == IF h.age = FailureTTL THEN 0 ELSE h.failures \div 2
    IN  IF ~h.known THEN h ELSE [h EXCEPT !.failures = failures]

\* record_success: the counter is cleared after a quiet FAILURE_TTL, halved
\* otherwise, and an empty counter lifts the blacklist.
HealthSuccess(h) ==
    LET failures == IF h.age = FailureTTL THEN 0 ELSE h.failures \div 2
        black    == h.black /\ failures # 0
    IN  IF ~h.known THEN h
        ELSE [known |-> TRUE, failures |-> failures, age |-> h.age,
              black |-> black, left |-> IF black THEN h.left ELSE 0]

\* Mutant: a counter at the threshold blacklists whatever the caller says.
MutHealthFailure(h, shouldBlacklist) ==
    LET before   == IF h.age = FailureTTL THEN 0 ELSE h.failures
        failures == IF before < FailureCap THEN before + 1 ELSE FailureCap
        trips    == failures >= BlacklistThreshold
    IN  IF ~h.known THEN h
        ELSE [known |-> TRUE, failures |-> failures, age |-> 0,
              black |-> h.black \/ trips,
              left |-> IF trips THEN BlacklistTicks ELSE h.left]

\* record_failure, of the channel's status and then of the load balancer: a
\* quiet FAILURE_TTL forgets the past, and a counter at the threshold
\* blacklists, or blacklists again, if the caller says that it should.
HealthFailure(h, shouldBlacklist) ==
    LET before   == IF h.age = FailureTTL THEN 0 ELSE h.failures
        failures == IF before < FailureCap THEN before + 1 ELSE FailureCap
        trips    == shouldBlacklist /\ failures >= BlacklistThreshold
    IN  IF ~h.known THEN h
        ELSE [known |-> TRUE, failures |-> failures, age |-> 0,
              black |-> h.black \/ trips,
              left |-> IF trips THEN BlacklistTicks ELSE h.left]

\* cleanup_expired_blacklists.
BlacklistCleaned(h) ==
    IF h.black /\ h.left = 0
    THEN [h EXCEPT !.black = FALSE, !.failures = 0]
    ELSE h

\* Mutant: the time to go runs below zero.
MutHealthAged(h) ==
    [h EXCEPT !.age = IF @ < FailureTTL THEN @ + 1 ELSE @, !.left = @ - 1]

\* One tick of the clock, seen by a status.
HealthAged(h) ==
    [h EXCEPT !.age = IF @ < FailureTTL THEN @ + 1 ELSE @,
              !.left = IF @ > 0 THEN @ - 1 ELSE @]
=============================================================================
