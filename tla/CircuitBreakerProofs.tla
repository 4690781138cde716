------------------------- MODULE CircuitBreakerProofs -------------------------
(***************************************************************************)
(* Machine-checked proofs about CircuitBreaker, for every set of channels, *)
(* key hints and requests and every threshold and cooldown.                *)
(***************************************************************************)
EXTENDS CircuitBreaker, TLAPS

\* What each entry satisfies whatever is interleaved: Closed is below the
\* threshold, Open has tripped at least once.
EntryOK(e) ==
    /\ e.state = "Closed" => e.failures < FailureThreshold
    /\ e.state = "Open" => e.trips >= 1

EntriesOK == \A k \in Keys : EntryOK(entries[k])

\* An operation of the breaker maps entries to entries (Restored, Failed,
\* HalfOpened and Aged: record_success, record_failure, is_tripped, time).
LEMMA OpsPreserveType ==
    ASSUME NEW e \in CircuitEntry \cup {NoEntry}, EntryOK(e)
    PROVE  /\ Restored(e) \in CircuitEntry \cup {NoEntry}
           /\ HalfOpened(e) \in CircuitEntry \cup {NoEntry}
           /\ Failed(e) \in CircuitEntry
           /\ Aged(e) \in CircuitEntry \cup {NoEntry}
<1> USE BreakerAssumption
<1>1. Restored(e) \in CircuitEntry \cup {NoEntry}
  BY DEF Restored, CircuitEntry, CircuitState
<1>2. HalfOpened(e) \in CircuitEntry \cup {NoEntry}
  BY DEF HalfOpened, CircuitEntry, CircuitState
<1>3. Aged(e) \in CircuitEntry \cup {NoEntry}
  BY DEF Aged, CircuitEntry, CircuitState
<1>4. Failed(e) \in CircuitEntry
  <2>1. CASE e = NoEntry
    <3>1. /\ e.state = "None" /\ e.failures = 0 /\ e.trips = 0
          /\ e.probe \in BOOLEAN
      BY <2>1 DEF NoEntry
    <3>2. NextTrip(e.trips) \in 0..TripCap
      BY <3>1 DEF NextTrip
    <3>3. CASE FailureThreshold = 1
      <4>1. Failed(e) = Opened(e, 1, e.probe)
        BY <3>1, <3>3 DEF Failed
      <4>2. Opened(e, 1, e.probe) \in CircuitEntry
        BY <3>1, <3>2, <3>3 DEF Opened, CircuitEntry, CircuitState
      <4>3. QED
        BY <4>1, <4>2
    <3>4. CASE FailureThreshold > 1
      <4>1. Failed(e) = [state |-> "Closed", failures |-> 1, age |-> 0,
                         trips |-> 0, probe |-> e.probe]
        BY <3>1, <3>4 DEF Failed
      <4>2. QED
        BY <3>1, <3>4, <4>1 DEF CircuitEntry, CircuitState
    <3>5. QED
      BY <3>3, <3>4
  <2>2. CASE e \in CircuitEntry
    <3>1. CASE e.state = "Open"
      BY <2>2, <3>1 DEF Failed, CircuitEntry
    <3>2. CASE e.state = "HalfOpen"
      BY <2>2, <3>2
      DEF Failed, Opened, CircuitEntry, CircuitState, NextTrip
    <3>3. CASE /\ e.state = "Closed"
               /\ e.failures + 1 >= FailureThreshold
      <4>1. e.failures \in 0..FailureThreshold
        BY <2>2 DEF CircuitEntry
      <4>2. NextTrip(e.trips) \in 0..TripCap /\ e.probe \in BOOLEAN
        BY <2>2 DEF CircuitEntry, NextTrip
      <4>3. Failed(e) = Opened(e, e.failures + 1, e.probe)
        BY <3>3 DEF Failed
      <4>4. e.failures < FailureThreshold
        BY <3>3 DEF EntryOK
      <4>5. Opened(e, e.failures + 1, e.probe) \in CircuitEntry
        BY <4>1, <4>2, <4>4 DEF Opened, CircuitEntry, CircuitState
      <4>6. QED
        BY <4>3, <4>5
    <3>4. CASE /\ e.state = "Closed"
               /\ ~(e.failures + 1 >= FailureThreshold)
      BY <2>2, <3>4 DEF Failed, CircuitEntry, CircuitState
    <3>5. QED
      BY <2>2, <3>1, <3>2, <3>3, <3>4 DEF CircuitEntry, CircuitState
  <2>3. QED
    BY <2>1, <2>2
<1>5. QED
  BY <1>1, <1>2, <1>3, <1>4

\* Each operation keeps EntryOK, even HalfOpened applied to an entry that is
\* no longer Open (the write half of is_tripped).
LEMMA OpsPreserveEntryOK ==
    ASSUME NEW e \in CircuitEntry \cup {NoEntry}, EntryOK(e)
    PROVE  /\ EntryOK(Restored(e))
           /\ EntryOK(HalfOpened(e))
           /\ EntryOK(Failed(e))
           /\ EntryOK(Aged(e))
<1> USE BreakerAssumption
<1>1. CASE e = NoEntry
  BY <1>1 DEF EntryOK, Restored, HalfOpened, Failed, Opened, Aged, NoEntry, NextTrip
<1>2. CASE e \in CircuitEntry
  <2>1. e # NoEntry
    BY <1>2 DEF CircuitEntry, CircuitState, NoEntry
  <2>2. EntryOK(Restored(e)) /\ EntryOK(HalfOpened(e)) /\ EntryOK(Aged(e))
    BY <1>2, <2>1
    DEF EntryOK, Restored, HalfOpened, Aged, CircuitEntry, CircuitState
  <2>3. EntryOK(Failed(e))
    BY <1>2, <2>1
    DEF EntryOK, Failed, Opened, NextTrip, CircuitEntry, CircuitState
  <2>4. QED
    BY <2>2, <2>3
<1>3. QED
  BY <1>1, <1>2

-----------------------------------------------------------------------------

\* The inductive invariant: the types alone are not inductive, because a full
\* counter in Closed would be pushed past the threshold.
IInv == TypeOK /\ EntriesOK

LEMMA TypeStep == IInv /\ [Next]_vars => TypeOK'
<1> SUFFICES ASSUME IInv, [Next]_vars
             PROVE  TypeOK'
  OBVIOUS
<1>0. TypeOK /\ \A k \in Keys : EntryOK(entries[k])
  BY DEF IInv, EntriesOK
<1> USE <1>0 DEF TypeOK
<1>1. ASSUME NEW r \in Requests, NEW k \in Keys, Admit(r, k)
      PROVE  TypeOK'
  BY <1>1 DEF Admit, CircuitState
<1>2. ASSUME NEW r \in Requests, NEW k \in Keys, SeeCooled(r, k)
      PROVE  TypeOK'
  BY <1>2 DEF SeeCooled
<1>3. ASSUME NEW r \in Requests, HalfOpen(r)
      PROVE  TypeOK'
  BY <1>3, OpsPreserveType DEF HalfOpen, CircuitState
<1>4. ASSUME NEW r \in Requests, RecordSuccess(r)
      PROVE  TypeOK'
  BY <1>4, OpsPreserveType DEF RecordSuccess
<1>5. ASSUME NEW r \in Requests, RecordFailure(r)
      PROVE  TypeOK'
  BY <1>5, OpsPreserveType DEF RecordFailure
<1>6. ASSUME NEW r \in Requests, EndUnrecorded(r)
      PROVE  TypeOK'
  BY <1>6 DEF EndUnrecorded
<1>7. ASSUME NEW c \in Channels, ResetChannel(c)
      PROVE  TypeOK'
  BY <1>7, OpsPreserveType DEF ResetChannel
<1>8. CASE CleanupExpired
  BY <1>8 DEF CleanupExpired
<1>9. CASE Tick
  BY <1>9, OpsPreserveType DEF Tick
<1>10. CASE UNCHANGED vars
  BY <1>10 DEF vars
<1>11. QED
  BY <1>1, <1>2, <1>3, <1>4, <1>5, <1>6, <1>7, <1>8, <1>9, <1>10 DEF Next

LEMMA EntriesStep == IInv /\ [Next]_vars => EntriesOK'
<1> SUFFICES ASSUME IInv, [Next]_vars, NEW k \in Keys
             PROVE  EntryOK(entries'[k])
  BY DEF EntriesOK
<1>0. /\ entries \in [Keys -> CircuitEntry \cup {NoEntry}]
      /\ target \in [Requests -> Keys]
      /\ \A j \in Keys : EntryOK(entries[j])
  BY DEF IInv, TypeOK, EntriesOK
<1>1. ASSUME NEW r \in Requests, HalfOpen(r)
      PROVE  EntryOK(entries'[k])
  BY <1>0, <1>1, OpsPreserveEntryOK DEF HalfOpen
<1>2. ASSUME NEW r \in Requests, RecordSuccess(r)
      PROVE  EntryOK(entries'[k])
  BY <1>0, <1>2, OpsPreserveEntryOK DEF RecordSuccess
<1>3. ASSUME NEW r \in Requests, RecordFailure(r)
      PROVE  EntryOK(entries'[k])
  BY <1>0, <1>3, OpsPreserveEntryOK DEF RecordFailure
<1>4. ASSUME NEW c \in Channels, ResetChannel(c)
      PROVE  EntryOK(entries'[k])
  BY <1>0, <1>4, OpsPreserveEntryOK DEF ResetChannel
<1>5. CASE CleanupExpired
  <2>1. EntryOK(NoEntry)
    BY DEF EntryOK, NoEntry
  <2>2. QED
    BY <1>0, <1>5, <2>1 DEF CleanupExpired
<1>6. CASE Tick
  BY <1>0, <1>6, OpsPreserveEntryOK DEF Tick
<1>7. CASE UNCHANGED entries
  BY <1>0, <1>7
<1>8. QED
  BY <1>1, <1>2, <1>3, <1>4, <1>5, <1>6, <1>7
  DEF Next, Admit, SeeCooled, EndUnrecorded, vars

LEMMA Invariant == Spec => []IInv
<1>1. Init => IInv
  BY DEF Init, IInv, TypeOK, EntriesOK, EntryOK, CircuitState, NoEntry
<1>2. IInv /\ [Next]_vars => IInv'
  BY TypeStep, EntriesStep DEF IInv
<1>3. QED
  BY <1>1, <1>2, PTL DEF Spec

\* TypeOK is an invariant of the breaker.
THEOREM TypeCorrect == Spec => []TypeOK
<1>1. IInv => TypeOK
  BY DEF IInv
<1>2. QED
  BY <1>1, Invariant, PTL

\* No path back to Closed keeps a full failure counter.
THEOREM ClosedBelowThresholdHolds == Spec => []ClosedBelowThreshold
<1>1. IInv => ClosedBelowThreshold
  BY DEF IInv, EntriesOK, EntryOK, ClosedBelowThreshold
<1>2. QED
  BY <1>1, Invariant, PTL

-----------------------------------------------------------------------------

\* The shift doubles the base twenty times: the recursion of Shifted solved.
LEMMA ShiftedDoubles ==
    /\ Shifted[0] = BaseCooldown
    /\ \A n \in 0..MaxShift : Shifted[n] \in Nat
    /\ \A n \in 1..MaxShift : Shifted[n] = 2 * Shifted[n - 1]
<1> DEFINE double(f) == [n \in 0..MaxShift |-> IF n = 0 THEN BaseCooldown ELSE 2 * f[n - 1]]
           factor == <<1, 2, 4, 8, 16, 32, 64, 128, 256, 512, 1024, 2048, 4096, 8192,
                       16384, 32768, 65536, 131072, 262144, 524288, 1048576>>
           shifted == [n \in 0..MaxShift |-> BaseCooldown * factor[n + 1]]
<1>1. \A n \in 0..MaxShift : factor[n + 1] \in Nat
  BY DEF MaxShift
<1>2. factor[1] = 1 /\ \A n \in 1..MaxShift : factor[n + 1] = 2 * factor[n]
  BY DEF MaxShift
<1> HIDE DEF factor
<1>3. \A n \in 0..MaxShift : shifted[n] \in Nat
  BY <1>1, BreakerAssumption
<1>4. shifted = double(shifted)
  <2>1. ASSUME NEW n \in 0..MaxShift PROVE shifted[n] = double(shifted)[n]
    <3>1. CASE n = 0
      BY <1>2, <3>1, BreakerAssumption DEF MaxShift
    <3>2. CASE n # 0
      <4>1. n \in 1..MaxShift /\ n - 1 \in 0..MaxShift /\ (n - 1) + 1 = n
        BY <3>2 DEF MaxShift
      <4>2. factor[n] \in Nat /\ factor[n + 1] = 2 * factor[n]
        BY <1>1, <1>2, <4>1
      <4>3. BaseCooldown * (2 * factor[n]) = 2 * (BaseCooldown * factor[n])
        BY <4>2, BreakerAssumption
      <4>4. shifted[n - 1] = BaseCooldown * factor[n]
        BY <4>1
      <4> QED BY <3>2, <4>1, <4>2, <4>3, <4>4
    <3> QED BY <3>1, <3>2
  <2> QED BY <2>1
<1>5. Shifted = CHOOSE f : f = double(f)
  BY DEF Shifted
<1>6. Shifted = double(Shifted)
  BY <1>4, <1>5
<1>7. ASSUME NEW n \in 0..MaxShift
      PROVE  Shifted[n] = IF n = 0 THEN BaseCooldown ELSE 2 * Shifted[n - 1]
  BY <1>6, Zenon
<1>8. ASSUME NEW n \in 0..MaxShift PROVE  Shifted[n] \in Nat
  BY <1>7, BreakerAssumption DEF MaxShift
<1>9. QED
  BY <1>7, <1>8 DEF MaxShift

\* The cooldown is at least the base, at most MaxCooldown, and grows with the
\* number of trips (cooldown_duration).
LEMMA CooldownGrows ==
    ASSUME NEW trips \in 0..TripCap
    PROVE  /\ CooldownDuration(trips) \in Nat \ {0}
           /\ CooldownDuration(trips) <= MaxCooldown
           /\ CooldownDuration(NextTrip(trips)) >= CooldownDuration(trips)
<1> USE BreakerAssumption DEF MaxShift
<1> DEFINE shift(t) == IF t - 1 < MaxShift THEN t - 1 ELSE MaxShift
           capped(n) == IF Shifted[n] < MaxCooldown THEN Shifted[n] ELSE MaxCooldown
<1>1. \A n \in 0..MaxShift : Shifted[n] \in Nat /\ Shifted[n] >= BaseCooldown
  BY ShiftedDoubles
<1>2. \A n \in 0..MaxShift : /\ capped(n) \in Nat /\ BaseCooldown <= capped(n)
                             /\ capped(n) <= MaxCooldown
  BY <1>1
<1>3. \A n \in 1..MaxShift : capped(n) >= capped(n - 1)
  BY <1>1, ShiftedDoubles
<1>4. \A t \in Nat \ {0} : /\ CooldownDuration(t) = capped(shift(t))
                            /\ shift(t) \in 0..MaxShift
  BY DEF CooldownDuration
<1> HIDE DEF capped
<1>5. CASE trips = 0
  <2>1. CooldownDuration(trips) = BaseCooldown /\ NextTrip(trips) = 1
    BY <1>5 DEF CooldownDuration, NextTrip
  <2>2. QED
    BY <1>2, <1>4, <2>1
<1>6. CASE trips # 0
  <2>1. CASE NextTrip(trips) = trips
    BY <1>2, <1>4, <1>6, <2>1
  <2>2. CASE NextTrip(trips) = trips + 1
    <3>1. shift(trips + 1) = shift(trips)
          \/ (shift(trips + 1) \in 1..MaxShift /\ shift(trips) = shift(trips + 1) - 1)
      BY <1>6
    <3>2. capped(shift(trips + 1)) >= capped(shift(trips))
      BY <1>2, <1>3, <1>4, <1>6, <3>1
    <3>3. QED
      BY <1>2, <1>4, <1>6, <2>2, <3>2
  <2>3. QED
    BY <2>1, <2>2 DEF NextTrip
<1>7. QED
  BY <1>5, <1>6

\* cleanup_expired never removes a key that is still cooling down.
THEOREM CoolingNotForgottenHolds == Spec => CoolingNotForgotten
<1> DEFINE Kept == \A k \in Keys : Cooling(entries[k]) => entries'[k] # NoEntry
<1>1. IInv /\ [Next]_vars => [Kept]_vars
  <2> SUFFICES ASSUME IInv, Next,
                      NEW k \in Keys, Cooling(entries[k])
               PROVE  entries'[k] # NoEntry
    BY DEF Kept
  <2>0. /\ entries \in [Keys -> CircuitEntry \cup {NoEntry}]
        /\ target \in [Requests -> Keys]
        /\ EntryOK(entries[k])
    BY DEF IInv, TypeOK, EntriesOK
  <2>1. entries[k].state = "Open"
    BY DEF Cooling
  <2>2. entries[k] # NoEntry /\ entries[k] \in CircuitEntry
    BY <2>0, <2>1 DEF NoEntry
  <2>3. \A j \in Keys, e \in CircuitEntry : e # NoEntry
    BY DEF CircuitEntry, CircuitState, NoEntry
  <2>4. ASSUME NEW e \in CircuitEntry
        PROVE  Restored(e) # NoEntry /\ HalfOpened(e) # NoEntry
    BY DEF Restored, HalfOpened, CircuitEntry, CircuitState, NoEntry
  <2>5. ASSUME NEW e \in CircuitEntry
        PROVE  Failed(e) # NoEntry /\ Aged(e) # NoEntry
    BY BreakerAssumption
    DEF Failed, Opened, Aged, CircuitEntry, CircuitState, NoEntry
  <2>6. ASSUME NEW r \in Requests, HalfOpen(r)
        PROVE  entries'[k] # NoEntry
    BY <2>0, <2>2, <2>4, <2>6 DEF HalfOpen
  <2>7. ASSUME NEW r \in Requests, RecordSuccess(r)
        PROVE  entries'[k] # NoEntry
    BY <2>0, <2>2, <2>4, <2>7 DEF RecordSuccess
  <2>8. ASSUME NEW r \in Requests, RecordFailure(r)
        PROVE  entries'[k] # NoEntry
    BY <2>0, <2>2, <2>5, <2>8 DEF RecordFailure
  <2>9. ASSUME NEW c \in Channels, ResetChannel(c)
        PROVE  entries'[k] # NoEntry
    BY <2>0, <2>2, <2>4, <2>9 DEF ResetChannel
  <2>10. CASE CleanupExpired
    <3>1. entries[k].trips \in 1..TripCap /\ entries[k].age \in Nat
      BY <2>0, <2>1, <2>2, BreakerAssumption DEF EntryOK, CircuitEntry
    <3>2. ~(entries[k].age >= CooldownDuration(entries[k].trips))
      BY DEF Cooling, Cooled
    <3>3. ~(entries[k].age >= MaxAge)
      BY <3>1, <3>2, CooldownGrows, CircuitAssumption, BreakerAssumption
    <3>4. QED
      BY <2>2, <2>10, <3>3 DEF CleanupExpired
  <2>11. CASE Tick
    BY <2>0, <2>2, <2>5, <2>11 DEF Tick
  <2>12. CASE UNCHANGED entries
    BY <2>2, <2>12
  <2>13. QED
    BY <2>6, <2>7, <2>8, <2>9, <2>10, <2>11, <2>12
    DEF Next, Admit, SeeCooled, EndUnrecorded
<1>2. QED
  BY <1>1, Invariant, PTL DEF Spec, CoolingNotForgotten, Kept

\* A failed probe opens the key again for at least as long as before.
THEOREM RetripNeverShortensHolds == Spec => RetripNeverShortens
<1> DEFINE Longer(k) == /\ CooldownDuration(entries'[k].trips)
                              >= CooldownDuration(entries[k].trips)
                        /\ Cooling(entries'[k])
           Retrips(k) == entries[k].state = "HalfOpen" /\ entries'[k].state = "Open"
<1>1. IInv /\ [Next]_vars => [\A k \in Keys : Retrips(k) => Longer(k)]_vars
  <2> SUFFICES ASSUME IInv, Next, NEW k \in Keys, Retrips(k)
               PROVE  Longer(k)
    OBVIOUS
  <2>0. /\ entries \in [Keys -> CircuitEntry \cup {NoEntry}]
        /\ target \in [Requests -> Keys]
    BY DEF IInv, TypeOK
  <2>1. entries[k] \in CircuitEntry /\ entries[k] # NoEntry
    BY <2>0 DEF NoEntry
  \* Only record_failure opens a key.
  <2>2. ASSUME entries'[k] = Failed(entries[k])
        PROVE  Longer(k)
    <3>1. entries'[k] = Opened(entries[k], 0, FALSE)
      BY <2>2 DEF Failed
    <3>2. entries'[k].trips = NextTrip(entries[k].trips) /\ entries'[k].age = 0
          /\ entries'[k].state = "Open"
      BY <3>1 DEF Opened
    <3>3. entries[k].trips \in 0..TripCap /\ NextTrip(entries[k].trips) \in 0..TripCap
      BY <2>1, BreakerAssumption DEF CircuitEntry, NextTrip
    <3>4. QED
      BY <3>2, <3>3, CooldownGrows DEF Cooling, Cooled
  <2>3. ASSUME entries'[k] \in {entries[k], NoEntry, HalfOpened(entries[k]),
                               Restored(entries[k]), Aged(entries[k])}
        PROVE  FALSE
    <3>1. HalfOpened(entries[k]).state = "HalfOpen" /\ Restored(entries[k]).state = "Closed"
      BY <2>1 DEF HalfOpened, Restored
    <3>2. Aged(entries[k]).state = "HalfOpen"
      BY <2>1 DEF Aged, CircuitEntry
    <3>3. QED
      BY <2>3, <3>1, <3>2 DEF NoEntry
  <2>4. ASSUME NEW r \in Requests, RecordFailure(r)
        PROVE  Longer(k)
    <3>1. entries'[k] = Failed(entries[k]) \/ entries'[k] = entries[k]
      BY <2>0, <2>4 DEF RecordFailure
    <3>2. QED
      BY <2>2, <2>3, <3>1
  <2>5. ASSUME NEW r \in Requests, HalfOpen(r) \/ RecordSuccess(r)
        PROVE  FALSE
    <3>1. entries'[k] \in {entries[k], HalfOpened(entries[k]), Restored(entries[k])}
      BY <2>0, <2>5 DEF HalfOpen, RecordSuccess
    <3>2. QED
      BY <2>3, <3>1
  <2>6. CASE (\E c \in Channels : ResetChannel(c)) \/ CleanupExpired \/ Tick
    <3>1. entries'[k] \in {entries[k], NoEntry, Restored(entries[k]), Aged(entries[k])}
      BY <2>0, <2>6 DEF ResetChannel, CleanupExpired, Tick
    <3>2. QED
      BY <2>3, <3>1
  <2>7. CASE UNCHANGED entries
    BY <2>3, <2>7
  <2>8. QED
    BY <2>4, <2>5, <2>6, <2>7 DEF Next, Admit, SeeCooled, EndUnrecorded
<1>2. QED
  BY <1>1, Invariant, PTL DEF Spec, RetripNeverShortens
=============================================================================
