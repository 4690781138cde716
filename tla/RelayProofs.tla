------------------------------ MODULE RelayProofs ------------------------------
(***************************************************************************)
(* Machine-checked proofs about Relay, for any finite set of requests, any *)
(* channels, limits, keys and queue size: the capacity slots and the queue *)
(* permits are accounted for, none leaks, a request is recorded once, the  *)
(* work at an upstream is counted, and only server errors blacklist.       *)
(*                                                                         *)
(* The accounting rests on a classification of the steps: whatever a step  *)
(* does, it takes one slot, gives one back, or leaves the slots alone, and *)
(* the same for the queue, for active_requests and for the health of a     *)
(* channel.  That a permit is given back in time rests on RequestOK, which *)
(* says where a request can be while it holds what.                        *)
(***************************************************************************)
EXTENDS Relay, FiniteSetTheorems, TLAPS

Types ==
    /\ queue \in Int
    /\ slots \in [Channels -> Int]
    /\ pc \in [Requests -> PC]
    /\ cands \in [Requests -> Seq(Channels)]
    /\ permit \in [Requests -> Channels \cup {NoChannel}]
    /\ queued \in [Requests -> BOOLEAN]
    /\ logs \in [Requests -> Nat]
    /\ task \in [Requests -> Task]
    /\ body \in [Requests -> BOOLEAN]
    /\ dropped \in [Requests -> {"no", "client", "panic"}]

\* A candidate is being tried.
Trying(r) == pc[r] \in AttemptPC \cup {"acquire"}

\* A stream goes on without its handler.
StreamOn(r) == task[r] \in {"streaming", "restore", "record"}

RequestOK(r) ==
    /\ Trying(r) \/ StreamOn(r) => cands[r] # <<>>
    /\ pc[r] # "done" => /\ ~body[r] /\ task[r] = "none"
                         /\ dropped[r] = "no" /\ logs[r] = 0
    /\ permit[r] # NoChannel => pc[r] \in AttemptPC \/ body[r]
    /\ queued[r] => /\ pc[r] # "new"
                    /\ pc[r] = "done" => task[r] \notin {"none", "over"}
    /\ dropped[r] # "no" => task[r] = "none"
    /\ pc[r] = "done" =>
         logs[r] = IF dropped[r] = "no" /\ task[r] \in {"none", "over"}
                   THEN 1 ELSE 0

RequestsOK == \A r \in Requests : RequestOK(r)

\* What one step may do to the slots.
SlotTaken(r, c) ==
    /\ c \in Channels /\ permit[r] = NoChannel
    /\ slots[c] < MaxConcurrency[c]
    /\ slots' = [slots EXCEPT ![c] = @ + 1]
    /\ permit' = [permit EXCEPT ![r] = c]
SlotsStep ==
    \/ UNCHANGED <<slots, permit>>
    \/ \E r \in Requests : ReleaseSlot(r)
    \/ \E r \in Requests, c \in Channels : SlotTaken(r, c)

\* And to the queue.
QueueTaken(r) ==
    /\ ~queued[r] /\ queue > 0
    /\ queue' = queue - 1
    /\ queued' = [queued EXCEPT ![r] = TRUE]
QueueStep ==
    \/ UNCHANGED <<queue, queued>>
    \/ \E r \in Requests : ReleaseQueue(r) \/ QueueTaken(r)

-----------------------------------------------------------------------------

\* Lists of candidates are sequences, and so are their tails.
LEMMA ListsAreSequences ==
    ASSUME NEW list \in CandidateLists
    PROVE  list \in Seq(Channels)
BY DEF CandidateLists

LEMMA HeadAndTail ==
    ASSUME NEW s \in Seq(Channels), s # <<>>
    PROVE  Head(s) \in Channels /\ Tail(s) \in Seq(Channels)
OBVIOUS

\* What the shared pieces of the actions do to the types.
LEMMA ReleaseSlotTypes ==
    ASSUME Types, NEW r \in Requests, ReleaseSlot(r)
    PROVE  /\ slots' \in [Channels -> Int]
           /\ permit' \in [Requests -> Channels \cup {NoChannel}]
BY DEF Types, ReleaseSlot

LEMMA ReleaseQueueTypes ==
    ASSUME Types, NEW r \in Requests, ReleaseQueue(r)
    PROVE  queue' \in Int /\ queued' \in [Requests -> BOOLEAN]
BY DEF Types, ReleaseQueue

LEMMA EndExecutionTypes ==
    ASSUME Types, NEW r \in Requests, EndExecution(r)
    PROVE  queue' \in Int /\ queued' \in [Requests -> BOOLEAN]
BY ReleaseQueueTypes DEF Types, EndExecution

LEMMA FailAttemptTypes ==
    ASSUME Types, NEW r \in Requests, NEW class, FailAttempt(r, class)
    PROVE  /\ pc' \in [Requests -> PC]
           /\ slots' \in [Channels -> Int]
           /\ permit' \in [Requests -> Channels \cup {NoChannel}]
BY ReleaseSlotTypes DEF Types, FailAttempt, Goto, PC, AttemptPC

LEMMA ForgetCandidatesTypes ==
    ASSUME Types, NEW r \in Requests, ForgetCandidates(r)
    PROVE  cands' \in [Requests -> Seq(Channels)]
BY DEF Types, ForgetCandidates

LEMMA TakeSlotTypes ==
    ASSUME Types, RequestsOK, NEW r \in Requests, TakeSlot(r)
    PROVE  /\ pc' \in [Requests -> PC]
           /\ cands' \in [Requests -> Seq(Channels)]
           /\ slots' \in [Channels -> Int]
           /\ permit' \in [Requests -> Channels \cup {NoChannel}]
<1> DEFINE c == Current(r)
<1>1. c \in Channels /\ Tail(cands[r]) \in Seq(Channels)
  BY HeadAndTail
  DEF TakeSlot, At, Current, Types, RequestsOK, RequestOK, Trying, StreamOn
<1>2. pc' = [pc EXCEPT ![r] = "start"] \/ pc' = [pc EXCEPT ![r] = "select"]
  BY Zenon DEF TakeSlot, Goto
<1>3. cands' = cands \/ cands' = [cands EXCEPT ![r] = Tail(@)]
  BY Zenon DEF TakeSlot
<1>4. \/ UNCHANGED <<slots, permit>>
      \/ /\ slots' = [slots EXCEPT ![c] = @ + 1]
         /\ permit' = [permit EXCEPT ![r] = c]
  BY Zenon DEF TakeSlot
<1> HIDE DEF c
<1>5. pc' \in [Requests -> PC]
  BY <1>2 DEF Types, PC, AttemptPC
<1>6. cands' \in [Requests -> Seq(Channels)]
  BY <1>1, <1>3 DEF Types
<1>7. slots' \in [Channels -> Int]
  BY <1>1, <1>4 DEF Types
<1>8. permit' \in [Requests -> Channels \cup {NoChannel}]
  BY <1>1, <1>4 DEF Types
<1>9. QED
  BY <1>5, <1>6, <1>7, <1>8

LEMMA EndEarlyTypes ==
    ASSUME Types, NEW r \in Requests, NEW why \in {"client", "panic"},
           EndEarly(r, why)
    PROVE  Types'
<1>1. /\ slots' \in [Channels -> Int]
      /\ permit' \in [Requests -> Channels \cup {NoChannel}]
      /\ queue' \in Int /\ queued' \in [Requests -> BOOLEAN]
  BY ReleaseSlotTypes, ReleaseQueueTypes DEF EndEarly
<1>2. cands' \in [Requests -> Seq(Channels)]
  BY ForgetCandidatesTypes DEF EndEarly
<1>3. /\ pc' \in [Requests -> PC]
      /\ dropped' \in [Requests -> {"no", "client", "panic"}]
  BY DEF Types, EndEarly, Goto, PC
<1>4. UNCHANGED <<logs, task, body>>
  BY DEF EndEarly, afterwards
<1>5. QED
  BY <1>1, <1>2, <1>3, <1>4 DEF Types

\* The types of the control state, step by step.
LEMMA TypesStep ==
    Types /\ RequestsOK /\ [Next]_vars => Types'
<1> SUFFICES ASSUME Types, RequestsOK, [Next]_vars
             PROVE  Types'
  OBVIOUS
<1> USE RelayAssumption DEF shared, handler, afterwards, Goto, At, Types,
      PC, AttemptPC, Task
<1>1. ASSUME NEW r \in Requests, EnterQueue(r)
      PROVE  Types'
  BY <1>1 DEF EnterQueue
<1>2. ASSUME NEW r \in Requests, QueueTimeout(r)
      PROVE  Types'
  BY <1>2 DEF QueueTimeout
<1>3. ASSUME NEW r \in Requests, BuildCandidates(r)
      PROVE  Types'
  BY <1>3, ListsAreSequences DEF BuildCandidates
<1>4. ASSUME NEW r \in Requests, OutOfCandidates(r)
      PROVE  Types'
  BY <1>4 DEF OutOfCandidates
<1>5. ASSUME NEW r \in Requests, CheckChannel(r)
      PROVE  Types'
  <2>1. Tail(cands[r]) \in Seq(Channels)
    BY <1>5, HeadAndTail DEF CheckChannel
  <2>2. QED
    BY <1>5, <2>1 DEF CheckChannel
<1>6. ASSUME NEW r \in Requests, TakeSlot(r)
      PROVE  Types'
  BY <1>6, TakeSlotTypes DEF TakeSlot
<1>7. ASSUME NEW r \in Requests, Select(r)
      PROVE  Types'
  BY <1>7 DEF Select, StartPass
<1>8. ASSUME NEW r \in Requests, NoSelection(r)
      PROVE  Types'
  BY <1>8, FailAttemptTypes DEF NoSelection
<1>9. ASSUME NEW r \in Requests, ReportFailure(r)
      PROVE  Types'
  <2>1. Tail(cands[r]) \in Seq(Channels)
    BY <1>9, HeadAndTail DEF ReportFailure, RequestsOK, RequestOK, Trying, StreamOn
  <2>2. QED
    BY <1>9, <2>1, ReleaseSlotTypes DEF ReportFailure
<1>10. ASSUME NEW r \in Requests, CheckKey(r)
      PROVE  Types'
  BY <1>10 DEF CheckKey
<1>11. ASSUME NEW r \in Requests, HalfOpenKey(r)
      PROVE  Types'
  BY <1>11 DEF HalfOpenKey
<1>12. ASSUME NEW r \in Requests, AllOverloaded(r)
      PROVE  Types'
  BY <1>12 DEF AllOverloaded
<1>13. ASSUME NEW r \in Requests, KeysExhausted(r)
      PROVE  Types'
  BY <1>13, FailAttemptTypes DEF KeysExhausted
<1>14. ASSUME NEW r \in Requests, BackOff(r)
      PROVE  Types'
  BY <1>14 DEF BackOff, StartPass
<1>15. ASSUME NEW r \in Requests, SendUpstream(r)
      PROVE  Types'
  BY <1>15 DEF SendUpstream
<1>16. ASSUME NEW r \in Requests, PrepareFails(r)
      PROVE  Types'
  BY <1>16, FailAttemptTypes, ReleaseQueueTypes DEF PrepareFails
<1>17. ASSUME NEW r \in Requests, NEW x \in BOOLEAN, AnswerKeyError(r, x)
      PROVE  Types'
  BY <1>17, EndExecutionTypes DEF AnswerKeyError
<1>18. ASSUME NEW r \in Requests, NEW x \in {"server", "client"}, AnswerError(r, x)
      PROVE  Types'
  BY <1>18, EndExecutionTypes, FailAttemptTypes DEF AnswerError
<1>19. ASSUME NEW r \in Requests, AnswerOk(r)
      PROVE  Types'
  BY <1>19 DEF AnswerOk
<1>20. ASSUME NEW r \in Requests, OpenStream(r)
      PROVE  Types'
  BY <1>20, HeadAndTail DEF OpenStream, ForgetPass, ForgetKeys,
     ForgetCandidates, RequestsOK, RequestOK, Trying, StreamOn
<1>21. ASSUME NEW r \in Requests, NEW x \in BOOLEAN, FinishOk(r, x)
      PROVE  Types'
  <2>1. CASE x
    BY <1>21, <2>1, ReleaseSlotTypes, ForgetCandidatesTypes DEF FinishOk
  <2>2. CASE ~x
    BY <1>21, <2>2, FailAttemptTypes DEF FinishOk
  <2>3. QED
    BY <2>1, <2>2
<1>22. ASSUME NEW r \in Requests, Record(r)
      PROVE  Types'
  BY <1>22, ReleaseQueueTypes DEF Record
<1>23. ASSUME NEW r \in Requests, NEW x \in BOOLEAN, StreamEnds(r, x)
      PROVE  Types'
  BY <1>23 DEF StreamEnds
<1>24. ASSUME NEW r \in Requests, RestoreStreamKey(r)
      PROVE  Types'
  BY <1>24 DEF RestoreStreamKey
<1>25. ASSUME NEW r \in Requests, RecordStream(r)
      PROVE  Types'
  BY <1>25, ReleaseQueueTypes DEF RecordStream, ForgetKeys, ForgetCandidates
<1>26. ASSUME NEW r \in Requests, Disconnect(r)
      PROVE  Types'
  BY <1>26, EndEarlyTypes DEF Disconnect
<1>27. ASSUME NEW r \in Requests, AnswerPanics(r)
      PROVE  Types'
  BY <1>27, EndEarlyTypes DEF AnswerPanics
<1>28. ASSUME NEW r \in Requests, StreamPanics(r)
      PROVE  Types'
  BY <1>28, ReleaseQueueTypes DEF StreamPanics, ForgetKeys, ForgetCandidates
<1>29. ASSUME NEW r \in Requests, CloseBody(r)
      PROVE  Types'
  BY <1>29, ReleaseSlotTypes DEF CloseBody
<1>30. CASE Background
  BY <1>30 DEF Background, Probe, CleanupBlacklists, Tick
<1>31. CASE UNCHANGED vars
  BY <1>31 DEF vars
<1>32. QED
  BY <1>1, <1>2, <1>3, <1>4, <1>5, <1>6, <1>7, <1>8, <1>9, <1>10,
     <1>11, <1>12, <1>13, <1>14, <1>15, <1>16, <1>17, <1>18, <1>19,
     <1>20, <1>21, <1>22, <1>23, <1>24, <1>25, <1>26, <1>27, <1>28,
     <1>29, <1>30, <1>31
  DEF Next, HandlerStep, TaskStep, EarlyEnd

\* RequestOK, step by step.
LEMMA RequestsStep ==
    Types /\ RequestsOK /\ [Next]_vars => RequestsOK'
<1> SUFFICES ASSUME Types, RequestsOK, [Next]_vars
             PROVE  RequestsOK'
  OBVIOUS
<1> USE RelayAssumption DEF shared, handler, afterwards, Goto, At, Types,
      RequestsOK, RequestOK, Trying, StreamOn, AttemptPC, Task
<1>1. ASSUME NEW r \in Requests, EnterQueue(r)
      PROVE  RequestsOK'
  BY <1>1 DEF EnterQueue
<1>2. ASSUME NEW r \in Requests, QueueTimeout(r)
      PROVE  RequestsOK'
  BY <1>2 DEF QueueTimeout
<1>3. ASSUME NEW r \in Requests, BuildCandidates(r)
      PROVE  RequestsOK'
  BY <1>3 DEF BuildCandidates
<1>4. ASSUME NEW r \in Requests, OutOfCandidates(r)
      PROVE  RequestsOK'
  BY <1>4 DEF OutOfCandidates
<1>5. ASSUME NEW r \in Requests, CheckChannel(r)
      PROVE  RequestsOK'
  <2>1. /\ pc[r] = "select" /\ task[r] = "none" /\ cands[r] # <<>>
        /\ UNCHANGED <<permit, queued, logs, task, body, dropped>>
    BY <1>5 DEF CheckChannel
  <2>2. CASE pc' = [pc EXCEPT ![r] = "acquire"] /\ cands' = cands
    BY <2>1, <2>2
  <2>3. CASE pc' = pc /\ cands' = [cands EXCEPT ![r] = Tail(@)]
    BY <2>1, <2>3
  <2>4. QED
    BY <1>5, <2>2, <2>3 DEF CheckChannel
<1>6. ASSUME NEW r \in Requests, TakeSlot(r)
      PROVE  RequestsOK'
  BY <1>6 DEF TakeSlot
<1>7. ASSUME NEW r \in Requests, Select(r)
      PROVE  RequestsOK'
  BY <1>7 DEF Select, StartPass
<1>8. ASSUME NEW r \in Requests, NoSelection(r)
      PROVE  RequestsOK'
  BY <1>8 DEF NoSelection, FailAttempt, ReleaseSlot, ForgetPass, ForgetKeys,
     ForgetCandidates
<1>9. ASSUME NEW r \in Requests, ReportFailure(r)
      PROVE  RequestsOK'
  BY <1>9 DEF ReportFailure, ReleaseSlot
<1>10. ASSUME NEW r \in Requests, CheckKey(r)
      PROVE  RequestsOK'
  <2>1. /\ pc[r] = "keys" /\ UNCHANGED <<cands, permit, queued, logs, task, body,
                                        dropped>>
        /\ \/ pc' = pc
           \/ pc' = [pc EXCEPT ![r] = "upgrade"]
           \/ pc' = [pc EXCEPT ![r] = "prepare"]
    BY <1>10 DEF CheckKey
  <2>2. CASE pc' = pc
    BY <2>1, <2>2
  <2>3. CASE \E l \in {"upgrade", "prepare"} : pc' = [pc EXCEPT ![r] = l]
    BY <2>1, <2>3
  <2>4. QED
    BY <2>1, <2>2, <2>3
<1>11. ASSUME NEW r \in Requests, HalfOpenKey(r)
      PROVE  RequestsOK'
  BY <1>11 DEF HalfOpenKey
<1>12. ASSUME NEW r \in Requests, AllOverloaded(r)
      PROVE  RequestsOK'
  BY <1>12 DEF AllOverloaded
<1>13. ASSUME NEW r \in Requests, KeysExhausted(r)
      PROVE  RequestsOK'
  BY <1>13 DEF KeysExhausted, FailAttempt, ReleaseSlot, ForgetPass,
     ForgetKeys, ForgetCandidates
<1>14. ASSUME NEW r \in Requests, BackOff(r)
      PROVE  RequestsOK'
  BY <1>14 DEF BackOff, StartPass
<1>15. ASSUME NEW r \in Requests, SendUpstream(r)
      PROVE  RequestsOK'
  BY <1>15 DEF SendUpstream
<1>16. ASSUME NEW r \in Requests, PrepareFails(r)
      PROVE  RequestsOK'
  BY <1>16 DEF PrepareFails, FailAttempt, ReleaseQueue, ReleaseSlot,
     ForgetPass, ForgetKeys, ForgetCandidates
<1>17. ASSUME NEW r \in Requests, NEW x \in BOOLEAN, AnswerKeyError(r, x)
      PROVE  RequestsOK'
  BY <1>17 DEF AnswerKeyError, EndExecution, ReleaseQueue
<1>18. ASSUME NEW r \in Requests, NEW x \in {"server", "client"}, AnswerError(r, x)
      PROVE  RequestsOK'
  BY <1>18 DEF AnswerError, EndExecution, ReleaseQueue, FailAttempt,
     ReleaseSlot, ForgetPass, ForgetKeys, ForgetCandidates
<1>19. ASSUME NEW r \in Requests, AnswerOk(r)
      PROVE  RequestsOK'
  BY <1>19 DEF AnswerOk
<1>20. ASSUME NEW r \in Requests, OpenStream(r)
      PROVE  RequestsOK'
  BY <1>20 DEF OpenStream, ForgetPass, ForgetKeys, ForgetCandidates
<1>21. ASSUME NEW r \in Requests, NEW x \in BOOLEAN, FinishOk(r, x)
      PROVE  RequestsOK'
  <2>1. pc[r] = "restore" /\ UNCHANGED <<queued, logs, task, body, dropped>>
    BY <1>21 DEF FinishOk
  <2>2. CASE x
    <3>1. /\ pc' = [pc EXCEPT ![r] = "answered"]
          /\ permit' = [permit EXCEPT ![r] = NoChannel]
          /\ cands' = [cands EXCEPT ![r] = <<>>]
      BY <1>21, <2>2 DEF FinishOk, ReleaseSlot, ForgetCandidates
    <3>2. QED
      BY <2>1, <3>1
  <2>3. CASE ~x
    BY <1>21, <2>1, <2>3 DEF FinishOk, FailAttempt, ReleaseSlot, ForgetPass,
       ForgetKeys, ForgetCandidates
  <2>4. QED
    BY <2>2, <2>3
<1>22. ASSUME NEW r \in Requests, Record(r)
      PROVE  RequestsOK'
  BY <1>22 DEF Record, ReleaseQueue
<1>23. ASSUME NEW r \in Requests, NEW x \in BOOLEAN, StreamEnds(r, x)
      PROVE  RequestsOK'
  BY <1>23 DEF StreamEnds
<1>24. ASSUME NEW r \in Requests, RestoreStreamKey(r)
      PROVE  RequestsOK'
  BY <1>24 DEF RestoreStreamKey
<1>25. ASSUME NEW r \in Requests, RecordStream(r)
      PROVE  RequestsOK'
  BY <1>25 DEF RecordStream, ReleaseQueue, ForgetPass, ForgetKeys,
     ForgetCandidates
<1>26. ASSUME NEW r \in Requests, Disconnect(r)
      PROVE  RequestsOK'
  BY <1>26 DEF Disconnect, EndEarly, ReleaseSlot, ReleaseQueue, ForgetPass,
     ForgetKeys, ForgetCandidates
<1>27. ASSUME NEW r \in Requests, AnswerPanics(r)
      PROVE  RequestsOK'
  BY <1>27 DEF AnswerPanics, EndEarly, ReleaseSlot, ReleaseQueue,
     ForgetPass, ForgetKeys, ForgetCandidates
<1>28. ASSUME NEW r \in Requests, StreamPanics(r)
      PROVE  RequestsOK'
  BY <1>28 DEF StreamPanics, ReleaseQueue, ForgetPass, ForgetKeys,
     ForgetCandidates
<1>29. ASSUME NEW r \in Requests, CloseBody(r)
      PROVE  RequestsOK'
  BY <1>29 DEF CloseBody, ReleaseSlot
<1>30. CASE Background
  <2>1. UNCHANGED <<handler, afterwards, dropped>>
    BY <1>30 DEF Background, Probe, CleanupBlacklists, Tick
  <2>2. QED
    BY <2>1
<1>31. CASE UNCHANGED vars
  BY <1>31 DEF vars
<1> HIDE RelayAssumption DEF shared, handler, afterwards, Goto, At, Types,
      RequestsOK, RequestOK, Trying, StreamOn, AttemptPC, Task
<1>32. QED
  BY <1>1, <1>2, <1>3, <1>4, <1>5, <1>6, <1>7, <1>8, <1>9, <1>10,
     <1>11, <1>12, <1>13, <1>14, <1>15, <1>16, <1>17, <1>18, <1>19,
     <1>20, <1>21, <1>22, <1>23, <1>24, <1>25, <1>26, <1>27, <1>28,
     <1>29, <1>30, <1>31
  DEF Next, HandlerStep, TaskStep, EarlyEnd

\* Every step is one of the kinds above.
LEMMA StepsClassified ==
    Types /\ RequestsOK /\ [Next]_vars => SlotsStep /\ QueueStep
<1> SUFFICES ASSUME Types, RequestsOK, [Next]_vars
             PROVE  SlotsStep /\ QueueStep
  OBVIOUS
<1> USE RelayAssumption DEF shared, handler, afterwards, Goto, At,
      SlotsStep, QueueStep
<1>1. ASSUME NEW r \in Requests, EnterQueue(r)
      PROVE  SlotsStep /\ QueueStep
  BY <1>1 DEF EnterQueue, QueueTaken, Types, RequestsOK, RequestOK, Trying, StreamOn
<1>2. ASSUME NEW r \in Requests, QueueTimeout(r)
      PROVE  SlotsStep /\ QueueStep
  BY <1>2 DEF QueueTimeout
<1>3. ASSUME NEW r \in Requests, BuildCandidates(r)
      PROVE  SlotsStep /\ QueueStep
  BY <1>3 DEF BuildCandidates
<1>4. ASSUME NEW r \in Requests, OutOfCandidates(r)
      PROVE  SlotsStep /\ QueueStep
  BY <1>4 DEF OutOfCandidates
<1>5. ASSUME NEW r \in Requests, CheckChannel(r)
      PROVE  SlotsStep /\ QueueStep
  BY <1>5 DEF CheckChannel
<1>6. ASSUME NEW r \in Requests, TakeSlot(r)
      PROVE  SlotsStep /\ QueueStep
  BY <1>6, HeadAndTail DEF TakeSlot, SlotTaken, Current, Types, AttemptPC,
     RequestsOK, RequestOK, Trying, StreamOn
<1>7. ASSUME NEW r \in Requests, Select(r)
      PROVE  SlotsStep /\ QueueStep
  BY <1>7 DEF Select, StartPass
<1>8. ASSUME NEW r \in Requests, NoSelection(r)
      PROVE  SlotsStep /\ QueueStep
  BY <1>8 DEF NoSelection, FailAttempt, ReleaseSlot, ForgetPass, ForgetKeys,
     ForgetCandidates
<1>9. ASSUME NEW r \in Requests, ReportFailure(r)
      PROVE  SlotsStep /\ QueueStep
  BY <1>9 DEF ReportFailure, ReleaseSlot
<1>10. ASSUME NEW r \in Requests, CheckKey(r)
      PROVE  SlotsStep /\ QueueStep
  BY <1>10 DEF CheckKey
<1>11. ASSUME NEW r \in Requests, HalfOpenKey(r)
      PROVE  SlotsStep /\ QueueStep
  BY <1>11 DEF HalfOpenKey
<1>12. ASSUME NEW r \in Requests, AllOverloaded(r)
      PROVE  SlotsStep /\ QueueStep
  BY <1>12 DEF AllOverloaded
<1>13. ASSUME NEW r \in Requests, KeysExhausted(r)
      PROVE  SlotsStep /\ QueueStep
  BY <1>13 DEF KeysExhausted, FailAttempt, ReleaseSlot, ForgetPass,
     ForgetKeys, ForgetCandidates
<1>14. ASSUME NEW r \in Requests, BackOff(r)
      PROVE  SlotsStep /\ QueueStep
  BY <1>14 DEF BackOff, StartPass
<1>15. ASSUME NEW r \in Requests, SendUpstream(r)
      PROVE  SlotsStep /\ QueueStep
  BY <1>15 DEF SendUpstream
<1>16. ASSUME NEW r \in Requests, PrepareFails(r)
      PROVE  SlotsStep /\ QueueStep
  BY <1>16 DEF PrepareFails, FailAttempt, ReleaseQueue, ReleaseSlot,
     ForgetPass, ForgetKeys, ForgetCandidates
<1>17. ASSUME NEW r \in Requests, NEW x \in BOOLEAN, AnswerKeyError(r, x)
      PROVE  SlotsStep /\ QueueStep
  BY <1>17 DEF AnswerKeyError, EndExecution, ReleaseQueue
<1>18. ASSUME NEW r \in Requests, NEW x \in {"server", "client"}, AnswerError(r, x)
      PROVE  SlotsStep /\ QueueStep
  BY <1>18 DEF AnswerError, EndExecution, ReleaseQueue, FailAttempt,
     ReleaseSlot, ForgetPass, ForgetKeys, ForgetCandidates
<1>19. ASSUME NEW r \in Requests, AnswerOk(r)
      PROVE  SlotsStep /\ QueueStep
  BY <1>19 DEF AnswerOk
<1>20. ASSUME NEW r \in Requests, OpenStream(r)
      PROVE  SlotsStep /\ QueueStep
  BY <1>20 DEF OpenStream, ForgetPass, ForgetKeys, ForgetCandidates
<1>21. ASSUME NEW r \in Requests, NEW x \in BOOLEAN, FinishOk(r, x)
      PROVE  SlotsStep /\ QueueStep
  BY <1>21 DEF FinishOk, FailAttempt, ReleaseSlot, ForgetPass, ForgetKeys,
     ForgetCandidates
<1>22. ASSUME NEW r \in Requests, Record(r)
      PROVE  SlotsStep /\ QueueStep
  BY <1>22 DEF Record, ReleaseQueue
<1>23. ASSUME NEW r \in Requests, NEW x \in BOOLEAN, StreamEnds(r, x)
      PROVE  SlotsStep /\ QueueStep
  BY <1>23 DEF StreamEnds
<1>24. ASSUME NEW r \in Requests, RestoreStreamKey(r)
      PROVE  SlotsStep /\ QueueStep
  BY <1>24 DEF RestoreStreamKey
<1>25. ASSUME NEW r \in Requests, RecordStream(r)
      PROVE  SlotsStep /\ QueueStep
  BY <1>25 DEF RecordStream, ReleaseQueue, ForgetPass, ForgetKeys,
     ForgetCandidates
<1>26. ASSUME NEW r \in Requests, Disconnect(r)
      PROVE  SlotsStep /\ QueueStep
  BY <1>26 DEF Disconnect, EndEarly, ReleaseSlot, ReleaseQueue, ForgetPass,
     ForgetKeys, ForgetCandidates
<1>27. ASSUME NEW r \in Requests, AnswerPanics(r)
      PROVE  SlotsStep /\ QueueStep
  BY <1>27 DEF AnswerPanics, EndEarly, ReleaseSlot, ReleaseQueue,
     ForgetPass, ForgetKeys, ForgetCandidates
<1>28. ASSUME NEW r \in Requests, StreamPanics(r)
      PROVE  SlotsStep /\ QueueStep
  BY <1>28 DEF StreamPanics, ReleaseQueue, ForgetPass, ForgetKeys,
     ForgetCandidates
<1>29. ASSUME NEW r \in Requests, CloseBody(r)
      PROVE  SlotsStep /\ QueueStep
  BY <1>29 DEF CloseBody, ReleaseSlot
<1>30. CASE Background
  BY <1>30 DEF Background, Probe, CleanupBlacklists, Tick
<1>31. CASE UNCHANGED vars
  BY <1>31 DEF vars
<1> HIDE RelayAssumption DEF shared, handler, afterwards, Goto, At,
      SlotsStep, QueueStep
<1>32. QED
  BY <1>1, <1>2, <1>3, <1>4, <1>5, <1>6, <1>7, <1>8, <1>9, <1>10,
     <1>11, <1>12, <1>13, <1>14, <1>15, <1>16, <1>17, <1>18, <1>19,
     <1>20, <1>21, <1>22, <1>23, <1>24, <1>25, <1>26, <1>27, <1>28,
     <1>29, <1>30, <1>31
  DEF Next, HandlerStep, TaskStep, EarlyEnd

-----------------------------------------------------------------------------

\* A slot taken or given back leaves the counter of every channel equal to
\* the number of its holders, and within the limit.
LEMMA SlotsKept ==
    ASSUME Types, SlotsAccounted, SlotsStep
    PROVE  SlotsAccounted'
<1>1. \A c \in Channels : IsFiniteSet(Holders(c))
  BY RelayAssumption, FS_Subset DEF Holders
<1>2. CASE UNCHANGED <<slots, permit>>
  BY <1>2 DEF SlotsAccounted, Holders
<1>3. ASSUME NEW r \in Requests, ReleaseSlot(r)
      PROVE  SlotsAccounted'
  <2>1. CASE permit[r] = NoChannel
    <3>1. UNCHANGED <<slots, permit>>
      BY <1>3, <2>1 DEF ReleaseSlot, Types
    <3>2. QED
      BY <3>1 DEF SlotsAccounted, Holders
  <2>2. CASE permit[r] # NoChannel
    <3> SUFFICES ASSUME NEW c \in Channels
                 PROVE  /\ slots'[c] = Cardinality(Holders(c)')
                        /\ slots'[c] <= MaxConcurrency[c]
      BY DEF SlotsAccounted
    <3> DEFINE d == permit[r]
    <3>1. d \in Channels /\ d # NoChannel
      BY <2>2, RelayAssumption DEF Types
    <3>2. permit' = [permit EXCEPT ![r] = NoChannel]
          /\ slots' = [slots EXCEPT ![d] = @ - 1]
      BY <1>3, <2>2 DEF ReleaseSlot
    <3>3. slots[c] = Cardinality(Holders(c)) /\ slots[c] <= MaxConcurrency[c]
      BY DEF SlotsAccounted
    <3>4. CASE c = d
      <4>1. Holders(c)' = Holders(c) \ {r} /\ r \in Holders(c)
        BY <3>1, <3>2, <3>4 DEF Holders, Types
      <4>2. Cardinality(Holders(c)') = Cardinality(Holders(c)) - 1
        BY <1>1, <4>1, FS_RemoveElement
      <4>3. slots'[c] = slots[c] - 1
        BY <3>2, <3>4 DEF Types
      <4>4. QED
        BY <3>3, <4>2, <4>3, RelayAssumption DEF Types
    <3>5. CASE c # d
      <4>1. Holders(c)' = Holders(c)
        BY <3>1, <3>2, <3>5, RelayAssumption DEF Holders, Types
      <4>2. slots'[c] = slots[c]
        BY <3>2, <3>5 DEF Types
      <4>3. QED
        BY <3>3, <4>1, <4>2
    <3>6. QED
      BY <3>4, <3>5
  <2>3. QED
    BY <2>1, <2>2
<1>4. ASSUME NEW r \in Requests, NEW d \in Channels, SlotTaken(r, d)
      PROVE  SlotsAccounted'
  <2> SUFFICES ASSUME NEW c \in Channels
               PROVE  /\ slots'[c] = Cardinality(Holders(c)')
                      /\ slots'[c] <= MaxConcurrency[c]
    BY DEF SlotsAccounted
  <2>1. slots[c] = Cardinality(Holders(c)) /\ slots[c] <= MaxConcurrency[c]
    BY DEF SlotsAccounted
  <2>2. CASE c = d
    <3>1. Holders(c)' = Holders(c) \cup {r} /\ r \notin Holders(c)
      BY <1>4, <2>2, RelayAssumption DEF SlotTaken, Holders, Types
    <3>2. Cardinality(Holders(c)') = Cardinality(Holders(c)) + 1
      BY <1>1, <3>1, FS_AddElement
    <3>3. slots'[c] = slots[c] + 1 /\ slots[c] < MaxConcurrency[c]
      BY <1>4, <2>2 DEF SlotTaken, Types
    <3>4. QED
      BY <2>1, <3>2, <3>3, RelayAssumption DEF Types
  <2>3. CASE c # d
    <3>1. Holders(c)' = Holders(c)
      BY <1>4, <2>3, RelayAssumption DEF SlotTaken, Holders, Types
    <3>2. slots'[c] = slots[c]
      BY <1>4, <2>3 DEF SlotTaken, Types
    <3>3. QED
      BY <2>1, <3>1, <3>2
  <2>4. QED
    BY <2>2, <2>3
<1>5. QED
  BY <1>2, <1>3, <1>4 DEF SlotsStep

\* The same for the permits of the queue.
LEMMA QueueKept ==
    ASSUME Types, QueueAccounted, QueueStep
    PROVE  QueueAccounted'
<1>1. IsFiniteSet(Queued) /\ Cardinality(Queued) \in Nat
  BY RelayAssumption, FS_Subset, FS_CardinalityType DEF Queued
<1>2. CASE UNCHANGED <<queue, queued>>
  BY <1>2 DEF QueueAccounted, Queued
<1>3. ASSUME NEW r \in Requests, ReleaseQueue(r)
      PROVE  QueueAccounted'
  <2>1. CASE queued[r]
    <3>1. Queued' = Queued \ {r} /\ r \in Queued
      BY <1>3, <2>1 DEF ReleaseQueue, Queued, Types
    <3>2. Cardinality(Queued') = Cardinality(Queued) - 1
      BY <1>1, <3>1, FS_RemoveElement
    <3>3. queue' = queue + 1
      BY <1>3, <2>1 DEF ReleaseQueue
    <3>4. QED
      BY <1>1, <3>2, <3>3, RelayAssumption DEF QueueAccounted, Types
  <2>2. CASE ~queued[r]
    <3>1. Queued' = Queued /\ queue' = queue
      BY <1>3, <2>2 DEF ReleaseQueue, Queued, Types
    <3>2. QED
      BY <3>1 DEF QueueAccounted
  <2>3. QED
    BY <2>1, <2>2
<1>4. ASSUME NEW r \in Requests, QueueTaken(r)
      PROVE  QueueAccounted'
  <2>1. Queued' = Queued \cup {r} /\ r \notin Queued
    BY <1>4 DEF QueueTaken, Queued, Types
  <2>2. Cardinality(Queued') = Cardinality(Queued) + 1
    BY <1>1, <2>1, FS_AddElement
  <2>3. queue' = queue - 1 /\ queue > 0
    BY <1>4 DEF QueueTaken
  <2>4. QED
    BY <1>1, <2>2, <2>3, RelayAssumption DEF QueueAccounted, Types
<1>5. QED
  BY <1>2, <1>3, <1>4 DEF QueueStep

-----------------------------------------------------------------------------

\* Where the request's work at an upstream is counted, until it is booked off.
Counted(r) == IF pc[r] \in {"upstream", "restore"} \/ StreamOn(r)
              THEN Current(r) ELSE NoChannel

\* What one step may do to active_requests: nothing, with work that is over or
\* not; book a request's work off; or count one more request, its own.
WorkStep ==
    \/ /\ inflight' = inflight
       /\ \A q \in Requests : Counted(q)' \in {Counted(q), NoChannel}
    \/ \E r \in Requests :
         /\ Counted(r) \in Channels /\ Counted(r)' = NoChannel
         /\ inflight' = [inflight EXCEPT ![Counted(r)] = @ - 1]
         /\ \A q \in Requests \ {r} : Counted(q)' = Counted(q)
    \/ \E r \in Requests, c \in Channels :
         /\ Counted(r) = NoChannel /\ Counted(r)' \in {NoChannel, c}
         /\ inflight' = [inflight EXCEPT ![c] = @ + 1]
         /\ \A q \in Requests \ {r} : Counted(q)' = Counted(q)

LEMMA WorkClassified ==
    Types /\ RequestsOK /\ [Next]_vars => WorkStep
<1> SUFFICES ASSUME Types, RequestsOK, [Next]_vars
             PROVE  WorkStep
  OBVIOUS
<1>0. \A r \in Requests :
          /\ Trying(r) \/ StreamOn(r) => Current(r) \in Channels
          /\ pc[r] # "done" => ~StreamOn(r)
  BY HeadAndTail DEF Current, Types, RequestsOK, RequestOK, StreamOn
<1> USE RelayAssumption, <1>0 DEF shared, handler, afterwards, Goto, At,
      WorkStep, Counted, Current, Types, Trying, StreamOn, AttemptPC
<1>1. ASSUME NEW r \in Requests, EnterQueue(r)
      PROVE  WorkStep
  BY <1>1 DEF EnterQueue
<1>2. ASSUME NEW r \in Requests, QueueTimeout(r)
      PROVE  WorkStep
  BY <1>2 DEF QueueTimeout
<1>3. ASSUME NEW r \in Requests, BuildCandidates(r)
      PROVE  WorkStep
  BY <1>3 DEF BuildCandidates
<1>4. ASSUME NEW r \in Requests, OutOfCandidates(r)
      PROVE  WorkStep
  BY <1>4 DEF OutOfCandidates
<1>5. ASSUME NEW r \in Requests, CheckChannel(r)
      PROVE  WorkStep
  BY <1>5 DEF CheckChannel
<1>6. ASSUME NEW r \in Requests, TakeSlot(r)
      PROVE  WorkStep
  BY <1>6 DEF TakeSlot
<1>7. ASSUME NEW r \in Requests, Select(r)
      PROVE  WorkStep
  BY <1>7 DEF Select, StartPass
<1>8. ASSUME NEW r \in Requests, NoSelection(r)
      PROVE  WorkStep
  BY <1>8 DEF NoSelection, FailAttempt
<1>9. ASSUME NEW r \in Requests, ReportFailure(r)
      PROVE  WorkStep
  BY <1>9 DEF ReportFailure
<1>10. ASSUME NEW r \in Requests, CheckKey(r)
      PROVE  WorkStep
  BY <1>10 DEF CheckKey
<1>11. ASSUME NEW r \in Requests, HalfOpenKey(r)
      PROVE  WorkStep
  BY <1>11 DEF HalfOpenKey
<1>12. ASSUME NEW r \in Requests, AllOverloaded(r)
      PROVE  WorkStep
  BY <1>12 DEF AllOverloaded
<1>13. ASSUME NEW r \in Requests, KeysExhausted(r)
      PROVE  WorkStep
  BY <1>13 DEF KeysExhausted, FailAttempt
<1>14. ASSUME NEW r \in Requests, BackOff(r)
      PROVE  WorkStep
  BY <1>14 DEF BackOff, StartPass
<1>15. ASSUME NEW r \in Requests, SendUpstream(r)
      PROVE  WorkStep
  <2>1. /\ Current(r) \in Channels /\ Counted(r) = NoChannel
        /\ inflight' = [inflight EXCEPT ![Current(r)] = @ + 1]
    BY <1>15 DEF SendUpstream
  <2>2. Counted(r)' = Current(r) /\ \A q \in Requests \ {r} : Counted(q)' = Counted(q)
    BY <1>15 DEF SendUpstream
  <2>3. QED
    BY <2>1, <2>2
<1>16. ASSUME NEW r \in Requests, PrepareFails(r)
      PROVE  WorkStep
  BY <1>16 DEF PrepareFails, FailAttempt
<1>17. ASSUME NEW r \in Requests, NEW x \in BOOLEAN, AnswerKeyError(r, x)
      PROVE  WorkStep
  BY <1>17 DEF AnswerKeyError, EndExecution
<1>18. ASSUME NEW r \in Requests, NEW x \in {"server", "client"}, AnswerError(r, x)
      PROVE  WorkStep
  BY <1>18 DEF AnswerError, EndExecution, FailAttempt
<1>19. ASSUME NEW r \in Requests, AnswerOk(r)
      PROVE  WorkStep
  BY <1>19 DEF AnswerOk
<1>20. ASSUME NEW r \in Requests, OpenStream(r)
      PROVE  WorkStep
  BY <1>20 DEF OpenStream
<1>21. ASSUME NEW r \in Requests, NEW x \in BOOLEAN, FinishOk(r, x)
      PROVE  WorkStep
  <2>1. /\ Counted(r) = Current(r) /\ Current(r) \in Channels
        /\ inflight' = [inflight EXCEPT ![Current(r)] = @ - 1]
    BY <1>21 DEF FinishOk
  <2>2. pc' = [pc EXCEPT ![r] = "answered"] \/ pc' = [pc EXCEPT ![r] = "feedback"]
    BY <1>21 DEF FinishOk, FailAttempt
  <2>3. cands' = cands \/ cands' = [cands EXCEPT ![r] = <<>>]
    BY <1>21 DEF FinishOk, ForgetCandidates
  <2>4. ~StreamOn(r) /\ task' = task
    BY <1>21 DEF FinishOk
  <2>5. Counted(r)' = NoChannel /\ \A q \in Requests \ {r} : Counted(q)' = Counted(q)
    BY <2>2, <2>3, <2>4
  <2>6. QED
    BY <2>1, <2>5
<1>22. ASSUME NEW r \in Requests, Record(r)
      PROVE  WorkStep
  BY <1>22 DEF Record
<1>23. ASSUME NEW r \in Requests, NEW x \in BOOLEAN, StreamEnds(r, x)
      PROVE  WorkStep
  BY <1>23 DEF StreamEnds
<1>24. ASSUME NEW r \in Requests, RestoreStreamKey(r)
      PROVE  WorkStep
  BY <1>24 DEF RestoreStreamKey
<1>25. ASSUME NEW r \in Requests, RecordStream(r)
      PROVE  WorkStep
  BY <1>25 DEF RecordStream, ForgetCandidates
<1>26. ASSUME NEW r \in Requests, Disconnect(r)
      PROVE  WorkStep
  BY <1>26 DEF Disconnect, EndEarly, ForgetCandidates
<1>27. ASSUME NEW r \in Requests, AnswerPanics(r)
      PROVE  WorkStep
  BY <1>27 DEF AnswerPanics, EndEarly, ForgetCandidates
<1>28. ASSUME NEW r \in Requests, StreamPanics(r)
      PROVE  WorkStep
  BY <1>28 DEF StreamPanics, ForgetCandidates
<1>29. ASSUME NEW r \in Requests, CloseBody(r)
      PROVE  WorkStep
  BY <1>29 DEF CloseBody
<1>30. CASE Background
  BY <1>30 DEF Background, Probe, CleanupBlacklists, Tick
<1>31. CASE UNCHANGED vars
  BY <1>31 DEF vars
<1> HIDE <1>0 DEF shared, handler, afterwards, Goto, At, WorkStep, Counted, Current,
           Types, Trying, StreamOn, AttemptPC
<1>32. QED
  BY <1>1, <1>2, <1>3, <1>4, <1>5, <1>6, <1>7, <1>8, <1>9, <1>10,
     <1>11, <1>12, <1>13, <1>14, <1>15, <1>16, <1>17, <1>18, <1>19,
     <1>20, <1>21, <1>22, <1>23, <1>24, <1>25, <1>26, <1>27, <1>28,
     <1>29, <1>30, <1>31
  DEF Next, HandlerStep, TaskStep, EarlyEnd

WorkOn(c) == {r \in Requests : Counted(r) = c}

WorkCovered ==
    /\ inflight \in [Channels -> Int]
    /\ \A c \in Channels : inflight[c] >= Cardinality(WorkOn(c))

\* Booking a request's work off takes the request from its channel's work, and
\* no step adds work that is not counted.
LEMMA WorkKept ==
    ASSUME Types, WorkCovered, WorkStep
    PROVE  WorkCovered'
<1>1. \A c \in Channels : IsFiniteSet(WorkOn(c)) /\ Cardinality(WorkOn(c)) \in Nat
  BY RelayAssumption, FS_Subset, FS_CardinalityType DEF WorkOn
<1>2. inflight' \in [Channels -> Int]
  BY DEF WorkStep, WorkCovered
<1>3. SUFFICES ASSUME NEW c \in Channels
               PROVE  inflight'[c] >= Cardinality(WorkOn(c)')
  BY <1>2 DEF WorkCovered
<1>4. inflight[c] >= Cardinality(WorkOn(c)) /\ inflight[c] \in Int
  BY DEF WorkCovered
<1>5. CASE /\ inflight' = inflight
           /\ \A q \in Requests : Counted(q)' \in {Counted(q), NoChannel}
  <2>1. WorkOn(c)' \subseteq WorkOn(c)
    BY <1>5, RelayAssumption DEF WorkOn
  <2>2. Cardinality(WorkOn(c)') \in Nat /\ Cardinality(WorkOn(c)') <= Cardinality(WorkOn(c))
    BY <1>1, <2>1, FS_Subset, FS_CardinalityType
  <2>3. QED
    BY <1>1, <1>4, <1>5, <2>2
<1>6. ASSUME NEW r \in Requests,
             Counted(r) \in Channels, Counted(r)' = NoChannel,
             inflight' = [inflight EXCEPT ![Counted(r)] = @ - 1],
             \A q \in Requests \ {r} : Counted(q)' = Counted(q)
      PROVE  inflight'[c] >= Cardinality(WorkOn(c)')
  <2>1. CASE c = Counted(r)
    <3>1. WorkOn(c)' = WorkOn(c) \ {r} /\ r \in WorkOn(c)
      BY <1>6, <2>1, RelayAssumption DEF WorkOn
    <3>2. Cardinality(WorkOn(c)') = Cardinality(WorkOn(c)) - 1
      BY <1>1, <3>1, FS_RemoveElement
    <3>3. inflight'[c] = inflight[c] - 1
      BY <1>6, <2>1 DEF WorkCovered
    <3>4. QED
      BY <1>1, <1>4, <3>2, <3>3
  <2>2. CASE c # Counted(r)
    <3>1. WorkOn(c)' = WorkOn(c)
      BY <1>6, <2>2, RelayAssumption DEF WorkOn
    <3>2. inflight'[c] = inflight[c]
      BY <1>6, <2>2 DEF WorkCovered
    <3>3. QED
      BY <1>4, <3>1, <3>2
  <2>3. QED
    BY <2>1, <2>2
<1>7. ASSUME NEW r \in Requests, NEW d \in Channels,
             Counted(r) = NoChannel, Counted(r)' \in {NoChannel, d},
             inflight' = [inflight EXCEPT ![d] = @ + 1],
             \A q \in Requests \ {r} : Counted(q)' = Counted(q)
      PROVE  inflight'[c] >= Cardinality(WorkOn(c)')
  <2>1. CASE WorkOn(c)' = WorkOn(c)
    <3>1. inflight'[c] \in {inflight[c], inflight[c] + 1}
      BY <1>7 DEF WorkCovered
    <3>2. QED
      BY <1>1, <1>4, <2>1, <3>1
  <2>2. CASE WorkOn(c)' # WorkOn(c)
    <3>1. c = d /\ WorkOn(c)' = WorkOn(c) \cup {r} /\ r \notin WorkOn(c)
      BY <1>7, <2>2, RelayAssumption DEF WorkOn
    <3>2. Cardinality(WorkOn(c)') = Cardinality(WorkOn(c)) + 1
      BY <1>1, <3>1, FS_AddElement
    <3>3. inflight'[c] = inflight[c] + 1
      BY <1>7, <3>1 DEF WorkCovered
    <3>4. QED
      BY <1>1, <1>4, <3>2, <3>3
  <2>3. QED
    BY <2>1, <2>2
<1>8. QED
  BY <1>5, <1>6, <1>7 DEF WorkStep

-----------------------------------------------------------------------------

\* The operations on a status that never blacklist.
Gentle(h) == {h, Ensured(h), HealthSuccess(h), HealthFailure(h, FALSE),
              BlacklistCleaned(h), HealthAged(h)}

\* The one that does, and when it is called.
ServerErrorReported(c) ==
    \E r \in Requests : /\ pc[r] = "feedback" /\ pc'[r] = "select"
                        /\ Current(r) = c
                        /\ err[r] \in {"server", "exhausted"}

HealthStep ==
    /\ health' = [c \in Channels |-> health'[c]]
    /\ \A c \in Channels :
         \/ health'[c] \in Gentle(health[c])
         \/ /\ health'[c] = HealthFailure(health[c], TRUE)
            /\ ServerErrorReported(c)

HealthOK ==
    /\ health \in [Channels -> Health]
    /\ BlacklistHasFailures

\* A gentle operation keeps the type of a status, the failures under a
\* blacklist, and blacklists nothing.
LEMMA GentleKeeps ==
    ASSUME NEW h \in Health, h.black => h.failures > 0,
           NEW g \in Gentle(h)
    PROVE  g \in Health /\ (g.black => g.failures > 0 /\ h.black)
<1> USE HealthAssumption DEF Health
<1> DEFINE status(known, failures, age, black, left) ==
              [known |-> known, failures |-> failures, age |-> age,
               black |-> black, left |-> left]
<1>0. ASSUME NEW known \in BOOLEAN, NEW failures \in 0..FailureCap, NEW age \in 0..FailureTTL,
             NEW black \in BOOLEAN, NEW left \in 0..BlacklistTicks,
             black => failures > 0 /\ h.black,
             g = status(known, failures, age, black, left)
      PROVE  g \in Health /\ (g.black => g.failures > 0 /\ h.black)
  BY <1>0
<1>1. CASE g = h
  BY <1>1
<1>2. CASE g = Ensured(h)
  <2>1. g = status(TRUE, h.failures, h.age, h.black, h.left)
    BY <1>2 DEF Ensured
  <2>2. QED
    BY <1>0, <2>1
<1>3. CASE g = HealthAged(h)
  <2> DEFINE age == IF h.age < FailureTTL THEN h.age + 1 ELSE h.age
             left == IF h.left > 0 THEN h.left - 1 ELSE h.left
  <2>1. g = status(h.known, h.failures, age, h.black, left)
    BY <1>3 DEF HealthAged
  <2>2. age \in 0..FailureTTL /\ left \in 0..BlacklistTicks
    OBVIOUS
  <2> HIDE DEF age, left
  <2>3. QED
    BY <1>0, <2>1, <2>2
<1>4. CASE g = BlacklistCleaned(h)
  <2>1. g = h \/ g = status(h.known, 0, h.age, FALSE, h.left)
    BY <1>4 DEF BlacklistCleaned
  <2>2. CASE g = status(h.known, 0, h.age, FALSE, h.left)
    <3>1. 0 \in 0..FailureCap /\ FALSE \in BOOLEAN
      OBVIOUS
    <3>2. g.black = FALSE /\ g \in Health
      BY <2>2, <3>1
    <3>3. QED
      BY <3>2
  <2>3. QED
    BY <1>1, <2>1, <2>2
<1>5. CASE g = HealthSuccess(h)
  <2>1. \A n \in Nat : n \div 2 \in Nat /\ n \div 2 <= n
    OBVIOUS
  <2>2. h.failures \div 2 \in 0..FailureCap
    BY <2>1
  <2> DEFINE failures == IF h.age = FailureTTL THEN 0 ELSE h.failures \div 2
             black == h.black /\ failures # 0
  <2>3. failures \in 0..FailureCap
    BY <2>2
  <2>4. g = h \/ g = status(TRUE, failures, h.age, black, IF black THEN h.left ELSE 0)
    BY <1>5 DEF HealthSuccess
  <2>5. black \in BOOLEAN /\ (black => failures > 0 /\ h.black)
    BY <2>3
  <2>6. (IF black THEN h.left ELSE 0) \in 0..BlacklistTicks
    OBVIOUS
  <2> HIDE DEF failures, black
  <2>7. QED
    BY <1>0, <1>1, <2>3, <2>4, <2>5, <2>6
<1>6. CASE g = HealthFailure(h, FALSE)
  BY <1>6 DEF HealthFailure
<1>7. QED
  BY <1>1, <1>2, <1>3, <1>4, <1>5, <1>6, Zenon DEF Gentle

\* A failure that may blacklist keeps both as well.
LEMMA FailureKeeps ==
    ASSUME NEW h \in Health
    PROVE  /\ HealthFailure(h, TRUE) \in Health
           /\ HealthFailure(h, TRUE).black /\ (h.black => h.failures > 0)
                => HealthFailure(h, TRUE).failures > 0
BY HealthAssumption DEF Health, HealthFailure

\* Every step treats every status one of these ways.
LEMMA HealthClassified ==
    ASSUME Types, RequestsOK, health \in [Channels -> Health], [Next]_vars
    PROVE  HealthStep
<1>0. \A r \in Requests :
          Trying(r) \/ StreamOn(r) => Current(r) \in Channels
  BY HeadAndTail DEF Current, Types, RequestsOK, RequestOK, StreamOn
<1>1. ASSUME UNCHANGED health
      PROVE  HealthStep
  BY <1>1 DEF HealthStep, Gentle
<1>2. ASSUME NEW c \in Channels, NEW g \in Gentle(health[c]),
             health' = [health EXCEPT ![c] = g]
      PROVE  HealthStep
  BY <1>2 DEF HealthStep, Gentle
<1>3. ASSUME NEW r \in Requests, ReportFailure(r)
      PROVE  HealthStep
  <2>1. Current(r) \in Channels
    BY <1>0, <1>3 DEF ReportFailure, At, Trying, AttemptPC
  <2>2. CASE err[r] = "key"
    BY <1>1, <1>3, <2>2, Zenon DEF ReportFailure
  <2>3. CASE err[r] \notin {"key", "server", "exhausted"}
    <3>1. health' = [health EXCEPT ![Current(r)] =
                       HealthFailure(@, err[r] \in {"server", "exhausted"})]
      BY <1>3, <2>3, Zenon DEF ReportFailure
    <3>2. HealthFailure(health[Current(r)], err[r] \in {"server", "exhausted"})
            = HealthFailure(health[Current(r)], FALSE)
      BY <2>3 DEF HealthFailure
    <3>3. QED
      BY <1>2, <2>1, <3>1, <3>2 DEF Gentle
  <2>4. CASE err[r] \in {"server", "exhausted"}
    <3>1. health' = [health EXCEPT ![Current(r)] = HealthFailure(@, TRUE)]
      BY <1>3, <2>4 DEF ReportFailure
    <3>2. ServerErrorReported(Current(r))
      BY <1>3, <2>4 DEF ReportFailure, ServerErrorReported, At, Goto, Types
    <3>3. /\ health' = [c \in Channels |-> health'[c]]
          /\ health'[Current(r)] = HealthFailure(health[Current(r)], TRUE)
          /\ \A c \in Channels \ {Current(r)} : health'[c] = health[c]
      BY <2>1, <3>1
    <3>4. QED
      BY <2>1, <3>2, <3>3 DEF HealthStep, Gentle
  <2>5. QED
    BY <2>2, <2>3, <2>4
<1>4. ASSUME NEW r \in Requests,
             SendUpstream(r) \/ PrepareFails(r) \/ AnswerOk(r)
      PROVE  HealthStep
  <2>1. Current(r) \in Channels
    BY <1>0, <1>4 DEF SendUpstream, PrepareFails, AnswerOk, At, Trying, AttemptPC
  <2>2. \/ health' = [health EXCEPT ![Current(r)] = Ensured(@)]
        \/ health' = [health EXCEPT ![Current(r)] = HealthSuccess(@)]
    BY <1>4 DEF SendUpstream, PrepareFails, AnswerOk
  <2>3. QED
    BY <1>2, <2>1, <2>2 DEF Gentle
<1>5. ASSUME NEW r \in Requests, NEW x \in BOOLEAN, StreamEnds(r, x)
      PROVE  HealthStep
  <2>1. Current(r) \in Channels
    BY <1>0, <1>5 DEF StreamEnds, StreamOn
  <2>2. \/ health' = [health EXCEPT ![Current(r)] = HealthSuccess(@)]
        \/ health' = [health EXCEPT ![Current(r)] = HealthFailure(@, FALSE)]
    BY <1>5 DEF StreamEnds
  <2>3. QED
    BY <1>2, <2>1, <2>2 DEF Gentle
<1>6. ASSUME NEW c \in Probed, NEW ok \in BOOLEAN, Probe(c, ok)
      PROVE  HealthStep
  <2>1. c \in Channels
    BY RelayAssumption
  <2>2. \/ health' = [health EXCEPT ![c] = HealthSuccess(@)]
        \/ health' = [health EXCEPT ![c] = HealthFailure(@, FALSE)]
    BY <1>6 DEF Probe
  <2>3. QED
    BY <1>2, <2>1, <2>2 DEF Gentle
<1>7. ASSUME CleanupBlacklists \/ Tick
      PROVE  HealthStep
  BY <1>7 DEF CleanupBlacklists, Tick, HealthStep, Gentle
<1>8. ASSUME NEW r \in Requests, HandlerStep(r)
      PROVE  HealthStep
  <2>1. CASE \/ SendUpstream(r) \/ PrepareFails(r) \/ AnswerOk(r)
             \/ ReportFailure(r)
    BY <1>3, <1>4, <2>1
  <2>2. CASE ~(\/ SendUpstream(r) \/ PrepareFails(r) \/ AnswerOk(r)
               \/ ReportFailure(r))
    <3>1. UNCHANGED health
      BY <1>8, <2>2 DEF HandlerStep, EnterQueue, QueueTimeout,
          BuildCandidates, OutOfCandidates, CheckChannel, TakeSlot, Select,
          NoSelection, CheckKey, HalfOpenKey, AllOverloaded, KeysExhausted,
          BackOff, AnswerKeyError, AnswerError, OpenStream, FinishOk, Record,
          shared
    <3>2. QED
      BY <1>1, <3>1
  <2>3. QED
    BY <2>1, <2>2
<1>9. ASSUME NEW r \in Requests, TaskStep(r) \/ EarlyEnd(r) \/ CloseBody(r)
      PROVE  HealthStep
  <2>1. CASE \E x \in BOOLEAN : StreamEnds(r, x)
    BY <1>5, <2>1
  <2>2. CASE ~\E x \in BOOLEAN : StreamEnds(r, x)
    <3>1. UNCHANGED health
      BY <1>9, <2>2 DEF TaskStep, EarlyEnd, CloseBody, RestoreStreamKey,
          RecordStream, Disconnect, AnswerPanics, StreamPanics, EndEarly
    <3>2. QED
      BY <1>1, <3>1
  <2>3. QED
    BY <2>1, <2>2
<1>10. CASE UNCHANGED vars
  BY <1>1, <1>10 DEF vars, shared
<1>11. QED
  BY <1>6, <1>7, <1>8, <1>9, <1>10 DEF Next, Background

\* And so keeps the type and the books of every status.
LEMMA HealthKept ==
    ASSUME HealthOK, HealthStep
    PROVE  /\ HealthOK'
           /\ \A c \in Channels : ~health[c].black /\ health'[c].black =>
                                      ServerErrorReported(c)
<1>1. ASSUME NEW c \in Channels
      PROVE  /\ health'[c] \in Health
             /\ health'[c].black => health'[c].failures > 0
             /\ ~health[c].black /\ health'[c].black => ServerErrorReported(c)
  <2>1. health[c] \in Health /\ (health[c].black => health[c].failures > 0)
    BY DEF HealthOK, BlacklistHasFailures
  <2>2. CASE health'[c] \in Gentle(health[c])
    BY <2>1, <2>2, GentleKeeps
  <2>3. CASE /\ health'[c] = HealthFailure(health[c], TRUE)
             /\ ServerErrorReported(c)
    BY <2>1, <2>3, FailureKeeps
  <2>4. QED
    BY <2>2, <2>3 DEF HealthStep
<1>2. health' \in [Channels -> Health]
  BY <1>1 DEF HealthStep
<1>3. QED
  BY <1>1, <1>2 DEF HealthOK, BlacklistHasFailures

-----------------------------------------------------------------------------

\* The entries of the circuit breaker.  Their types alone are not inductive: a
\* full counter in Closed would be pushed past the threshold.
EntryOK(e) ==
    /\ e \in CircuitEntry \cup {NoEntry}
    /\ e.state = "Closed" => e.failures < FailureThreshold

EntriesOK ==
    /\ entries = [k \in Keys |-> entries[k]]
    /\ \A k \in Keys : EntryOK(entries[k])

\* All that a step does to an entry.
BreakerOp(e) == {e, Restored(e), HalfOpened(e), Failed(e), Aged(e)}
EntriesStep ==
    /\ entries' = [k \in Keys |-> entries'[k]]
    /\ \A k \in Keys : entries'[k] \in BreakerOp(entries[k])

\* The locals of the key loop.
LocalsOK ==
    /\ pass \in [Requests -> {1, 2}]
    /\ tally \in [Requests -> {"none", "only503", "mixed"}]
    /\ err \in [Requests -> Class]

\* A new entry is one, Closed below the threshold or Open at it.
LEMMA OpenedIsEntry ==
    ASSUME NEW e \in CircuitEntry \cup {NoEntry},
           NEW failures \in 0..FailureThreshold, NEW probe \in BOOLEAN
    PROVE  /\ Opened(e, failures, probe) \in CircuitEntry
           /\ Opened(e, failures, probe).state = "Open"
<1>1. e.trips \in 0..TripCap
  BY BreakerAssumption DEF CircuitEntry, NoEntry
<1>2. NextTrip(e.trips) \in 0..TripCap
  BY <1>1, BreakerAssumption DEF NextTrip
<1>3. QED
  BY <1>2, BreakerAssumption DEF Opened, CircuitEntry, CircuitState

LEMMA FailedKeeps ==
    ASSUME NEW e, EntryOK(e)
    PROVE  EntryOK(Failed(e))
<1> USE BreakerAssumption
<1>0. /\ e \in CircuitEntry \cup {NoEntry}
      /\ e.failures \in 0..FailureThreshold /\ e.trips \in 0..TripCap
      /\ e.probe \in BOOLEAN
  <2>1. CASE e = NoEntry
    BY <2>1 DEF NoEntry
  <2>2. CASE e \in CircuitEntry
    BY <2>2 DEF CircuitEntry
  <2>3. QED
    BY <2>1, <2>2 DEF EntryOK
<1>1. CASE e.state = "Open"
  BY <1>1 DEF Failed, EntryOK, CircuitEntry, NoEntry
<1>2. CASE e.state = "HalfOpen"
  <2>1. Failed(e) = Opened(e, 0, FALSE)
    BY <1>2 DEF Failed
  <2>2. 0 \in 0..FailureThreshold /\ FALSE \in BOOLEAN
    OBVIOUS
  <2>3. /\ Opened(e, 0, FALSE) \in CircuitEntry
        /\ Opened(e, 0, FALSE).state = "Open"
    BY <1>0, <2>2, OpenedIsEntry, Zenon
  <2>4. QED
    BY <2>1, <2>3 DEF EntryOK
<1>3. CASE e.state \notin {"Open", "HalfOpen"}
  <2>1. e.failures < FailureThreshold
    BY <1>0, <1>3 DEF EntryOK, CircuitEntry, CircuitState, NoEntry
  <2>2. CASE e.failures + 1 >= FailureThreshold
    <3>1. Failed(e) = Opened(e, e.failures + 1, e.probe)
      BY <1>3, <2>2 DEF Failed
    <3>2. e.failures + 1 \in 0..FailureThreshold
      BY <1>0, <2>1
    <3>3. QED
      BY <1>0, <3>1, <3>2, OpenedIsEntry DEF EntryOK
  <2>3. CASE ~(e.failures + 1 >= FailureThreshold)
    <3>1. Failed(e) = [state |-> "Closed", failures |-> e.failures + 1, age |-> 0,
                       trips |-> e.trips, probe |-> e.probe]
      BY <1>3, <2>3 DEF Failed
    <3>2. e.failures + 1 \in 0..FailureThreshold /\ e.failures + 1 < FailureThreshold
      BY <1>0, <2>3
    <3>3. QED
      BY <1>0, <3>1, <3>2 DEF EntryOK, CircuitEntry, CircuitState
  <2>4. QED
    BY <2>2, <2>3
<1>4. QED
  BY <1>1, <1>2, <1>3

\* Every operation makes entries of entries.
LEMMA BreakerOpKeeps ==
    ASSUME NEW e, EntryOK(e), NEW f \in BreakerOp(e)
    PROVE  EntryOK(f)
<1> USE BreakerAssumption
<1>1. EntryOK(Restored(e))
  BY DEF EntryOK, Restored, CircuitEntry, CircuitState
<1>2. EntryOK(HalfOpened(e))
  BY DEF EntryOK, HalfOpened, CircuitEntry, CircuitState
<1>3. EntryOK(Aged(e))
  BY DEF EntryOK, Aged, CircuitEntry, CircuitState
<1>4. QED
  BY <1>1, <1>2, <1>3, FailedKeeps, Zenon DEF BreakerOp

LEMMA EntriesKept ==
    ASSUME EntriesOK, EntriesStep
    PROVE  EntriesOK'
<1>1. ASSUME NEW k \in Keys
      PROVE  EntryOK(entries'[k])
  BY BreakerOpKeeps DEF EntriesOK, EntriesStep
<1>2. QED
  BY <1>1, Zenon DEF EntriesOK, EntriesStep

\* Every step does that to the entries, and keeps the locals in their types.
LEMMA EntriesClassified ==
    ASSUME EntriesOK, [Next]_vars
    PROVE  EntriesStep
<1>1. ASSUME UNCHANGED entries
      PROVE  EntriesStep
  BY <1>1 DEF EntriesStep, EntriesOK, BreakerOp
<1>2. ASSUME NEW x, NEW e \in BreakerOp(entries[x]),
             entries' = [entries EXCEPT ![x] = e]
      PROVE  EntriesStep
  BY <1>2 DEF EntriesStep, EntriesOK, BreakerOp
<1>3. ASSUME NEW r \in Requests, HandlerStep(r)
      PROVE  EntriesStep
  <2>1. CASE HalfOpenKey(r)
    BY <1>2, <2>1 DEF HalfOpenKey, BreakerOp
  <2>2. CASE BackOff(r)
    BY <2>2 DEF BackOff, EntriesStep, BreakerOp
  <2>3. CASE \E is503 \in BOOLEAN : AnswerKeyError(r, is503)
    BY <1>2, <2>3 DEF AnswerKeyError, BreakerOp
  <2>4. CASE \E converted \in BOOLEAN : FinishOk(r, converted)
    BY <1>2, <2>4 DEF FinishOk, BreakerOp
  <2>5. CASE ~(\/ HalfOpenKey(r) \/ BackOff(r)
               \/ \E is503 \in BOOLEAN : AnswerKeyError(r, is503)
               \/ \E converted \in BOOLEAN : FinishOk(r, converted))
    <3>1. UNCHANGED entries
      BY <1>3, <2>5 DEF HandlerStep, EnterQueue, QueueTimeout,
          BuildCandidates, OutOfCandidates, CheckChannel, TakeSlot, Select,
          NoSelection, ReportFailure, CheckKey, AllOverloaded, KeysExhausted,
          SendUpstream, PrepareFails, AnswerError, AnswerOk, OpenStream,
          Record, shared
    <3>2. QED
      BY <1>1, <3>1
  <2>6. QED
    BY <2>1, <2>2, <2>3, <2>4, <2>5
<1>4. ASSUME NEW r \in Requests, TaskStep(r) \/ EarlyEnd(r) \/ CloseBody(r)
      PROVE  EntriesStep
  <2>1. CASE RestoreStreamKey(r)
    BY <1>2, <2>1 DEF RestoreStreamKey, BreakerOp
  <2>2. CASE ~RestoreStreamKey(r)
    <3>1. UNCHANGED entries
      BY <1>4, <2>2 DEF TaskStep, EarlyEnd, CloseBody, StreamEnds,
          RecordStream, Disconnect, AnswerPanics, StreamPanics, EndEarly
    <3>2. QED
      BY <1>1, <3>1
  <2>3. QED
    BY <2>1, <2>2
<1>5. CASE Background
  <2>1. CASE Tick
    BY <2>1 DEF Tick, EntriesStep, BreakerOp
  <2>2. CASE ~Tick
    BY <1>1, <1>5, <2>2 DEF Background, Probe, CleanupBlacklists
  <2>3. QED
    BY <2>1, <2>2
<1>6. CASE UNCHANGED vars
  BY <1>1, <1>6 DEF vars, shared
<1>7. QED
  BY <1>3, <1>4, <1>5, <1>6 DEF Next

LEMMA LocalsKept ==
    ASSUME LocalsOK, [Next]_vars
    PROVE  LocalsOK'
<1> USE DEF LocalsOK, Class
<1>1. ASSUME UNCHANGED <<pass, tally, err>>
      PROVE  LocalsOK'
  BY <1>1
<1>2. ASSUME NEW r \in Requests, NEW class \in Class, FailAttempt(r, class)
      PROVE  LocalsOK'
  BY <1>2 DEF FailAttempt, ForgetPass
<1>3. ASSUME NEW r \in Requests, NEW n \in {1, 2}, StartPass(r, n), UNCHANGED err
      PROVE  LocalsOK'
  BY <1>3 DEF StartPass
<1>4. ASSUME NEW r \in Requests, ForgetPass(r),
             UNCHANGED err \/ err' = [err EXCEPT ![r] = "none"]
      PROVE  LocalsOK'
  BY <1>4 DEF ForgetPass
<1> HIDE DEF LocalsOK
<1>5. ASSUME NEW r \in Requests, HandlerStep(r)
      PROVE  LocalsOK'
  <2>1. CASE NoSelection(r) \/ PrepareFails(r)
    BY <1>2, <2>1 DEF NoSelection, PrepareFails
  <2>2. CASE KeysExhausted(r)
    BY <1>2, <2>2 DEF KeysExhausted
  <2>3. CASE \E class \in {"server", "client"} : AnswerError(r, class)
    BY <1>2, <2>3 DEF AnswerError
  <2>4. CASE \E converted \in BOOLEAN : FinishOk(r, converted)
    BY <1>2, <1>4, <2>4 DEF FinishOk
  <2>5. CASE Select(r) \/ BackOff(r)
    BY <1>3, <2>5 DEF Select, BackOff
  <2>6. CASE OpenStream(r)
    BY <1>4, <2>6 DEF OpenStream
  <2>7. CASE ReportFailure(r)
    BY <2>7 DEF ReportFailure, LocalsOK
  <2>8. CASE \E is503 \in BOOLEAN : AnswerKeyError(r, is503)
    BY <2>8 DEF AnswerKeyError, LocalsOK
  <2>9. CASE ~(\/ NoSelection(r) \/ PrepareFails(r) \/ KeysExhausted(r)
               \/ \E class \in {"server", "client"} : AnswerError(r, class)
               \/ \E converted \in BOOLEAN : FinishOk(r, converted)
               \/ Select(r) \/ BackOff(r) \/ OpenStream(r) \/ ReportFailure(r)
               \/ \E is503 \in BOOLEAN : AnswerKeyError(r, is503))
    BY <1>1, <1>5, <2>9 DEF HandlerStep, EnterQueue, QueueTimeout,
        BuildCandidates, OutOfCandidates, CheckChannel, TakeSlot, CheckKey,
        HalfOpenKey, AllOverloaded, SendUpstream, AnswerOk, Record
  <2>10. QED
    BY <2>1, <2>2, <2>3, <2>4, <2>5, <2>6, <2>7, <2>8, <2>9
<1>6. ASSUME NEW r \in Requests, TaskStep(r) \/ EarlyEnd(r) \/ CloseBody(r)
      PROVE  LocalsOK'
  BY <1>1, <1>4, <1>6 DEF TaskStep, EarlyEnd, CloseBody, StreamEnds,
      RestoreStreamKey, RecordStream, Disconnect, AnswerPanics, StreamPanics,
      EndEarly, handler
<1>7. CASE Background
  BY <1>1, <1>7 DEF Background, Probe, CleanupBlacklists, Tick, handler
<1>8. CASE UNCHANGED vars
  BY <1>1, <1>8 DEF vars, handler
<1>9. QED
  BY <1>5, <1>6, <1>7, <1>8 DEF Next

-----------------------------------------------------------------------------

\* The inductive invariant.
IInv ==
    /\ Types /\ RequestsOK
    /\ SlotsAccounted /\ QueueAccounted
    /\ WorkCovered /\ HealthOK
    /\ EntriesOK /\ LocalsOK

LEMMA InitIInv ==
    Init => IInv
<1> SUFFICES ASSUME Init
             PROVE  IInv
  OBVIOUS
<1>1. Types
  BY RelayAssumption DEF Init, Types, PC, AttemptPC, Task
<1>2. RequestsOK
  BY DEF Init, RequestsOK, RequestOK, Trying, StreamOn, AttemptPC
<1>3. SlotsAccounted
  <2>1. \A c \in Channels : Holders(c) = {}
    BY RelayAssumption DEF Init, Holders
  <2>2. Cardinality({}) = 0
    BY FS_EmptySet
  <2>3. \A c \in Channels : slots[c] = 0 /\ 0 <= MaxConcurrency[c]
    BY RelayAssumption DEF Init
  <2>4. QED
    BY <2>1, <2>2, <2>3, Zenon DEF SlotsAccounted
<1>4. QueueAccounted
  <2>1. Queued = {}
    BY DEF Init, Queued
  <2>2. QED
    BY <2>1, FS_EmptySet, RelayAssumption DEF Init, QueueAccounted
<1>5. WorkCovered
  <2>1. \A c \in Channels : WorkOn(c) = {}
    BY RelayAssumption DEF Init, WorkOn, Counted, StreamOn
  <2>2. \A c \in Channels : Cardinality(WorkOn(c)) = 0
    BY <2>1, FS_EmptySet
  <2>3. inflight = [c \in Channels |-> 0]
    BY DEF Init
  <2>4. QED
    BY <2>2, <2>3 DEF WorkCovered
<1>6. HealthOK
  <2>1. UnknownHealth \in Health /\ ~UnknownHealth.black
    BY HealthAssumption DEF Health, UnknownHealth
  <2>2. health = [c \in Channels |-> UnknownHealth]
    BY DEF Init
  <2>3. QED
    BY <2>1, <2>2 DEF HealthOK, BlacklistHasFailures
<1>7. EntriesOK /\ LocalsOK
  BY DEF Init, EntriesOK, EntryOK, NoEntry, LocalsOK, Class
<1>8. QED
  BY <1>1, <1>2, <1>3, <1>4, <1>5, <1>6, <1>7 DEF IInv

LEMMA StepIInv ==
    IInv /\ [Next]_vars => IInv'
<1> SUFFICES ASSUME IInv, [Next]_vars
             PROVE  IInv'
  OBVIOUS
<1>1. Types' /\ RequestsOK'
  BY TypesStep, RequestsStep DEF IInv
<1>2. SlotsStep /\ QueueStep
  BY StepsClassified DEF IInv
<1>3. SlotsAccounted' /\ QueueAccounted'
  BY <1>2, SlotsKept, QueueKept DEF IInv
<1>4. WorkCovered'
  BY WorkClassified, WorkKept DEF IInv
<1>5. HealthOK'
  BY HealthClassified, HealthKept DEF IInv, HealthOK
<1>6. EntriesOK' /\ LocalsOK'
  BY EntriesClassified, EntriesKept, LocalsKept DEF IInv
<1>7. QED
  BY <1>1, <1>3, <1>4, <1>5, <1>6 DEF IInv

\* Every reachable state satisfies it.
THEOREM Invariant ==
    Spec => []IInv
BY InitIInv, StepIInv, PTL DEF Spec

\* Every variable of the relay keeps its type, the breakers' entries and the
\* channels' statuses among them, whatever interleaves.
THEOREM TypeOKHolds ==
    Spec => []TypeOK
<1>1. IInv => TypeOK
  BY DEF IInv, Types, HealthOK, WorkCovered, EntriesOK, EntryOK, LocalsOK, TypeOK
<1>2. QED
  BY <1>1, Invariant, PTL

\* The capacity counter of a channel is the number of permits alive for it
\* and never passes the limit, for any number of requests and channels.
THEOREM SlotsAccountedHolds ==
    Spec => []SlotsAccounted
BY Invariant, PTL DEF IInv

\* Every permit of the queue is free or held by exactly one request.
THEOREM QueueAccountedHolds ==
    Spec => []QueueAccounted
BY Invariant, PTL DEF IInv

\* No permit outlives the attempt, the body, the handler or the task that it
\* stands for.
THEOREM NoPermitLeaksHolds ==
    Spec => []NoPermitLeaks
<1>1. IInv => NoPermitLeaks
  BY DEF IInv, RequestsOK, RequestOK, NoPermitLeaks, Ended
<1>2. QED
  BY <1>1, Invariant, PTL

\* A request whose handler was left alone is recorded exactly once.
THEOREM RecordedOnceHolds ==
    Spec => []RecordedOnce
<1>1. IInv => RecordedOnce
  BY DEF IInv, Types, RequestsOK, RequestOK, RecordedOnce, Ended
<1>2. QED
  BY <1>1, Invariant, PTL

\* active_requests covers the requests that wait for an upstream, however
\* streams fail to book theirs off, and a blacklisted channel has failures.
THEOREM HealthAccountedHolds ==
    Spec => []HealthAccounted
<1>1. ASSUME IInv
      PROVE  HealthAccounted
  <2> DEFINE Waiting(c) ==
               {r \in Requests : /\ pc[r] = "upstream" \/ StreamOn(r)
                                 /\ Current(r) = c}
  <2>1. ASSUME NEW c \in Channels
        PROVE  inflight[c] >= Cardinality(Waiting(c))
    <3>1. Waiting(c) \subseteq WorkOn(c)
      BY DEF WorkOn, Counted
    <3>2. IsFiniteSet(WorkOn(c))
      BY RelayAssumption, FS_Subset DEF WorkOn
    <3>3. /\ Cardinality(Waiting(c)) <= Cardinality(WorkOn(c))
          /\ Cardinality(Waiting(c)) \in Nat /\ Cardinality(WorkOn(c)) \in Nat
      BY <3>1, <3>2, FS_Subset, FS_CardinalityType
    <3>4. inflight[c] >= Cardinality(WorkOn(c)) /\ inflight[c] \in Int
      BY <1>1 DEF IInv, WorkCovered
    <3> HIDE DEF Waiting
    <3>5. QED
      BY <3>3, <3>4
  <2>2. ActiveCoversUpstream
    BY <2>1 DEF ActiveCoversUpstream, StreamOn
  <2>3. QED
    BY <1>1, <2>2 DEF HealthAccounted, IInv, HealthOK
<1>2. QED
  BY <1>1, Invariant, PTL

\* Only an attempt that ended in a server error, or with no key left to try,
\* blacklists a channel; probes, client errors and broken streams never do.
THEOREM OnlyServerErrorsBlacklistHolds ==
    Spec => OnlyServerErrorsBlacklist
<1> DEFINE Blamed == \A c \in Channels :
                       ~health[c].black /\ health'[c].black =>
                         \E r \in Requests : /\ pc[r] = "feedback" /\ pc'[r] = "select"
                                             /\ Current(r) = c
                                             /\ err[r] \in {"server", "exhausted"}
<1>1. IInv /\ [Next]_vars => [Blamed]_vars
  <2> SUFFICES ASSUME IInv, [Next]_vars
               PROVE  Blamed
    OBVIOUS
  <2>1. Types /\ RequestsOK /\ health \in [Channels -> Health]
    BY DEF IInv, HealthOK
  <2>2. QED
    BY <2>1, HealthClassified, HealthKept DEF IInv, ServerErrorReported
<1>2. QED
  BY <1>1, Invariant, PTL DEF Spec, OnlyServerErrorsBlacklist
=============================================================================
