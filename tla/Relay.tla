--------------------------------- MODULE Relay ---------------------------------
(***************************************************************************)
(* The request path of src/src/llm/relay: proxy_request and proxy_stream,  *)
(* the candidate loop of RelayRun and RelayStreamRun, the key loop of the  *)
(* two executors, and the task that outlives a stream's handler.  Requests *)
(* share the queue, the capacity slots of the channels, the channels'      *)
(* health (HealthOps) and the keys' circuit breakers (BreakerOps).         *)
(*                                                                         *)
(* A step ends where the code awaits something other requests can change.  *)
(* The order of the candidates is left open: scoring, sticky sessions and  *)
(* the selection metrics only decide that order.                           *)
(***************************************************************************)
EXTENDS BreakerOps, HealthOps, Integers, Sequences, FiniteSets

CONSTANTS
    Channels,
    KeysOf,          \* channel -> sequence of the hints of its enabled keys
    MaxConcurrency,  \* channel -> channels.max_concurrency, 0 for no limit
    Requests,        \* each makes one pass through the relay
    Streams,         \* the requests with "stream": true
    QueueSize,       \* queuing.max_queue_size
    Probed,          \* the channels the scheduler's health probes reach
    NoChannel

ASSUME RelayAssumption ==
    /\ IsFiniteSet(Requests)
    /\ Streams \subseteq Requests
    /\ NoChannel \notin Channels
    /\ Probed \subseteq Channels
    /\ QueueSize \in Nat \ {0}
    /\ MaxConcurrency \in [Channels -> Nat]

VARIABLES
    \* shared
    entries,   \* circuit breaker: key -> entry
    health,    \* channel_states: channel -> status
    inflight,  \* channel_states: channel -> active_requests
    slots,     \* ChannelCapacityManager: channel -> active
    queue,     \* RequestQueue: free permits of the semaphore
    \* of each request's handler
    pc,
    cands,     \* candidates not finished with; the head is being tried
    keys,      \* keys not finished with in this pass; the head is being tried
    pass,      \* 1, or 2 after the 503 back-off
    tally,     \* the keys executed in this pass: none, only 503s, or others
    err,       \* class of the error the attempt ended in
    permit,    \* channel whose slot the request holds
    queued,    \* the request holds a permit of the queue
    logs,      \* usage records written for the request
    \* of each stream after its handler has returned
    task,      \* the spawned task that reads the upstream
    body,      \* the response body is alive
    \* history
    dropped    \* the handler ended early: its client left, or it panicked

shared    == <<entries, health, inflight, slots, queue>>
handler   == <<pc, cands, keys, pass, tally, err, permit, queued, logs>>
afterwards == <<task, body>>
vars      == <<shared, handler, afterwards, dropped>>

Keys == UNION {{<<c, KeysOf[c][i]>> : i \in DOMAIN KeysOf[c]} : c \in Channels}

\* Attempts on a channel, from the slot taken to the error reported.
AttemptPC == {"start", "keys", "upgrade", "prepare", "upstream", "restore",
              "backoff", "feedback"}
PC == AttemptPC \cup {"new", "admitted", "select", "acquire",
                      "answered", "failed", "done"}
Task == {"none", "streaming", "restore", "record", "over"}
Class == {"none", "key", "server", "exhausted", "client", "internal"}

CandidateLists ==
    {s \in UNION {[1..n -> Channels] : n \in 0..Cardinality(Channels)} :
        \A i, j \in DOMAIN s : s[i] = s[j] => i = j}

Rotated(s, i) == SubSeq(s, i, Len(s)) \o SubSeq(s, 1, i - 1)

TypeOK ==
    /\ entries \in [Keys -> CircuitEntry \cup {NoEntry}]
    /\ health \in [Channels -> Health]
    /\ inflight \in [Channels -> Int]
    /\ slots \in [Channels -> Int]
    /\ queue \in Int
    /\ pc \in [Requests -> PC]
    /\ cands \in [Requests -> Seq(Channels)]
    /\ pass \in [Requests -> {1, 2}]
    /\ tally \in [Requests -> {"none", "only503", "mixed"}]
    /\ err \in [Requests -> Class]
    /\ permit \in [Requests -> Channels \cup {NoChannel}]
    /\ queued \in [Requests -> BOOLEAN]
    /\ logs \in [Requests -> Nat]
    /\ task \in [Requests -> Task]
    /\ body \in [Requests -> BOOLEAN]
    /\ dropped \in [Requests -> {"no", "client", "panic"}]

Init ==
    /\ entries = [k \in Keys |-> NoEntry]
    /\ health = [c \in Channels |-> UnknownHealth]
    /\ inflight = [c \in Channels |-> 0]
    /\ slots = [c \in Channels |-> 0]
    /\ queue = QueueSize
    /\ pc = [r \in Requests |-> "new"]
    /\ cands = [r \in Requests |-> <<>>]
    /\ keys = [r \in Requests |-> <<>>]
    /\ pass = [r \in Requests |-> 1]
    /\ tally = [r \in Requests |-> "none"]
    /\ err = [r \in Requests |-> "none"]
    /\ permit = [r \in Requests |-> NoChannel]
    /\ queued = [r \in Requests |-> FALSE]
    /\ logs = [r \in Requests |-> 0]
    /\ task = [r \in Requests |-> "none"]
    /\ body = [r \in Requests |-> FALSE]
    /\ dropped = [r \in Requests |-> "no"]

-----------------------------------------------------------------------------
(* Vocabulary.                                                             *)

Current(r) == Head(cands[r])
Key(r) == <<Current(r), Head(keys[r])>>

At(r, l)   == pc[r] = l
Goto(r, l) == pc' = [pc EXCEPT ![r] = l]

\* Mutant: the counter goes down and the permit stays to be dropped again.
MutReleaseSlotTwice(r) ==
    /\ UNCHANGED permit
    /\ slots' = IF permit[r] = NoChannel THEN slots
                ELSE [slots EXCEPT ![permit[r]] = @ - 1]

\* Mutant: a permit that is forgotten rather than dropped.
MutReleaseSlotForgets(r) ==
    /\ permit' = [permit EXCEPT ![r] = NoChannel]
    /\ UNCHANGED slots

\* ChannelCapacityPermit, dropped.
ReleaseSlot(r) ==
    /\ permit' = [permit EXCEPT ![r] = NoChannel]
    /\ slots' = IF permit[r] = NoChannel THEN slots
                ELSE [slots EXCEPT ![permit[r]] = @ - 1]

\* Mutant: the permit comes back whether the request had one or not.
MutReleaseQueue(r) ==
    /\ queued' = [queued EXCEPT ![r] = FALSE]
    /\ queue' = queue + 1

\* The queue's OwnedSemaphorePermit, dropped.
ReleaseQueue(r) ==
    /\ queued' = [queued EXCEPT ![r] = FALSE]
    /\ queue' = IF queued[r] THEN queue + 1 ELSE queue

\* An attempt that got as far as the upstream is over without a stream: a
\* stream's queue permit went into the attempt and is dropped with it.
EndExecution(r) ==
    /\ inflight' = [inflight EXCEPT ![Current(r)] = @ - 1]
    /\ IF r \in Streams THEN ReleaseQueue(r) ELSE UNCHANGED <<queue, queued>>

\* The locals of a key loop and of a candidate loop, out of scope.
ForgetPass(r) ==
    /\ pass' = [pass EXCEPT ![r] = 1]
    /\ tally' = [tally EXCEPT ![r] = "none"]
ForgetKeys(r)       == keys' = [keys EXCEPT ![r] = <<>>]
ForgetCandidates(r) == cands' = [cands EXCEPT ![r] = <<>>]

\* The attempt on a candidate is over: RelayStreamRun drops the slot before
\* it reports the error, RelayRun after.
FailAttempt(r, class) ==
    /\ err' = [err EXCEPT ![r] = class]
    /\ Goto(r, "feedback")
    /\ ForgetPass(r) /\ ForgetKeys(r)
    /\ IF r \in Streams THEN ReleaseSlot(r) ELSE UNCHANGED <<permit, slots>>
-----------------------------------------------------------------------------
(* The way in: the queue and the list of candidates.                       *)

EnterQueue(r) ==
    /\ At(r, "new") /\ queue > 0
    /\ queue' = queue - 1
    /\ queued' = [queued EXCEPT ![r] = TRUE]
    /\ Goto(r, "admitted")
    /\ UNCHANGED <<entries, health, inflight, slots, cands, keys, pass, tally,
                   err, permit, logs, afterwards, dropped>>

\* The wait is over, and the semaphore still has no permit for it.
QueueTimeout(r) ==
    /\ At(r, "new") /\ queue = 0
    /\ Goto(r, "failed")
    /\ UNCHANGED <<shared, cands, keys, pass, tally, err, permit, queued, logs,
                   afterwards, dropped>>

\* build_relay_candidates; an empty list is one of its errors.
BuildCandidates(r) ==
    /\ At(r, "admitted")
    /\ \E list \in CandidateLists :
         /\ cands' = [cands EXCEPT ![r] = list]
         /\ Goto(r, IF list = <<>> THEN "failed" ELSE "select")
    /\ UNCHANGED <<shared, keys, pass, tally, err, permit, queued, logs,
                   afterwards, dropped>>

-----------------------------------------------------------------------------
(* The candidate loop.                                                     *)

OutOfCandidates(r) ==
    /\ At(r, "select") /\ cands[r] = <<>>
    /\ Goto(r, "failed")
    /\ UNCHANGED <<shared, cands, keys, pass, tally, err, permit, queued, logs,
                   afterwards, dropped>>

\* is_channel_available.
CheckChannel(r) ==
    /\ At(r, "select") /\ cands[r] # <<>>
    /\ IF Available(health[Current(r)])
       THEN Goto(r, "acquire") /\ UNCHANGED cands
       ELSE cands' = [cands EXCEPT ![r] = Tail(@)] /\ UNCHANGED pc
    /\ UNCHANGED <<shared, keys, pass, tally, err, permit, queued, logs,
                   afterwards, dropped>>

\* Mutant: one request too many passes the limit.
MutTakeSlot(r) ==
    /\ At(r, "acquire")
    /\ LET c == Current(r)
       IN  \/ /\ slots[c] <= MaxConcurrency[c]
              /\ slots' = [slots EXCEPT ![c] = @ + 1]
              /\ permit' = [permit EXCEPT ![r] = c]
              /\ Goto(r, "start")
              /\ UNCHANGED cands
           \/ /\ slots[c] > MaxConcurrency[c]
              /\ cands' = [cands EXCEPT ![r] = Tail(@)]
              /\ Goto(r, "select")
              /\ UNCHANGED <<slots, permit>>
    /\ UNCHANGED <<entries, health, inflight, queue, keys, pass, tally, err,
                   queued, logs, afterwards, dropped>>

\* try_acquire: an unlimited channel has permits that count nothing.
TakeSlot(r) ==
    /\ At(r, "acquire")
    /\ LET c == Current(r)
       IN  \/ /\ MaxConcurrency[c] = 0
              /\ Goto(r, "start")
              /\ UNCHANGED <<slots, permit, cands>>
           \/ /\ MaxConcurrency[c] > 0 /\ slots[c] < MaxConcurrency[c]
              /\ slots' = [slots EXCEPT ![c] = @ + 1]
              /\ permit' = [permit EXCEPT ![r] = c]
              /\ Goto(r, "start")
              /\ UNCHANGED cands
           \/ /\ MaxConcurrency[c] > 0 /\ slots[c] >= MaxConcurrency[c]
              /\ cands' = [cands EXCEPT ![r] = Tail(@)]
              /\ Goto(r, "select")
              /\ UNCHANGED <<slots, permit>>
    /\ UNCHANGED <<entries, health, inflight, queue, keys, pass, tally, err,
                   queued, logs, afterwards, dropped>>

\* A pass over the channel's keys, from wherever key_counter points.
StartPass(r, n) ==
    /\ \E i \in DOMAIN KeysOf[Current(r)] :
         keys' = [keys EXCEPT ![r] = Rotated(KeysOf[Current(r)], i)]
    /\ pass' = [pass EXCEPT ![r] = n]
    /\ tally' = [tally EXCEPT ![r] = "none"]
    /\ Goto(r, "keys")

\* build_selection finds the channel and an endpoint of it.
Select(r) ==
    /\ At(r, "start")
    /\ StartPass(r, 1)
    /\ UNCHANGED <<shared, cands, err, permit, queued, logs, afterwards,
                   dropped>>

\* build_selection does not: a 503, which classifies as the key's.
NoSelection(r) ==
    /\ At(r, "start")
    /\ FailAttempt(r, "key")
    /\ UNCHANGED <<entries, health, inflight, queue, cands, queued, logs,
                   afterwards, dropped>>

\* on_attempt_failed, and on to the next candidate.
ReportFailure(r) ==
    /\ At(r, "feedback")
    /\ IF err[r] = "key" THEN UNCHANGED health
       ELSE health' = [health EXCEPT ![Current(r)] =
                         HealthFailure(@, err[r] \in {"server", "exhausted"})]
    /\ ReleaseSlot(r)
    /\ cands' = [cands EXCEPT ![r] = Tail(@)]
    /\ err' = [err EXCEPT ![r] = "none"]
    /\ Goto(r, "select")
    /\ UNCHANGED <<entries, inflight, queue, keys, pass, tally, queued, logs,
                   afterwards, dropped>>

-----------------------------------------------------------------------------
(* The key loop: run_key_loop and run_key_stream_loop.                     *)

\* is_tripped under the read lock.
CheckKey(r) ==
    /\ At(r, "keys") /\ keys[r] # <<>>
    /\ LET e == entries[Key(r)]
       IN  \/ /\ Tripped(e)
              /\ keys' = [keys EXCEPT ![r] = Tail(@)]
              /\ UNCHANGED pc
           \/ /\ HalfOpenDue(e)
              /\ Goto(r, "upgrade")
              /\ UNCHANGED keys
           \/ /\ ~Tripped(e) /\ ~HalfOpenDue(e)
              /\ Goto(r, "prepare")
              /\ UNCHANGED keys
    /\ UNCHANGED <<shared, cands, pass, tally, err, permit, queued, logs,
                   afterwards, dropped>>

\* is_tripped under the write lock.
HalfOpenKey(r) ==
    /\ At(r, "upgrade")
    /\ entries' = [entries EXCEPT ![Key(r)] = HalfOpened(@)]
    /\ Goto(r, "prepare")
    /\ UNCHANGED <<health, inflight, slots, queue, cands, keys, pass, tally,
                   err, permit, queued, logs, afterwards, dropped>>

\* Mutant: the back-off may be repeated.
MutAllOverloaded(r) ==
    /\ At(r, "keys") /\ keys[r] = <<>>
    /\ tally[r] = "only503"
    /\ Goto(r, "backoff")
    /\ UNCHANGED <<shared, cands, keys, pass, tally, err, permit, queued, logs,
                   afterwards, dropped>>

\* AllKeysTried: every key that ran said 503 in the first pass, so back off.
AllOverloaded(r) ==
    /\ At(r, "keys") /\ keys[r] = <<>>
    /\ pass[r] = 1 /\ tally[r] = "only503"
    /\ Goto(r, "backoff")
    /\ UNCHANGED <<shared, cands, keys, pass, tally, err, permit, queued, logs,
                   afterwards, dropped>>

\* AllKeysTried: the last key's error, or "all api keys exhausted", a 500 of
\* the relay's own, if no key ran at all.
KeysExhausted(r) ==
    /\ At(r, "keys") /\ keys[r] = <<>>
    /\ ~(pass[r] = 1 /\ tally[r] = "only503")
    /\ FailAttempt(r, IF tally[r] = "none" THEN "exhausted" ELSE "key")
    /\ UNCHANGED <<entries, health, inflight, queue, cands, queued, logs,
                   afterwards, dropped>>

\* The 2 s are over: reset_channel, then the second and last pass.
BackOff(r) ==
    /\ At(r, "backoff")
    /\ entries' = [k \in Keys |-> IF k[1] = Current(r) THEN Restored(entries[k])
                                  ELSE entries[k]]
    /\ StartPass(r, 2)
    /\ UNCHANGED <<health, inflight, slots, queue, cands, err, permit, queued,
                   logs, afterwards, dropped>>

-----------------------------------------------------------------------------
(* One key: execute_proxy_request and execute_proxy_stream.                *)

\* ensure_channel_status, increment_active, prepare_proxy_request, send.
SendUpstream(r) ==
    /\ At(r, "prepare")
    /\ health' = [health EXCEPT ![Current(r)] = Ensured(@)]
    /\ inflight' = [inflight EXCEPT ![Current(r)] = @ + 1]
    /\ Goto(r, "upstream")
    /\ UNCHANGED <<entries, slots, queue, cands, keys, pass, tally, err, permit,
                   queued, logs, afterwards, dropped>>

\* prepare_proxy_request fails.  A stream has no guard on active_requests yet
\* and returns without the decrement.
PrepareFails(r) ==
    /\ At(r, "prepare")
    /\ health' = [health EXCEPT ![Current(r)] = Ensured(@)]
    /\ FailAttempt(r, "internal")
    /\ IF r \in Streams
       THEN /\ inflight' = [inflight EXCEPT ![Current(r)] = @ + 1]
            /\ ReleaseQueue(r)
       ELSE UNCHANGED <<inflight, queue, queued>>
    /\ UNCHANGED <<entries, cands, logs, afterwards, dropped>>

\* An error that is the key's: its breaker hears of it, the next key is tried.
AnswerKeyError(r, is503) ==
    /\ At(r, "upstream")
    /\ EndExecution(r)
    /\ entries' = [entries EXCEPT ![Key(r)] = Failed(@)]
    /\ tally' = [tally EXCEPT ![r] = IF is503 /\ @ # "mixed" THEN "only503"
                                     ELSE "mixed"]
    /\ keys' = [keys EXCEPT ![r] = Tail(@)]
    /\ Goto(r, "keys")
    /\ UNCHANGED <<health, slots, cands, pass, err, permit, logs, afterwards,
                   dropped>>

\* Any other error: a 5xx or a transport error ("server"), or a 4xx.
AnswerError(r, class) ==
    /\ At(r, "upstream")
    /\ EndExecution(r)
    /\ FailAttempt(r, class)
    /\ UNCHANGED <<entries, health, cands, logs, afterwards, dropped>>

\* A 2xx for a request without a stream: the channel's health first.
AnswerOk(r) ==
    /\ At(r, "upstream") /\ r \notin Streams
    /\ health' = [health EXCEPT ![Current(r)] = HealthSuccess(@)]
    /\ Goto(r, "restore")
    /\ UNCHANGED <<entries, inflight, slots, queue, cands, keys, pass, tally,
                   err, permit, queued, logs, afterwards, dropped>>

\* Then the key's breaker, and the conversion of the answer.  A conversion
\* that fails fails the attempt, although the upstream has done its work.
FinishOk(r, converted) ==
    /\ At(r, "restore")
    /\ entries' = [entries EXCEPT ![Key(r)] = Restored(@)]
    /\ inflight' = [inflight EXCEPT ![Current(r)] = @ - 1]
    /\ IF converted
       THEN /\ Goto(r, "answered")
            /\ ReleaseSlot(r)
            /\ ForgetPass(r) /\ ForgetKeys(r) /\ ForgetCandidates(r)
            /\ UNCHANGED err
       ELSE FailAttempt(r, "internal") /\ UNCHANGED cands
    /\ UNCHANGED <<health, queue, queued, logs, afterwards, dropped>>

\* The first event of a stream is no error: a task takes over with the queue
\* permit, if this is the first key the request ran; the capacity slot moves
\* into the response body; the handler returns.
OpenStream(r) ==
    /\ At(r, "upstream") /\ r \in Streams
    /\ task' = [task EXCEPT ![r] = "streaming"]
    /\ body' = [body EXCEPT ![r] = TRUE]
    /\ Goto(r, "done")
    /\ ForgetPass(r)
    /\ keys' = [keys EXCEPT ![r] = <<Head(@)>>]
    /\ cands' = [cands EXCEPT ![r] = <<Head(@)>>]
    /\ UNCHANGED <<shared, err, permit, queued, logs, dropped>>

-----------------------------------------------------------------------------
(* The way out.                                                            *)

\* The end of proxy_request and proxy_stream: save_request_record, and the
\* queue permit goes.
Record(r) ==
    /\ pc[r] \in {"answered", "failed"}
    /\ logs' = [logs EXCEPT ![r] = @ + 1]
    /\ ReleaseQueue(r)
    /\ Goto(r, "done")
    /\ UNCHANGED <<entries, health, inflight, slots, cands, keys, pass, tally,
                   err, permit, afterwards, dropped>>

\* The handler's future goes away where it stands.  Permits are dropped with
\* it; ActiveRequestGuard is too, but a stream has no such guard.
EndEarly(r, why) ==
    /\ Goto(r, "done")
    /\ dropped' = [dropped EXCEPT ![r] = why]
    /\ ReleaseSlot(r)
    /\ ReleaseQueue(r)
    /\ inflight' = IF pc[r] \in {"upstream", "restore"} /\ r \notin Streams
                   THEN [inflight EXCEPT ![Current(r)] = @ - 1] ELSE inflight
    /\ ForgetPass(r) /\ ForgetKeys(r) /\ ForgetCandidates(r)
    /\ err' = [err EXCEPT ![r] = "none"]
    /\ UNCHANGED <<entries, health, logs, afterwards>>

Disconnect(r) == pc[r] # "done" /\ EndEarly(r, "client")

\* The text of an error answer is cut at a byte that is not the start of a
\* character: slicing a str there panics.
AnswerPanics(r) == At(r, "upstream") /\ EndEarly(r, "panic")

-----------------------------------------------------------------------------
(* A stream after its handler: the task that reads the upstream, and the   *)
(* response body that the client reads.                                    *)

\* The upstream's stream ends; one that broke off counts as a success, an
\* error event in it as a failure that does not blacklist.
StreamEnds(r, withError) ==
    /\ task[r] = "streaming"
    /\ health' = [health EXCEPT ![Current(r)] =
                     IF withError THEN HealthFailure(@, FALSE)
                     ELSE HealthSuccess(@)]
    /\ task' = [task EXCEPT ![r] = IF withError THEN "record" ELSE "restore"]
    /\ UNCHANGED <<entries, inflight, slots, queue, handler, body, dropped>>

RestoreStreamKey(r) ==
    /\ task[r] = "restore"
    /\ entries' = [entries EXCEPT ![Key(r)] = Restored(@)]
    /\ task' = [task EXCEPT ![r] = "record"]
    /\ UNCHANGED <<health, inflight, slots, queue, handler, body, dropped>>

\* record_stream_completion, decrement_active, and the task is over.
RecordStream(r) ==
    /\ task[r] = "record"
    /\ logs' = [logs EXCEPT ![r] = @ + 1]
    /\ inflight' = [inflight EXCEPT ![Current(r)] = @ - 1]
    /\ ReleaseQueue(r)
    /\ task' = [task EXCEPT ![r] = "over"]
    /\ ForgetKeys(r) /\ ForgetCandidates(r)
    /\ UNCHANGED <<entries, health, slots, pc, pass, tally, err, permit, body,
                   dropped>>

\* Mutant: no StreamPanicGuard.
MutStreamPanics(r) ==
    /\ task[r] = "streaming"
    /\ ReleaseQueue(r)
    /\ task' = [task EXCEPT ![r] = "over"]
    /\ ForgetKeys(r) /\ ForgetCandidates(r)
    /\ UNCHANGED <<entries, health, inflight, slots, pc, pass, tally, err,
                   permit, logs, body, dropped>>

\* The task panics: StreamPanicGuard writes the record, nobody decrements.
StreamPanics(r) ==
    /\ task[r] = "streaming"
    /\ logs' = [logs EXCEPT ![r] = @ + 1]
    /\ ReleaseQueue(r)
    /\ task' = [task EXCEPT ![r] = "over"]
    /\ ForgetKeys(r) /\ ForgetCandidates(r)
    /\ UNCHANGED <<entries, health, inflight, slots, pc, pass, tally, err,
                   permit, body, dropped>>

\* Mutant: the body goes, and the slot it held stays taken.
MutCloseBody(r) ==
    /\ body[r]
    /\ body' = [body EXCEPT ![r] = FALSE]
    /\ UNCHANGED <<shared, handler, task, dropped>>

\* The response body is dropped, at its end or because the client has left;
\* the task goes on reading the upstream in either case.
CloseBody(r) ==
    /\ body[r]
    /\ body' = [body EXCEPT ![r] = FALSE]
    /\ ReleaseSlot(r)
    /\ UNCHANGED <<entries, health, inflight, queue, pc, cands, keys, pass,
                   tally, err, queued, logs, task, dropped>>

-----------------------------------------------------------------------------
(* The scheduler's tasks, and time.  A health probe also records under the *)
(* breaker key "health", which no request asks for; the breakers' own      *)
(* clean-up is in CircuitBreaker.                                          *)

Probe(c, ok) ==
    /\ health' = [health EXCEPT ![c] =
                     IF ok THEN HealthSuccess(@) ELSE HealthFailure(@, FALSE)]
    /\ UNCHANGED <<entries, inflight, slots, queue, handler, afterwards, dropped>>

CleanupBlacklists ==
    /\ health' = [c \in Channels |-> BlacklistCleaned(health[c])]
    /\ UNCHANGED <<entries, inflight, slots, queue, handler, afterwards, dropped>>

Tick ==
    /\ entries' = [k \in Keys |-> Aged(entries[k])]
    /\ health' = [c \in Channels |-> HealthAged(health[c])]
    /\ UNCHANGED <<inflight, slots, queue, handler, afterwards, dropped>>

-----------------------------------------------------------------------------

HandlerStep(r) ==
    \/ EnterQueue(r) \/ QueueTimeout(r) \/ BuildCandidates(r)
    \/ OutOfCandidates(r) \/ CheckChannel(r) \/ TakeSlot(r)
    \/ Select(r) \/ NoSelection(r) \/ ReportFailure(r)
    \/ CheckKey(r) \/ HalfOpenKey(r) \/ AllOverloaded(r)
    \/ KeysExhausted(r) \/ BackOff(r)
    \/ SendUpstream(r) \/ PrepareFails(r)
    \/ \E is503 \in BOOLEAN : AnswerKeyError(r, is503)
    \/ \E class \in {"server", "client"} : AnswerError(r, class)
    \/ AnswerOk(r) \/ OpenStream(r)
    \/ \E converted \in BOOLEAN : FinishOk(r, converted)
    \/ Record(r)

TaskStep(r) ==
    \/ \E withError \in BOOLEAN : StreamEnds(r, withError)
    \/ RestoreStreamKey(r) \/ RecordStream(r)

EarlyEnd(r) == Disconnect(r) \/ AnswerPanics(r) \/ StreamPanics(r)

Background ==
    \/ \E c \in Probed, ok \in BOOLEAN : Probe(c, ok)
    \/ CleanupBlacklists
    \/ Tick

Next ==
    \/ \E r \in Requests : \/ HandlerStep(r) \/ TaskStep(r)
                           \/ EarlyEnd(r) \/ CloseBody(r)
    \/ Background

Spec == Init /\ [][Next]_vars

\* The runtime polls every task that can go on, upstream calls time out, and
\* a client reads its response or leaves.  Nobody has to leave or to panic.
Fairness ==
    \A r \in Requests : /\ WF_vars(HandlerStep(r))
                        /\ WF_vars(TaskStep(r))
                        /\ WF_vars(CloseBody(r))

FairSpec == Spec /\ Fairness

-----------------------------------------------------------------------------
(* Properties.                                                             *)

Holders(c) == {r \in Requests : permit[r] = c}
Queued     == {r \in Requests : queued[r]}

\* A request that the program is done with: the handler has returned and no
\* task of its stream is left.
Ended(r) == pc[r] = "done" /\ task[r] \in {"none", "over"}

\* The counter of a channel is the number of permits alive for it and never
\* passes the limit, over every path an attempt can take: answered, failed,
\* handed over to a stream, dropped by a disconnect or a panic (try_acquire,
\* ChannelCapacityPermit, RelayRun, RelayStreamRun).
SlotsAccounted ==
    \A c \in Channels : /\ slots[c] = Cardinality(Holders(c))
                        /\ slots[c] <= MaxConcurrency[c]

\* Every permit of the queue is free or held, whichever of the handler, the
\* attempt and the stream's task has to drop it (RequestQueue, queue_permit).
QueueAccounted == queue >= 0 /\ queue + Cardinality(Queued) = QueueSize

\* No permit outlives what it stands for: a slot is held during an attempt or
\* by a response body, and never after; a queue permit during the handler or
\* by a stream's task.  A slot that stays taken shuts the channel for good.
NoPermitLeaks ==
    \A r \in Requests :
        /\ permit[r] # NoChannel => pc[r] \in AttemptPC \/ body[r]
        /\ queued[r] => ~Ended(r) /\ pc[r] # "new"

\* A request is recorded exactly once if its handler was left alone, by the
\* handler or by the stream's task and never by both; a request cut short in
\* its handler is not recorded (save_request_record, record_stream_completion,
\* StreamPanicGuard).
RecordedOnce ==
    \A r \in Requests :
        /\ logs[r] <= 1
        /\ Ended(r) => logs[r] = IF dropped[r] = "no" THEN 1 ELSE 0

\* active_requests never counts fewer requests than wait for the upstream,
\* however often a stream leaves without its decrement (increment_active,
\* ActiveRequestGuard, decrement_active_once).
ActiveCoversUpstream ==
    \A c \in Channels :
        inflight[c] >= Cardinality({r \in Requests :
            /\ pc[r] = "upstream" \/ task[r] \in {"streaming", "restore", "record"}
            /\ Current(r) = c})

\* A blacklisted channel has failures on its books: a success that empties
\* the counter, and a clean-up that does, lift the blacklist with it
\* (record_success, cleanup_expired_blacklists).
BlacklistHasFailures ==
    \A c \in Channels : health[c].black => health[c].failures > 0

\* What the scheduler believes of a channel never flatters it: work that waits
\* is counted, and a blacklisted channel has failures (state/mod.rs,
\* channel_status.rs).
HealthAccounted == ActiveCoversUpstream /\ BlacklistHasFailures

\* Only an attempt that ended in a server error blacklists a channel: not a
\* client error, a failed conversion, a key's error, a probe, or an error
\* inside a stream, although each but a key's counts as a failure
\* (on_attempt_failed, record_failure).
OnlyServerErrorsBlacklist ==
    [][\A c \in Channels :
         ~health[c].black /\ health'[c].black =>
             \E r \in Requests : /\ pc[r] = "feedback" /\ pc'[r] = "select"
                                 /\ Current(r) = c
                                 /\ err[r] \in {"server", "exhausted"}]_vars

\* Every request ends: the candidate loop and the key loop run out, the 503
\* back-off happens once, and a stream's task gets to its record.
EveryRequestEnds == \A r \in Requests : <>Ended(r)

\* In the end every slot and every queue permit has come back.
EverythingReturned ==
    <>[](queue = QueueSize /\ \A c \in Channels : slots[c] = 0)

(* What the repository says, and the code does not do.                     *)

\* dispatch.rs:114-115, "every request gets its record": whatever the upstream
\* answers, a request whose client waits for the end is recorded.
PatientClientsRecorded ==
    \A r \in Requests : Ended(r) /\ dropped[r] # "client" => logs[r] = 1
=============================================================================
