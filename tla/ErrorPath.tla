------------------------------- MODULE ErrorPath -------------------------------
(* One request from its first channel to its last, seen from its errors: how *)
(* an error is classified (error/proxy.rs), which class makes the relay try  *)
(* another key or channel (relay/executor, relay/stream_key_loop.rs,         *)
(* relay/run.rs), what of it the usage log keeps (service/stats/recorder.rs) *)
(* and what the client is told in the end. Relay has the same loops with the *)
(* resources they hold; here errors have statuses and texts.                 *)
(*                                                                           *)
(* Of a text only what the router recognises in it matters: nothing          *)
(* ("plain"), one of its words for trouble with a key ("key"), or a status   *)
(* with its reason ("400 ...", "503 ...").                                   *)
EXTENDS Outcome, Sequences

CONSTANTS
    MaxChannels,    \* candidates of the request
    MaxKeys         \* keys of a channel

VARIABLES
    streamed,       \* is the answer a stream?
    channel, key,   \* where the loops are
    pass, tally,    \* the pass over the keys; what the keys of it answered
    keyError,       \* the last error of the pass, NoError if none
    attempts        \* statuses of the attempts logged so far

errorVars == <<streamed, channel, key, pass, tally, keyError, error, attempts, phase, told, saved>>

ErrorPathAssumption == MaxChannels \in Nat \ {0} /\ MaxKeys \in Nat \ {0}

Wordings == {"plain", "key", "400 ...", "503 ..."}
\* One for each way a status is treated: 401 and 402 go with 429.
HttpErrors == {400, 404, 429, 500, 503}
Error(status, class, logged) == [status |-> status, class |-> class, logged |-> logged]
NoError == Error(0, "none", FALSE)

-----------------------------------------------------------------------------
\* The status of an error that comes inside a stream answered with 200.
SseStatus(words) ==
    CASE words = "400 ..." -> 400
      [] words = "503 ..." -> 503
      [] words = "key"     -> 429
      [] words = "plain"   -> 502

ClassifyUpstream(status, words) ==
    IF status \in {401, 402, 429, 503} \/ words = "key" THEN "key"
    ELSE IF status >= 500 THEN "upstream" ELSE "client"

UpstreamError(status, words) == Error(status, ClassifyUpstream(status, words), TRUE)
RequestError(logged) == Error(502, "upstream", logged)
TransformError(logged) == Error(500, "internal", logged)

\* Mutant: 500 itself is not passed on.
MutFromOutcome(status) == IF status = 404 \/ status > 500 THEN status ELSE 503

\* What the client is told of the last error.
FromOutcome(status) == IF status = 404 \/ status >= 500 THEN status ELSE 503

\* The row has the status of the last attempt that was logged.
SavedStatus(status) == IF attempts = <<>> THEN status ELSE attempts[Len(attempts)]

-----------------------------------------------------------------------------
Init ==
    /\ streamed \in BOOLEAN
    /\ channel = 1 /\ key = 1 /\ pass = 1 /\ tally = "none"
    /\ keyError = NoError /\ error = NoError /\ attempts = <<>>
    /\ phase = "route" /\ told = 0 /\ saved = 0

Answer(status, row) == phase' = "done" /\ told' = status /\ saved' = row

\* The model has no route, none that is enabled, or cannot be read.
NoRoute ==
    /\ phase = "route"
    /\ \E status \in {404, 500, 503} : Answer(status, status)
    /\ UNCHANGED <<streamed, channel, key, pass, tally, keyError, error, attempts>>

FindRoute ==
    /\ phase = "route" /\ phase' = "channel"
    /\ UNCHANGED <<streamed, channel, key, pass, tally, keyError, error, attempts, told, saved>>

AtChannel == phase = "channel" /\ channel <= MaxChannels
NextChannel == channel' = channel + 1 /\ key' = 1 /\ pass' = 1 /\ tally' = "none" /\ keyError' = NoError
FailChannel(e) == NextChannel /\ error' = e /\ phase' = "channel"

\* Blacklisted, or at its limit.
SkipChannel ==
    /\ AtChannel /\ NextChannel
    /\ UNCHANGED <<streamed, error, attempts, phase, told, saved>>

\* The channel is gone, or has no endpoint. Only streams log it.
NoSelection ==
    /\ AtChannel /\ FailChannel(Error(503, "none", streamed))
    /\ attempts' = IF streamed THEN Append(attempts, 503) ELSE attempts
    /\ UNCHANGED <<streamed, told, saved>>

StartKeys ==
    /\ AtChannel /\ phase' = "keys"
    /\ UNCHANGED <<streamed, channel, key, pass, tally, keyError, error, attempts, told, saved>>

AtKey == phase = "keys" /\ key <= MaxKeys

\* The key's breaker is open.
SkipKey ==
    /\ AtKey /\ key' = key + 1
    /\ UNCHANGED <<streamed, channel, pass, tally, keyError, error, attempts, phase, told, saved>>

\* The request cannot be converted, or a plugin fails: nothing is sent or logged.
PrepareFails ==
    /\ AtKey /\ FailChannel(TransformError(FALSE))
    /\ UNCHANGED <<streamed, attempts, told, saved>>

Send ==
    /\ AtKey /\ phase' = "sent"
    /\ UNCHANGED <<streamed, channel, key, pass, tally, keyError, error, attempts, told, saved>>

\* No answer, or a stream that breaks before its first event; only the first
\* is logged.
RequestFails ==
    /\ phase = "sent"
    /\ \/ FailChannel(RequestError(TRUE)) /\ attempts' = Append(attempts, 502)
       \/ streamed /\ FailChannel(RequestError(FALSE)) /\ UNCHANGED attempts
    /\ UNCHANGED <<streamed, told, saved>>

\* An error of the upstream's: the next key if it is the key's, else the next
\* channel.
Refused(e) ==
    /\ attempts' = Append(attempts, e.status)
    /\ IF e.class = "key"
       THEN /\ key' = key + 1 /\ keyError' = e /\ phase' = "keys"
            /\ tally' = IF e.status = 503 /\ tally # "mixed" THEN "only503" ELSE "mixed"
            /\ UNCHANGED <<channel, pass, error>>
       ELSE FailChannel(e)

HttpError ==
    /\ phase = "sent"
    /\ \E status \in HttpErrors, words \in Wordings : Refused(UpstreamError(status, words))
    /\ UNCHANGED <<streamed, told, saved>>

\* The first event of a stream is an error.
EventError ==
    /\ phase = "sent" /\ streamed
    /\ \E words \in Wordings : Refused(UpstreamError(SseStatus(words), words))
    /\ UNCHANGED <<streamed, told, saved>>

\* A plain answer of 200 is logged as one, and then cannot be converted.
ConversionFails ==
    /\ phase = "sent" /\ ~streamed
    /\ attempts' = Append(attempts, 200)
    /\ FailChannel(TransformError(TRUE))
    /\ UNCHANGED <<streamed, told, saved>>

Answered ==
    /\ phase = "sent" /\ ~streamed
    /\ attempts' = Append(attempts, 200)
    /\ Answer(200, 200)
    /\ UNCHANGED <<streamed, channel, key, pass, tally, keyError, error>>

\* A stream that has begun ends, or an error comes inside it.
Streamed ==
    /\ phase = "sent" /\ streamed
    /\ \E status \in {200} \cup {SseStatus(words) : words \in Wordings} : Answer(200, status)
    /\ UNCHANGED <<streamed, channel, key, pass, tally, keyError, error, attempts>>

\* All keys were tried. If those that ran were overloaded there is a second
\* pass; if none ran, an error is made up.
KeysTried ==
    /\ phase = "keys" /\ key > MaxKeys
    /\ IF pass = 1 /\ tally = "only503"
       THEN /\ pass' = 2 /\ key' = 1 /\ tally' = "none" /\ keyError' = NoError
            /\ UNCHANGED <<channel, error, phase>>
       ELSE FailChannel(IF keyError = NoError THEN Error(500, "none", FALSE) ELSE keyError)
    /\ UNCHANGED <<streamed, attempts, told, saved>>

OutOfChannels ==
    /\ phase = "channel" /\ channel > MaxChannels
    /\ LET status == IF error = NoError THEN 503 ELSE FromOutcome(error.status)
       IN  Answer(status, SavedStatus(status))
    /\ UNCHANGED <<streamed, channel, key, pass, tally, keyError, error, attempts>>

Next ==
    \/ NoRoute \/ FindRoute
    \/ SkipChannel \/ NoSelection \/ StartKeys
    \/ SkipKey \/ PrepareFails \/ Send
    \/ RequestFails \/ HttpError \/ EventError \/ ConversionFails \/ Answered \/ Streamed
    \/ KeysTried \/ OutOfChannels

Spec == Init /\ [][Next]_errorVars

-----------------------------------------------------------------------------
(* The loops stay in their bounds, and the client is told once it is over    *)
(* (relay/run.rs:119-223, relay/stream_key_loop.rs:61-170).                  *)
TypeOK ==
    /\ channel \in 1 .. MaxChannels + 1 /\ key \in 1 .. MaxKeys + 1 /\ pass \in {1, 2}
    /\ attempts \in Seq(HttpErrors \cup {200, 502})
    /\ phase = "done" <=> told # 0
    \* Two passes over the keys of each channel at most.
    /\ Len(attempts) <= 2 * MaxChannels * MaxKeys
=============================================================================
