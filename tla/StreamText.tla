------------------------------- MODULE StreamText -------------------------------
(* The two layers of a stream that must not care where its bytes are cut:    *)
(* the framing of the loops in relay/stream_loop.rs, and the thinking filter *)
(* of plugin/thinking.rs (FilteredText).  They share nothing here: a         *)
(* behaviour feeds one of them, piece by piece, with any text.               *)
EXTENDS FilteredText, SseFraming

CONSTANTS
    Bytes,        \* What the bytes of an upstream are made of.
    MaxBytes      \* The longest stream of bytes.

\* What the configuration has to see to (MCServices assumes it).
StreamTextAssumption ==
    /\ {"n", "r"} \subseteq Bytes
    /\ MaxBytes \in Nat

VARIABLES
    raw,          \* The bytes received so far.
    buffer,       \* StreamCollectState.buffer.
    events        \* The events handled so far.

framingVars == <<raw, buffer, events>>
vars == <<filterVars, framingVars>>

TypeOK ==
    /\ FilterTypeOK
    /\ raw \in Seq(Bytes) /\ Len(raw) <= MaxBytes
    /\ buffer \in Seq(Bytes)
    /\ events \in Seq(Seq(Bytes))

Init ==
    /\ FilterInit
    /\ raw = <<>> /\ buffer = <<>> /\ events = <<>>

\* A piece of text goes through the filter.
Filter == raw = <<>> /\ FilterNext /\ UNCHANGED framingVars

\* A chunk of bytes arrives and every event in the buffer is handled.
Receive(chunk) ==
    /\ fed = <<>>
    /\ Len(raw) + Len(chunk) <= MaxBytes
    /\ LET step == Events(buffer \o chunk) IN
          /\ raw' = raw \o chunk
          /\ buffer' = step.buffer
          /\ events' = events \o step.events
    /\ UNCHANGED filterVars

Next ==
    \/ Filter
    \/ \E chunk \in Pieces(Bytes) : Receive(chunk)

Spec == Init /\ [][Next]_vars

-------------------------------------------------------------------------------
(* Properties *)

Printed(bytes) == SelectSeq(bytes, LAMBDA b : b \notin {"n", "r"})

\* Wherever the bytes of an upstream are cut, every byte of its events is
\* handled once and in order; what is not handled yet is in the buffer
\* (the loops of relay/stream_loop.rs).
NothingLost ==
    Printed(raw) = Printed(FlattenSeq(events)) \o Printed(buffer)

\* A stream that ends all its lines one way.
OneLineEnding ==
    \/ \A i \in DOMAIN raw : raw[i] # "r"
    \/ \A i \in DOMAIN raw :
          /\ raw[i] = "r" /\ i < Len(raw) => raw[i + 1] = "n"
          /\ raw[i] = "n" => i > 1 /\ raw[i - 1] = "r"

EventMark == IF \E i \in DOMAIN raw : raw[i] = "r" THEN CRLF ELSE LF

\* In a stream that ends all its lines one way every event handled is one event
\* of the upstream: it runs to the first blank line and no further, and no
\* complete event waits in the buffer (find_sse_boundary).
EventsSeparated ==
    OneLineEnding =>
        /\ \A k \in DOMAIN events : EndOf(events[k], EventMark) = Len(events[k])
        /\ EndOf(buffer, EventMark) = 0
=============================================================================
