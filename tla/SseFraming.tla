------------------------------- MODULE SseFraming -------------------------------
(* How the loops of relay/stream_loop.rs cut the bytes of an upstream into   *)
(* events (protocol/sse/parsing.rs).  A byte is "n" (line feed), "r"         *)
(* (carriage return) or any other letter.                                    *)
EXTENDS Integers, Sequences, SequencesExt

LF   == <<"n", "n">>
CRLF == <<"r", "n", "r", "n">>

\* Where the first occurrence of mark ends in buf; 0 if there is none.
EndOf(buf, mark) ==
    LET at == {i \in 1 .. Len(buf) - Len(mark) + 1 :
                  SubSeq(buf, i, i + Len(mark) - 1) = mark}
    IN  IF at = {} THEN 0 ELSE Min(at) + Len(mark) - 1

\* Mutant: the second line ending is not looked for.
Mut_find_sse_boundary(buf) == EndOf(buf, LF)

\* The end of the first event of buf; 0 if there is none.  The whole buffer is
\* searched for the one ending before the other is tried.
find_sse_boundary(buf) ==
    IF EndOf(buf, LF) # 0 THEN EndOf(buf, LF) ELSE EndOf(buf, CRLF)

Blank(bytes) == \A i \in DOMAIN bytes : bytes[i] \in {"n", "r"}

\* The loops' inner while: the events of buf, blank ones left out, and what is
\* left in the buffer.
RECURSIVE Events(_)
Events(buf) ==
    LET end == find_sse_boundary(buf) IN
    IF end = 0 THEN [events |-> <<>>, buffer |-> buf]
    ELSE LET first == SubSeq(buf, 1, end)
             rest  == Events(SubSeq(buf, end + 1, Len(buf)))
         IN  IF Blank(first) THEN rest
             ELSE [rest EXCEPT !.events = <<first>> \o @]
=============================================================================
