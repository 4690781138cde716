------------------------------ MODULE ThinkFilter ------------------------------
(* The thinking filter of plugin/thinking.rs: takes <think>...</think> out  *)
(* of a text.  strip_think does it to a whole answer, process_chunk to the   *)
(* pieces of a stream, with a state that survives from one to the next.      *)
(*                                                                           *)
(* A text is a sequence of letters.  The two tags are shortened to three     *)
(* letters; like the real ones they begin with the same letter and neither   *)
(* is a part of the other.                                                   *)
EXTENDS Integers, Sequences, SequencesExt

OpenTag  == <<"<", "t", ">">>
CloseTag == <<"<", "/", ">">>

\* str::find: the places where tag begins in buf.
Places(buf, tag) ==
    {i \in 1 .. Len(buf) - Len(tag) + 1 : SubSeq(buf, i, i + Len(tag) - 1) = tag}

Before(buf, i) == SubSeq(buf, 1, i - 1)
After(buf, i, tag) == SubSeq(buf, i + Len(tag), Len(buf))

-------------------------------------------------------------------------------
(* The filter of a stream: inside is in_think, pending the end of the text   *)
(* that may be the beginning of a tag, reasoning what is kept for the log.   *)

NewFilter == [inside |-> FALSE, pending |-> <<>>, reasoning |-> <<>>]

\* Mutant: only the last letter is looked at.
Mut_retain_pending_prefix(buf, tag) ==
    IF buf # <<>> /\ Last(buf) = tag[1] THEN 1 ELSE 0

\* How many letters at the end of buf may begin tag.
retain_pending_prefix(buf, tag) ==
    Max({n \in 0 .. Min({Len(buf), Len(tag) - 1}) : IsSuffix(SubSeq(tag, 1, n), buf)})

\* What passes and what is reasoning, when buf is read from a state; the rest
\* of buf stays pending.
Split(inside, buf) ==
    LET split[from \in 1 .. Len(buf) + 1] == [thinking \in BOOLEAN |->
            LET text == SubSeq(buf, from, Len(buf))
                tag  == IF thinking THEN CloseTag ELSE OpenTag
                at   == Places(text, tag)
                cut  == IF at = {} THEN Len(text) - retain_pending_prefix(text, tag) + 1
                        ELSE Min(at)
                rest == IF at = {}
                        THEN [inside |-> thinking, pending |-> SubSeq(text, cut, Len(text)),
                              content |-> <<>>, reasoning |-> <<>>]
                        ELSE split[from + cut - 1 + Len(tag)][~thinking]
            IN  IF thinking
                THEN [rest EXCEPT !.reasoning = Before(text, cut) \o @]
                ELSE [rest EXCEPT !.content = Before(text, cut) \o @]]
    IN  split[1][inside]

\* Mutant: the log keeps the reasoning of the last piece only.
Mut_process_chunk(f, input) ==
    LET s == Split(f.inside, f.pending \o input)
    IN  [filter |-> [inside |-> s.inside, pending |-> s.pending,
                     reasoning |-> s.reasoning],
         content |-> s.content, reasoning |-> s.reasoning]

\* One piece of a stream: the filter after it, the text that passes and the
\* reasoning taken out.
process_chunk(f, input) ==
    LET s == Split(f.inside, f.pending \o input)
    IN  [filter |-> [inside |-> s.inside, pending |-> s.pending,
                     reasoning |-> f.reasoning \o s.reasoning],
         content |-> s.content, reasoning |-> s.reasoning]

-------------------------------------------------------------------------------
\* A whole text: what is left of it, and its reasoning.  What follows a tag
\* that is never closed is all reasoning.
strip_think(text) ==
    LET strip[from \in 1 .. Len(text) + 1] ==
            LET left   == SubSeq(text, from, Len(text))
                opens  == Places(left, OpenTag)
                after  == After(left, Min(opens), OpenTag)
                closes == Places(after, CloseTag)
                rest   == IF closes = {} THEN [content |-> <<>>, reasoning |-> <<>>]
                          ELSE strip[Len(text) - Len(After(after, Min(closes), CloseTag)) + 1]
                inner  == IF closes = {} THEN after ELSE Before(after, Min(closes))
            IN  IF opens = {} THEN [content |-> left, reasoning |-> <<>>]
                ELSE [content |-> Before(left, Min(opens)) \o rest.content,
                      reasoning |-> inner \o rest.reasoning]
    IN  strip[1]
=============================================================================
