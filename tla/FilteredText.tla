------------------------------ MODULE FilteredText ------------------------------
(* A text that reaches the thinking filter of plugin/thinking.rs piece by    *)
(* piece, as the chunks of an upstream bring it.                             *)
EXTENDS ThinkFilter

CONSTANTS
    Letters,      \* What a text is made of.
    MaxText,      \* The longest text.
    MaxPiece      \* The longest piece.

ASSUME FilteredTextAssumption ==
    MaxText \in Nat /\ MaxPiece \in Nat /\ {"<", "t", "/", ">"} \subseteq Letters

VARIABLES
    fed,          \* What the filter was fed so far.
    filter,       \* ThinkingProcessor.
    passed        \* [content, reasoning] the filter gave out.

filterVars == <<fed, filter, passed>>

Pieces(S) == UNION {[1 .. n -> S] : n \in 1 .. MaxPiece}

\* Less than a tag is held back, and the log has all the reasoning.
FilterTypeOK ==
    /\ fed \in Seq(Letters) /\ Len(fed) <= MaxText
    /\ filter.inside \in BOOLEAN
    /\ filter.pending \in Seq(Letters) /\ Len(filter.pending) < Len(OpenTag)
    /\ filter.reasoning = passed.reasoning

FilterInit ==
    /\ fed = <<>> /\ filter = NewFilter
    /\ passed = [content |-> <<>>, reasoning |-> <<>>]

\* observe: a piece of text goes through the filter.
Observe(piece) ==
    /\ Len(fed) + Len(piece) <= MaxText
    /\ LET step == process_chunk(filter, piece) IN
          /\ fed' = fed \o piece
          /\ filter' = step.filter
          /\ passed' = [content |-> passed.content \o step.content,
                        reasoning |-> passed.reasoning \o step.reasoning]

FilterNext == \E piece \in Pieces(Letters) : Observe(piece)

FilterSpec == FilterInit /\ [][FilterNext]_filterVars

-------------------------------------------------------------------------------
(* Wherever a text is cut, the pieces give what strip_think gives for the    *)
(* whole: what is reasoning and what passes does not depend on the chunks,   *)
(* and nothing is lost or repeated.  Only the letters that may still begin a *)
(* tag are held back (plugin/thinking.rs:72-184).                            *)
CutsDoNotMatter ==
    LET whole == strip_think(fed) IN
    IF filter.inside
    THEN /\ whole.content = passed.content
         /\ whole.reasoning = passed.reasoning \o filter.pending
    ELSE /\ whole.content = passed.content \o filter.pending
         /\ whole.reasoning = passed.reasoning
=============================================================================
