------------------------------- MODULE MCStreamLoop -------------------------------
(* StreamLoop for TLC: a text without a tag, one that opens a tag, one that   *)
(* may begin a tag, and one that completes a closing tag after it.           *)
EXTENDS StreamLoop

SomePieces == {<<"x">>, <<"x", "<", "t", ">">>, <<"<">>, <<"/", ">", "x">>}
=============================================================================
