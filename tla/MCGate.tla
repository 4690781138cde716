--------------------------------- MODULE MCGate ---------------------------------
(* Gate for TLC: one API key with a token limit.                           *)
EXTENDS Gate, TLC

CONSTANTS k1, json, stream

OneKey == json :> k1 @@ stream :> k1

NoBudget == [p \in Period |-> 0]

\* Tokens limited, requests not.
TokensOnly == {[rpm |-> 0, tpm |-> 1, budget |-> NoBudget]}
=============================================================================
