-------------------------------- MODULE MCRelay --------------------------------
(* Relay for TLC: the channels of a configuration by name, each with its   *)
(* keys and its limit.                                                     *)
EXTENDS Relay, TLC

CONSTANTS c1, c2, k1, k2

OneChannel  == {c1}
TwoChannels == {c1, c2}

\* A channel with two keys; two channels with a key each.
TwoKeys    == c1 :> <<k1, k2>>
OneKeyEach == c1 :> <<k1>> @@ c2 :> <<k1>>

\* One slot; one slot and no limit.
OneSlot       == c1 :> 1
OneAndNoLimit == c1 :> 1 @@ c2 :> 0
=============================================================================
