-------------------------------- MODULE Outcome --------------------------------
(* What is left of a request that is over: the last error of its channels,   *)
(* what its client is told of it and what the usage log keeps. How a request *)
(* gets there is in ErrorPath.                                               *)
EXTENDS Integers

VARIABLES
    error,          \* the last error of the candidate loop
    phase,          \* where the request is
    told, saved     \* the status the client is told, and that of the usage row

(* The client of a failed request and the usage log are told of one failure: *)
(* a 5xx or a 404 of the last upstream has the same status in both, and any  *)
(* other 4xx of its own, which is about the router's key or channel and not  *)
(* about the client, becomes a 503 for the client and stays what it was in   *)
(* the log. Two failures are beyond this: one that leaves no attempt, after  *)
(* which the log has the attempt before, and an answer of 200 that cannot be *)
(* converted, which the log has as a success (error/proxy.rs:73-122,         *)
(* recorder.rs:192-237).                                                     *)
OneFailureTold ==
    phase = "done" /\ told # 200 =>
        /\ told = 404 \/ told >= 500
        /\ error.logged /\ error.class # "internal" =>
              saved = told \/ (saved \in 400 .. 499 /\ told = 503)
=============================================================================
