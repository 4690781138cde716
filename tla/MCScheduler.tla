------------------------------- MODULE MCScheduler -------------------------------
(* The scheduler for TLC: its breaker, and its order of candidates with the  *)
(* sticky sessions. The relay asks both, the one for the channels to try and *)
(* the other for each key of a channel, and they share no state: a behaviour *)
(* of this module is one of the part in focus, and the other is parked.      *)
EXTENDS CircuitBreaker, Ranking

CONSTANTS Limited, Managed, MaxSamples

VARIABLES focus, samples

choiceVars == <<stats, listed, active, usable, sticky, samples>>
allVars    == <<focus, vars, choiceVars>>

\* Two items of one tier and two of the next, with channel 2 in both tiers;
\* the channels differ in speed.
RouteItems ==
    <<[channel |-> 1, priority |-> 1, model |-> "a"],
      [channel |-> 2, priority |-> 1, model |-> "a"],
      [channel |-> 2, priority |-> 2, model |-> "b"],
      [channel |-> 3, priority |-> 2, model |-> "b"]>>
Latency == [c \in ChannelIds |-> 50 * c]

Choice == INSTANCE Selection

ASSUME SchedulerAssumption == Choice!SelectionAssumption

\* Choice has a single initial state and stays in it; the breaker stays in one
\* of its own.
OnePart ==
    /\ focus \in {"breaker", "choice"}
    /\ Init
    /\ focus = "choice" => \A r \in Requests : target[r] = CHOOSE k \in Keys : TRUE
    /\ Choice!Init

BreakerStep == focus = "breaker" /\ Next /\ UNCHANGED <<focus, choiceVars>>
ChoiceStep  == focus = "choice" /\ Choice!Next /\ UNCHANGED <<focus, vars>>

\* The fairness of the breaker, while it is in focus.
BreakerFairness ==
    /\ WF_vars(focus = "breaker" /\ Tick)
    /\ \A r \in Requests :
         /\ WF_vars(focus = "breaker" /\ HalfOpen(r))
         /\ WF_vars(focus = "breaker"
                    /\ (RecordSuccess(r) \/ RecordFailure(r) \/ EndUnrecorded(r)))

Scheduler == OnePart /\ [][BreakerStep \/ ChoiceStep]_allVars /\ BreakerFairness
=============================================================================
