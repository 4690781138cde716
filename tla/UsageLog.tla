-------------------------------- MODULE UsageLog --------------------------------
(* The rows of usage_logs, from which the budgets of the keys are summed, and *)
(* the recorded texts in usage_payloads: how a record is saved, in three      *)
(* queries (src/service/stats/recorder.rs), and what the two daily clean-ups  *)
(* delete (src/llm/relay/scheduler_task.rs, repository/usage_repository).     *)
EXTENDS UsageTables

CONSTANTS
    Retentions,   \* what usage.retention_days and usage.payload_retention_days may be
    MaxTime       \* bounds the clock

\* What the configuration has to see to (MCServices assumes it).
UsageLogAssumption ==
    /\ Retentions \subseteq Nat
    /\ MonthDays \in Nat \ {0} /\ TicksPerDay \in Nat \ {0}
    /\ MaxTime \in Nat /\ Never \notin Nat

VARIABLES
    step,     \* step[i]: how far the saving of record i is
    keep      \* usage.record_content

vars == <<now, log, payload, step, keep, billed, swept>>

Times == 0 .. MaxTime

TypeOK ==
    /\ now \in Times
    /\ log \in [Records -> Times \cup {Never}]
    /\ payload \in [Records -> Times \cup {Never}]
    /\ step \in [Records -> {"new", "row", "wanted", "done"}]
    /\ keep \in BOOLEAN
    /\ billed \in [Records -> Times \cup {Never}]
    /\ swept \subseteq Retentions

Init ==
    /\ now = 0
    /\ log = [i \in Records |-> Never]
    /\ payload = [i \in Records |-> Never]
    /\ step = [i \in Records |-> "new"]
    /\ keep \in BOOLEAN
    /\ billed = [i \in Records |-> Never]
    /\ swept = {}

-----------------------------------------------------------------------------
(* StatsRecorder::record_request.                                            *)

InsertRow(i) ==
    /\ step[i] = "new"
    /\ log' = [log EXCEPT ![i] = now]
    /\ billed' = [billed EXCEPT ![i] = now]
    /\ step' = [step EXCEPT ![i] = "row"]
    /\ UNCHANGED <<now, payload, keep, swept>>

ReadSwitch(i) ==
    /\ step[i] = "row"
    /\ step' = [step EXCEPT ![i] = IF keep THEN "wanted" ELSE "done"]
    /\ UNCHANGED <<now, log, payload, keep, billed, swept>>

\* The texts refer to the row: without it they are refused.
InsertPayload(i) ==
    /\ step[i] = "wanted"
    /\ payload' = IF log[i] # Never THEN [payload EXCEPT ![i] = now] ELSE payload
    /\ step' = [step EXCEPT ![i] = "done"]
    /\ UNCHANGED <<now, log, keep, billed, swept>>

\* A query fails, the future is dropped, or the process ends. What is in the
\* tables stays there.
GiveUp(i) ==
    /\ step[i] # "done"
    /\ step' = [step EXCEPT ![i] = "done"]
    /\ UNCHANGED <<now, log, payload, keep, billed, swept>>

-----------------------------------------------------------------------------
(* The scheduler's daily jobs, each with the days the settings name when it   *)
(* runs: any number that parses, since the settings are not checked.          *)

\* Mutant: a row is deleted a day too early.
MutBefore(t, days) == t # Never /\ now - t > (days - 1) * TicksPerDay

Before(t, days) == t # Never /\ now - t > days * TicksPerDay

\* Mutant: the texts are not deleted with their row.
MutKeepPayloads(days) ==
    LET old == {i \in Records : Before(log[i], days)} IN
    /\ log' = [i \in Records |-> IF i \in old THEN Never ELSE log[i]]
    /\ swept' = swept \cup {days}
    /\ UNCHANGED <<now, payload, step, keep, billed>>

\* The texts go with their row.
CleanLogs(days) ==
    LET old == {i \in Records : Before(log[i], days)} IN
    /\ log' = [i \in Records |-> IF i \in old THEN Never ELSE log[i]]
    /\ payload' = [i \in Records |-> IF i \in old THEN Never ELSE payload[i]]
    /\ swept' = swept \cup {days}
    /\ UNCHANGED <<now, step, keep, billed>>

CleanPayloads(days) ==
    /\ payload' = [i \in Records |-> IF Before(payload[i], days) THEN Never ELSE payload[i]]
    /\ UNCHANGED <<now, log, step, keep, billed, swept>>

SwitchContent ==
    /\ keep' = ~keep
    /\ UNCHANGED <<now, log, payload, step, billed, swept>>

Tick ==
    /\ now < MaxTime
    /\ now' = now + 1
    /\ UNCHANGED <<log, payload, step, keep, billed, swept>>

Next ==
    \/ \E i \in Records : InsertRow(i) \/ ReadSwitch(i) \/ InsertPayload(i) \/ GiveUp(i)
    \/ \E days \in Retentions : CleanLogs(days) \/ CleanPayloads(days)
    \/ SwitchContent
    \/ Tick

Spec == Init /\ [][Next]_vars
=============================================================================
