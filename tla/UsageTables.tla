------------------------------ MODULE UsageTables ------------------------------
(* The tables of finished requests, usage_logs and usage_payloads, and what   *)
(* the budgets read from them (src/repository/usage_repository).  How records *)
(* get there and are deleted again is in UsageLog.                            *)
EXTENDS Integers

CONSTANTS
    Records,      \* finished requests, each with a cost
    MonthDays,    \* the days of a month
    TicksPerDay,  \* how finely the time of day is told apart
    Never         \* no time: not inserted yet, or deleted

VARIABLES
    now,      \* the clock of the database, UTC
    log,      \* log[i]: when the row of record i was inserted, or Never
    payload,  \* payload[i]: when its texts were inserted, or Never
    billed,   \* billed[i]: when the cost of i was first in the table, or Never
    swept     \* the retentions, in days, of the clean-ups of usage_logs so far

-----------------------------------------------------------------------------
(* What aggregate_cost sums.                                                 *)

Day(t)   == t \div TicksPerDay
Month(t) == Day(t) \div MonthDays

MonthlyRows == {i \in Records : log[i] # Never /\ Month(log[i]) = Month(now)}
DailyRows   == {i \in Records : log[i] # Never /\ Day(log[i]) = Day(now)}

(* What a budget sums of its period is all that was billed in it, except what *)
(* the clean-up of a shorter retention took: the month misses only what is    *)
(* older than a retention of less than a month, today misses nothing but for  *)
(* a retention of no day at all (maintenance.rs:5-19 sums the rows that are   *)
(* left, maintenance.rs:21-27 deletes by age, of any number of days).         *)
BudgetMissesOnlyOld ==
    \A i \in Records : billed[i] # Never =>
        /\ Month(billed[i]) = Month(now) /\ i \notin MonthlyRows =>
               \E days \in swept : days < MonthDays /\ now - billed[i] > days * TicksPerDay
        /\ Day(billed[i]) = Day(now) /\ i \notin DailyRows => 0 \in swept

(* Texts never outlive their row: one that arrives after the clean-up has    *)
(* taken the row is refused, and the others go with it (recorder.rs:42-58,   *)
(* write.rs:56-71, 1_initial_schema.sql:158).                                *)
PayloadsHaveRows == \A i \in Records : payload[i] # Never => log[i] # Never

(* The clean-ups and the records agree on both.                              *)
RetentionKeepsBooks == BudgetMissesOnlyOld /\ PayloadsHaveRows
=============================================================================
