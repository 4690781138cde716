------------------------------- MODULE GateLimits -------------------------------
(***************************************************************************)
(* What rate limits and budgets look at and is booked against them         *)
(* (src/src/llm/relay/ratelimit.rs, the costs of usage_logs), and by how   *)
(* much an API key can pass them.  What requests do is in Gate.            *)
(*                                                                         *)
(* Time is counted in ticks, Window of which are WINDOW_SECS.  Cost and    *)
(* limits are counted in the same small unit.                              *)
(***************************************************************************)
EXTENDS Integers, FiniteSets

CONSTANTS
    ApiKeys,
    Workers,     \* the requests that can be under way at once
    KeyOf,       \* worker -> the API key its requests carry
    Limits,      \* the settings a key can have
    MaxTokens,   \* bound: tokens of one request
    MaxCost,     \* bound: cost of one request
    Window       \* WINDOW_SECS, in ticks

VARIABLES
    limits,   \* key -> its limits; fixed while the model runs
    windows,  \* RateLimiter.windows: key -> window
    spent,    \* usage_logs: key -> period -> cost booked in it, if limited
    at,       \* where the worker's request is
    tokens,   \* the tokens it has still to record
    recent    \* history: key -> ticks ago -> requests let through and tokens
              \* recorded, where they are limited

Period == {"daily", "monthly"}

\* The window of a key is not over.
Runs(win) == win.known /\ win.age < Window

-----------------------------------------------------------------------------

UnderWay(k, places) == {w \in Workers : KeyOf[w] = k /\ at[w] \in places}

\* What a history notes, summed from now back over i ticks; and what was noted
\* for a key over the last Window ticks.
Sums(history, field) ==
    LET sum[i \in 0..Window] ==
            IF i = 0 THEN 0 ELSE sum[i - 1] + history[i - 1][field]
    IN  sum

Recently(k, field) == Sums(recent[k], field)[Window]

WorkersOf(k) == Cardinality({w \in Workers : KeyOf[w] = k})

\* In no stretch as long as a window are more requests let through than two
\* windows allow: windows that are reset, inserted and cleaned up never
\* overlap (check_rpm, cleanup).
RpmPerMinute ==
    \A k \in ApiKeys :
        limits[k].rpm > 0 => Recently(k, "requests") <= 2 * limits[k].rpm

\* The tokens of a window pass the limit only by what was under way when it
\* was reached: every worker's last request (check_tpm, record_tokens).
TokensBounded ==
    \A k \in ApiKeys : limits[k].tpm > 0 /\ Runs(windows[k]) =>
        windows[k].tokens + MaxTokens * Cardinality(UnderWay(k, {"budget", "relay", "count"}))
            <= limits[k].tpm - 1 + MaxTokens * WorkersOf(k)

\* The same for the budgets: a month and a day are overspent by what was
\* under way at most (check_budget, aggregate_cost).
SpendingBounded ==
    \A k \in ApiKeys, p \in Period : limits[k].budget[p] > 0 =>
        spent[k][p] + MaxCost * Cardinality(UnderWay(k, {"relay"}))
            <= limits[k].budget[p] - 1 + MaxCost * WorkersOf(k)

\* Both: what is over a limit was under way when it was reached.
OverrunUnderWay == TokensBounded /\ SpendingBounded
=============================================================================
