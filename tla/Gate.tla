---------------------------------- MODULE Gate ----------------------------------
(***************************************************************************)
(* What stands before the relay: handle_proxy_request checks the rate      *)
(* limits of an API key and its budget, and the end of the request books   *)
(* what it used (src/src/llm/relay/{ratelimit,pipeline/dispatch,           *)
(* pipeline/access}.rs, src/src/service/stats/recorder.rs).  The check and *)
(* the booking are far apart, and other requests of the key pass between.  *)
(*                                                                         *)
(* Time is counted in ticks, Window of which are WINDOW_SECS.  Cost and    *)
(* limits are counted in the same small unit.                              *)
(***************************************************************************)
EXTENDS GateLimits

CONSTANTS
    Streams,     \* the workers whose requests have "stream": true
    Cap          \* bound: tokens, and the history, are not counted past this

GateAssumption ==
    /\ IsFiniteSet(Workers)
    /\ KeyOf \in [Workers -> ApiKeys]
    /\ Streams \subseteq Workers
    /\ Limits \subseteq [rpm : Nat, tpm : Nat, budget : [Period -> Nat]]
    /\ MaxTokens \in Nat
    /\ MaxCost \in Nat
    /\ Window \in Nat \ {0}
    /\ Cap \in Nat

vars == <<limits, windows, spent, at, tokens, recent>>

WindowState == [known : BOOLEAN, age : 0..(2 * Window), requests : Nat, tokens : Nat]

NoWindow    == [known |-> FALSE, age |-> 0, requests |-> 0, tokens |-> 0]
FreshWindow == [known |-> TRUE, age |-> 0, requests |-> 0, tokens |-> 0]

TypeOK ==
    /\ limits \in [ApiKeys -> Limits]
    /\ windows \in [ApiKeys -> WindowState]
    /\ spent \in [ApiKeys -> [Period -> Nat]]
    /\ at \in [Workers -> {"rpm", "tpm", "budget", "relay", "count"}]
    /\ tokens \in [Workers -> 0..MaxTokens]
    /\ recent \in [ApiKeys -> [0..(Window - 1) -> [requests : Nat, tokens : Nat]]]

Init ==
    /\ limits \in [ApiKeys -> Limits]
    /\ windows = [k \in ApiKeys |-> NoWindow]
    /\ spent = [k \in ApiKeys |-> [p \in Period |-> 0]]
    /\ at = [w \in Workers |-> "rpm"]
    /\ tokens = [w \in Workers |-> 0]
    /\ recent = [k \in ApiKeys |->
                   [i \in 0..(Window - 1) |-> [requests |-> 0, tokens |-> 0]]]

-----------------------------------------------------------------------------
(* The window of a key.                                                    *)

\* The entry check_rpm finds: inserted if missing, reset if its minute is over.
Entered(win) == IF Runs(win) THEN win ELSE FreshWindow

Capped(n) == IF n < Cap THEN n ELSE Cap

\* check_rpm lets a request through.
RpmOpen(win, limit) == limit = 0 \/ Entered(win).requests < limit

\* Mutant: the request that finds the limit reached passes as well.
MutTpmOpen(win, limit) == limit = 0 \/ ~Runs(win) \/ win.tokens <= limit

\* check_tpm does: a window that is over limits nothing.
TpmOpen(win, limit) == limit = 0 \/ ~Runs(win) \/ win.tokens < limit

\* Mutant: a window that is over has its counters reset, its start left alone.
MutRpmCheckedOld(win, limit) ==
    LET found == [Entered(win) EXCEPT !.age = win.age]
    IN  IF limit = 0 THEN win
        ELSE IF found.requests < limit
        THEN [found EXCEPT !.requests = @ + 1]
        ELSE found

\* Mutant: a refused request starts the minute again.
MutRpmCheckedSlides(win, limit) ==
    LET found == Entered(win)
    IN  IF limit = 0 THEN win
        ELSE IF found.requests < limit
        THEN [found EXCEPT !.requests = @ + 1]
        ELSE [found EXCEPT !.age = 0]

\* What check_rpm leaves behind: nothing changes for an unlimited key.
RpmChecked(win, limit) ==
    LET found == Entered(win)
    IN  IF limit = 0 THEN win
        ELSE IF found.requests < limit
        THEN [found EXCEPT !.requests = @ + 1]
        ELSE found

\* record_tokens: a missing entry is inserted; an entry whose minute is over
\* is neither reset nor added to.
TokensRecorded(win, n) ==
    LET found == IF win.known THEN win ELSE FreshWindow
    IN  IF Runs(found) THEN [found EXCEPT !.tokens = Capped(@ + n)] ELSE found

WindowAged(win) ==
    IF win.known /\ win.age < 2 * Window THEN [win EXCEPT !.age = @ + 1] ELSE win

\* check_budget: a limit of 0 is none.
UnderBudget(k) ==
    \A p \in Period : limits[k].budget[p] = 0 \/ spent[k][p] < limits[k].budget[p]

-----------------------------------------------------------------------------
(* A request of worker w.                                                  *)

Noted(k, field, limit, n) ==
    recent' = IF limit = 0 THEN recent
              ELSE [recent EXCEPT ![k][0][field] = Capped(@ + n)]

CheckRpm(w) ==
    LET k == KeyOf[w]
    IN  /\ at[w] = "rpm"
        /\ windows' = [windows EXCEPT ![k] = RpmChecked(@, limits[k].rpm)]
        /\ IF RpmOpen(windows[k], limits[k].rpm)
           THEN at' = [at EXCEPT ![w] = "tpm"] /\ Noted(k, "requests", limits[k].rpm, 1)
           ELSE UNCHANGED <<at, recent>>
        /\ UNCHANGED <<limits, spent, tokens>>

\* A 429 here has used up one of the key's requests all the same.
CheckTpm(w) ==
    /\ at[w] = "tpm"
    /\ at' = [at EXCEPT ![w] =
                IF TpmOpen(windows[KeyOf[w]], limits[KeyOf[w]].tpm)
                THEN "budget" ELSE "rpm"]
    /\ UNCHANGED <<limits, windows, spent, tokens, recent>>

PassBudget(w) ==
    /\ at[w] = "budget" /\ UnderBudget(KeyOf[w])
    /\ at' = [at EXCEPT ![w] = "relay"]
    /\ UNCHANGED <<limits, windows, spent, tokens, recent>>

\* The budget is used up, a query fails, or validate_model_access says no: a
\* record without cost or tokens.
Refuse(w) ==
    /\ at[w] = "budget"
    /\ at' = [at EXCEPT ![w] = "rpm"]
    /\ UNCHANGED <<limits, windows, spent, tokens, recent>>

\* record_request: the row of usage_logs, then the setting and the payload.
\* After an error in the second part the row stays.  A request without a
\* stream goes on to record its tokens in any case, a stream only if all of
\* it went well; zero tokens are not recorded.
SaveRecord(w, n, cost, outcome) ==
    LET k == KeyOf[w]
        counts == n > 0 /\ (w \in Streams => outcome = "saved")
    IN  /\ at[w] = "relay"
        /\ spent' = IF outcome = "lost" THEN spent
                    ELSE [spent EXCEPT ![k] =
                            [p \in Period |->
                               IF limits[k].budget[p] = 0 THEN 0 ELSE @[p] + cost]]
        /\ tokens' = [tokens EXCEPT ![w] = IF counts THEN n ELSE 0]
        /\ at' = [at EXCEPT ![w] = IF counts THEN "count" ELSE "rpm"]
        /\ UNCHANGED <<limits, windows, recent>>

RecordTokens(w) ==
    /\ at[w] = "count"
    /\ windows' = [windows EXCEPT ![KeyOf[w]] = TokensRecorded(@, tokens[w])]
    /\ Noted(KeyOf[w], "tokens", limits[KeyOf[w]].tpm, tokens[w])
    /\ tokens' = [tokens EXCEPT ![w] = 0]
    /\ at' = [at EXCEPT ![w] = "rpm"]
    /\ UNCHANGED <<limits, spent>>

\* The client leaves, and the handler goes with it; a stream's record is
\* written by a task that stays.
Disconnect(w) ==
    /\ at[w] \in {"tpm", "budget", "relay"} \/ (at[w] = "count" /\ w \notin Streams)
    /\ at' = [at EXCEPT ![w] = "rpm"]
    /\ tokens' = [tokens EXCEPT ![w] = 0]
    /\ UNCHANGED <<limits, windows, spent, recent>>

-----------------------------------------------------------------------------
(* The scheduler's clean-up, and time.                                     *)

\* RateLimiter::cleanup drops the entries two windows old.
Cleanup ==
    /\ windows' = [k \in ApiKeys |-> IF windows[k].age < 2 * Window
                                     THEN windows[k] ELSE NoWindow]
    /\ UNCHANGED <<limits, spent, at, tokens, recent>>

Tick ==
    /\ windows' = [k \in ApiKeys |-> WindowAged(windows[k])]
    /\ recent' = [k \in ApiKeys |-> [i \in 0..(Window - 1) |->
                    IF i = 0 THEN [requests |-> 0, tokens |-> 0]
                    ELSE recent[k][i - 1]]]
    /\ UNCHANGED <<limits, spent, at, tokens>>

\* Midnight (UTC), which may also begin a month.
NewDay(month) ==
    /\ spent' = [k \in ApiKeys |-> [p \in Period |->
                   IF p = "daily" \/ month THEN 0 ELSE spent[k][p]]]
    /\ UNCHANGED <<limits, windows, at, tokens, recent>>

-----------------------------------------------------------------------------

Step(w) ==
    \/ CheckRpm(w) \/ CheckTpm(w) \/ PassBudget(w) \/ Refuse(w)
    \/ \E n \in 0..MaxTokens, cost \in 0..MaxCost,
          outcome \in {"saved", "partly", "lost"} : SaveRecord(w, n, cost, outcome)
    \/ RecordTokens(w) \/ Disconnect(w)

Next ==
    \/ \E w \in Workers : Step(w)
    \/ Cleanup \/ Tick
    \/ \E month \in BOOLEAN : NewDay(month)

Spec == Init /\ [][Next]_vars

\* Time passes.  Requests may stop coming, or get stuck.
FairSpec == Spec /\ WF_vars(Tick)

-----------------------------------------------------------------------------
(* Properties; those of the limits are in GateLimits.                       *)

\* However often a key is refused, the rate limits open again for it.
LimitsReopen ==
    \A k \in ApiKeys :
        []<>(RpmOpen(windows[k], limits[k].rpm) /\ TpmOpen(windows[k], limits[k].tpm))

(* What the repository says, and the code does not do.                     *)

\* ratelimit.rs:24-26, "a window a minute, reset when it is over" and "TPM
\* checks what has been recorded": in no stretch as long as a window does a
\* key record more tokens than two windows and the requests under way allow.
TpmPerMinute ==
    \A k \in ApiKeys : limits[k].tpm > 0 =>
        Recently(k, "tokens") <= 2 * (limits[k].tpm - 1 + MaxTokens * WorkersOf(k))
                                 + MaxTokens * WorkersOf(k)
=============================================================================
