-------------------------------- MODULE Pricing --------------------------------
(* The prices of the models: the table model_info, the copy in memory that   *)
(* requests are billed from, and the file the fetched list is kept in        *)
(* (src/service/pricing/model.rs, refresher.rs and main.rs). Two tasks fetch *)
(* the list from the network, one when the process starts and one on a       *)
(* timer; administrators change single models.  The client that asks for the *)
(* list has no timeout: an answer may never come, and the timer waits for it. *)
EXTENDS Integers

CONSTANTS
    Models, Prices,
    None,        \* a model without a row
    Torn,        \* the content of a file that was not written to its end
    Start,       \* the fetch main() starts once
    Timer,       \* the fetch of the PricingRefresher
    Admins,      \* requests to change a model that may be under way at once
    MaxUpdates,  \* bounds the changes by administrators
    MaxFaults    \* bounds failed requests and queries, and restarts

\* What the configuration has to see to (MCServices assumes it).
PricingAssumption ==
    /\ None \notin Prices
    /\ Start # Timer
    /\ MaxUpdates \in Nat /\ MaxFaults \in Nat

VARIABLES
    table,    \* the price of each row of model_info
    memory,   \* the copy in memory
    file,     \* the content of the cache file
    fetch,    \* fetch[f]: how far a fetch is
    change,   \* change[a]: the change of an administrator
    updates,  \* changes made
    faults    \* failures and restarts so far

vars == <<table, memory, file, fetch, change, updates, faults>>

Fetches == {Start, Timer}
Lists   == [Models -> Prices \cup {None}]
Empty   == [m \in Models |-> None]
Listed(list) == {m \in Models : list[m] # None}

Idle       == [at |-> "idle"]
Asked      == [at |-> "asked"]
\* The start's fetch runs once.
Finished(f) == IF f = Timer THEN Idle ELSE [at |-> "done"]
\* A fetch writes the file, alone or over another one's writing, then the rows
\* of its list, and then reads all rows into the memory.
Writing(list, alone) == [at |-> "write", list |-> list, alone |-> alone]
Upserting(list, todo) == [at |-> "upsert", list |-> list, todo |-> todo]
Loaded(rows) == [at |-> "load", rows |-> rows]
Change(at, m, p) == [at |-> at, model |-> m, price |-> p]

TypeOK ==
    /\ table \in Lists /\ memory \in Lists
    /\ file \in Lists \cup {Torn}
    /\ \A f \in Fetches :
          fetch[f].at \in {"idle", "asked", "done", "write", "upsert", "load"}
    /\ \A a \in Admins : change[a] = Idle
          \/ change[a] \in [at : {"merged", "written"}, model : Models, price : Prices]
    /\ updates \in 0 .. MaxUpdates /\ faults \in 0 .. MaxFaults

\* main() loads the table, and the file into an empty table. A row of the
\* file that cannot be written leaves the rows before it, and no memory.
Begin(rows, content) ==
    \/ /\ Listed(rows) # {} \/ content \in {Torn, Empty}
       /\ table' = rows /\ memory' = rows
    \/ /\ Listed(rows) = {} /\ content # Torn
       /\ table' = content /\ memory' = content
    \/ /\ Listed(rows) = {} /\ content # Torn
       /\ \E done \in SUBSET Listed(content) :
             table' = [m \in Models |-> IF m \in done THEN content[m] ELSE None]
       /\ memory' = Empty

Init ==
    /\ table \in {Empty} \cup [Models -> Prices] /\ memory = table
    /\ file = Torn
    /\ fetch = [f \in Fetches |-> Idle]
    /\ change = [a \in Admins |-> Idle]
    /\ updates = 0 /\ faults = 0

Restart ==
    /\ faults < MaxFaults
    /\ Begin(table, file)
    /\ fetch' = [f \in Fetches |-> Idle]
    /\ change' = [a \in Admins |-> Idle]
    /\ faults' = faults + 1
    /\ UNCHANGED <<file, updates>>

-----------------------------------------------------------------------------
(* fetch_remote_pricing.                                                     *)

Other(f) == IF f = Start THEN Timer ELSE Start

\* The list is asked for: once by main(), and by the timer when it ticks and
\* its last fetch is over.
Ask(f) ==
    /\ fetch[f] = Idle
    /\ fetch' = [fetch EXCEPT ![f] = Asked]
    /\ UNCHANGED <<table, memory, file, change, updates, faults>>

\* The list arrives, models without a price left out, and the file is opened,
\* which empties it.
Fetch(f, list) ==
    /\ fetch[f] = Asked
    /\ LET shared == fetch[Other(f)].at = "write" IN
       fetch' = [g \in Fetches |->
                    CASE g = f -> Writing(list, ~shared)
                      [] shared /\ g # f -> [fetch[g] EXCEPT !.alone = FALSE]
                      [] OTHER -> fetch[g]]
    /\ file' = Torn
    /\ UNCHANGED <<table, memory, change, updates, faults>>

WriteFile(f) ==
    /\ fetch[f].at = "write"
    /\ \/ file' = fetch[f].list
       \/ ~fetch[f].alone /\ file' = Torn
    /\ fetch' = [fetch EXCEPT ![f] = Upserting(@.list, Listed(@.list))]
    /\ UNCHANGED <<table, memory, change, updates, faults>>

UpsertRow(f) ==
    /\ fetch[f].at = "upsert"
    /\ \E m \in fetch[f].todo :
          /\ table' = [table EXCEPT ![m] = fetch[f].list[m]]
          /\ fetch' = [fetch EXCEPT ![f].todo = @ \ {m}]
    /\ UNCHANGED <<memory, file, change, updates, faults>>

\* load_from_db reads all rows ...
LoadRows(f) ==
    /\ fetch[f].at = "upsert" /\ fetch[f].todo = {}
    /\ fetch' = [fetch EXCEPT ![f] = Loaded(table)]
    /\ UNCHANGED <<table, memory, file, change, updates, faults>>

\* Mutant: the rows are added, and what the memory has already is kept.
MutReplaceMemory(f) ==
    /\ fetch[f].at = "load"
    /\ memory' = [m \in Models |-> IF memory[m] # None THEN memory[m] ELSE fetch[f].rows[m]]
    /\ fetch' = [fetch EXCEPT ![f] = Finished(f)]
    /\ UNCHANGED <<table, file, change, updates, faults>>

\* ... then takes the lock and replaces the memory by them.
ReplaceMemory(f) ==
    /\ fetch[f].at = "load"
    /\ memory' = fetch[f].rows
    /\ fetch' = [fetch EXCEPT ![f] = Finished(f)]
    /\ UNCHANGED <<table, file, change, updates, faults>>

\* A request, a write or a query fails. What was written stays written.
FetchFails(f) ==
    /\ fetch[f].at \in {"asked", "write", "upsert"}
    /\ faults < MaxFaults
    /\ fetch' = [fetch EXCEPT ![f] = Finished(f)]
    /\ faults' = faults + 1
    /\ UNCHANGED <<table, memory, file, change, updates>>

-----------------------------------------------------------------------------
(* update_model_info, by an administrator.                                   *)

\* Without a price in the request the one in memory is kept. (A change that
\* leaves a new model without any price is left out: it is billed as none.)
Merge(a, m, p) ==
    /\ change[a] = Idle
    /\ p # None \/ memory[m] # None
    /\ updates < MaxUpdates
    /\ change' = [change EXCEPT ![a] = Change("merged", m, IF p # None THEN p ELSE memory[m])]
    /\ updates' = updates + 1
    /\ UNCHANGED <<table, memory, file, fetch, faults>>

WriteRow(a) ==
    /\ change[a].at = "merged"
    /\ table' = [table EXCEPT ![change[a].model] = change[a].price]
    /\ change' = [change EXCEPT ![a].at = "written"]
    /\ UNCHANGED <<memory, file, fetch, updates, faults>>

InsertPrice(a) ==
    /\ change[a].at = "written"
    /\ memory' = [memory EXCEPT ![change[a].model] = change[a].price]
    /\ change' = [change EXCEPT ![a] = Idle]
    /\ UNCHANGED <<table, file, fetch, updates, faults>>

\* A query fails, or the client leaves and its future is dropped.
Abandon(a) ==
    /\ change[a] # Idle
    /\ change' = [change EXCEPT ![a] = Idle]
    /\ UNCHANGED <<table, memory, file, fetch, updates, faults>>

FetchStep(f)  == WriteFile(f) \/ UpsertRow(f) \/ LoadRows(f) \/ ReplaceMemory(f)
TimerFires    == Ask(Timer)
ChangeStep(a) == WriteRow(a) \/ InsertPrice(a)

Next ==
    \/ Restart
    \/ \E f \in Fetches : \/ Ask(f) \/ \E list \in Lists : Fetch(f, list)
                          \/ FetchStep(f) \/ FetchFails(f)
    \/ \E a \in Admins : \/ \E m \in Models, p \in Prices \cup {None} : Merge(a, m, p)
                         \/ ChangeStep(a) \/ Abandon(a)

\* The timer ticks for ever; a fetch that has its list goes on, and so does
\* each administrator's request.  Nothing is assumed of the answer: a request
\* for the list may be answered, may fail, or may wait for ever.  Failures are
\* bounded by MaxFaults, and after that the file and the database take writes.
Fairness ==
    /\ \A f \in Fetches : WF_vars(FetchStep(f))
    /\ WF_vars(TimerFires)
    /\ \A a \in Admins : WF_vars(ChangeStep(a))

Spec == Init /\ [][Next]_vars /\ Fairness

-----------------------------------------------------------------------------
(* Whatever fetches and administrators do between each other's queries, lost *)
(* or overwritten prices in memory are not for ever: the prices that bill a  *)
(* request are those of the table again and again (model.rs:81-92 replaces   *)
(* the memory after every fetch, refresher.rs:37-55 runs one every few       *)
(* hours), unless a request of the timer is never answered: it has no        *)
(* timeout, and the timer's loop waits for it (model.rs:76, 120-128).        *)
PricesReturn == []<>(memory = table) \/ <>[](fetch[Timer] = Asked)
=============================================================================
