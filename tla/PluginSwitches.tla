----------------------------- MODULE PluginSwitches -----------------------------
(* The switches of the plugins: rows of the settings table, and the copy in  *)
(* memory that requests look at (src/llm/plugin/mod.rs). A change of a       *)
(* plugin setting reads all switches again, one query each, and then         *)
(* replaces the copy; so does a start of the process.                        *)
EXTENDS SwitchCopy, Integers, Sequences

CONSTANTS
    Order,    \* the settings in the order refresh() reads them
    Requests, \* requests that may be between the two looks at the copy
    None

\* What the configuration has to see to (MCServices assumes it).
PluginSwitchesAssumption ==
    /\ Master \notin Plugins /\ None \notin BOOLEAN
    /\ Order \in Seq(Settings)
    /\ \A s \in Settings : \E i \in DOMAIN Order : Order[i] = s
    /\ Order[Len(Order)] = Master

VARIABLE
    checked   \* the requests that have found the master switch on

vars == <<stored, enabled, master, task, checked, lost>>

\* A refresh that has read the first n settings into got. What changed in
\* the table after it was read is late.
Reading(n, got, late) == [at |-> "read", n |-> n, got |-> got, late |-> late]
Locked(got, late)     == [at |-> "locked", got |-> got, late |-> late]

TypeOK ==
    /\ stored \in [Settings -> BOOLEAN \cup {None}]
    /\ enabled \in [Plugins -> BOOLEAN]
    /\ master \in BOOLEAN
    /\ task \in [Tasks -> {Free}
          \cup {Reading(n, g, l) : n \in 0 .. Len(Order), g \in [Settings -> BOOLEAN], l \in SUBSET Settings}
          \cup {Locked(g, l) : g \in [Settings -> BOOLEAN], l \in SUBSET Settings}]
    /\ checked \subseteq Requests
    /\ lost \subseteq Settings

Off == [s \in Settings |-> FALSE]

Refresh == Reading(0, Off, {})

\* The process starts with empty switches and one refresh before it serves.
Init ==
    /\ stored \in [Settings -> BOOLEAN]
    /\ enabled = [p \in Plugins |-> FALSE]
    /\ master = FALSE
    /\ task \in {[t \in Tasks |-> IF t = b THEN Refresh ELSE Free] : b \in Tasks}
    /\ checked = {}
    /\ lost = {}

Restart ==
    /\ enabled' = [p \in Plugins |-> FALSE]
    /\ master' = FALSE
    /\ \E b \in Tasks : task' = [t \in Tasks |-> IF t = b THEN Refresh ELSE Free]
    /\ checked' = {}
    /\ lost' = {}
    /\ UNCHANGED stored

\* Refreshes that have read a setting of S before it changed.
Overtaken(S) ==
    [t \in Tasks |->
        CASE task[t].at = "read" ->
                [task[t] EXCEPT !.late = @ \cup {s \in S : \E i \in 1 .. task[t].n : Order[i] = s}]
          [] task[t].at = "locked" -> [task[t] EXCEPT !.late = @ \cup S]
          [] OTHER -> task[t]]

\* Mutant: a change of the master switch does not refresh.
MutUpdate(t, s, v) ==
    /\ task[t] = Free
    /\ stored[s] # None
    /\ stored' = [stored EXCEPT ![s] = v]
    /\ task' = [Overtaken({s}) EXCEPT ![t] = IF s = Master THEN Free ELSE Refresh]
    /\ UNCHANGED <<enabled, master, checked, lost>>

\* SettingsService::update; a setting without a row is a 404.
Update(t, s, v) ==
    /\ task[t] = Free
    /\ stored[s] # None
    /\ stored' = [stored EXCEPT ![s] = v]
    /\ task' = [Overtaken({s}) EXCEPT ![t] = Refresh]
    /\ UNCHANGED <<enabled, master, checked, lost>>

\* The import of a backup changes rows that are there, and refreshes nothing.
Import(s, v) ==
    /\ stored[s] # None
    /\ stored' = [stored EXCEPT ![s] = v]
    /\ task' = Overtaken({s})
    /\ lost' = lost \cup {s}
    /\ UNCHANGED <<enabled, master, checked>>

\* The reset of a backup deletes all settings. Nothing inserts them again.
Reset ==
    /\ stored' = [s \in Settings |-> None]
    /\ task' = Overtaken(Settings)
    /\ lost' = Settings
    /\ UNCHANGED <<enabled, master, checked>>

ReadSwitch(t) ==
    /\ task[t].at = "read" /\ task[t].n < Len(Order)
    /\ LET s == Order[task[t].n + 1] IN
       task' = [task EXCEPT ![t] =
                  Reading(@.n + 1, [@.got EXCEPT ![s] = Value(s)], @.late \ {s})]
    /\ UNCHANGED <<stored, enabled, master, checked, lost>>

Unlocked == \A t \in Tasks : task[t].at # "locked"

\* The write lock is taken and the plugins' switches are replaced.
StoreSwitches(t) ==
    /\ task[t].at = "read" /\ task[t].n = Len(Order)
    /\ Unlocked
    /\ enabled' = [p \in Plugins |-> task[t].got[p]]
    /\ task' = [task EXCEPT ![t] = Locked(@.got, @.late)]
    /\ lost' = (lost \cap {Master}) \cup (task[t].late \ {Master})
    /\ UNCHANGED <<stored, master, checked>>

StoreMaster(t) ==
    /\ task[t].at = "locked"
    /\ master' = task[t].got[Master]
    /\ task' = [task EXCEPT ![t] = Free]
    /\ lost' = (lost \ {Master}) \cup task[t].late
    /\ UNCHANGED <<stored, enabled, checked>>

\* A query of the refresh fails, or the client leaves and its future is dropped.
Abandon(t) ==
    /\ task[t].at = "read"
    /\ task' = [task EXCEPT ![t] = Free]
    /\ lost' = lost \cup {s \in Settings : Copy(s) # Value(s)}
    /\ UNCHANGED <<stored, enabled, master, checked>>

-----------------------------------------------------------------------------
\* apply_request, apply_response and new_stream_processor look at the master
\* switch without a lock, and then at the others with one.
CheckMaster(r) ==
    /\ r \notin checked
    /\ master
    /\ checked' = checked \cup {r}
    /\ UNCHANGED <<stored, enabled, master, task, lost>>

RunPlugins(r) ==
    /\ r \in checked
    /\ Unlocked
    /\ checked' = checked \ {r}
    /\ UNCHANGED <<stored, enabled, master, task, lost>>

Next ==
    \/ \E t \in Tasks : \/ \E s \in Settings, v \in BOOLEAN : Update(t, s, v)
                        \/ ReadSwitch(t) \/ StoreSwitches(t) \/ StoreMaster(t) \/ Abandon(t)
    \/ \E s \in Settings, v \in BOOLEAN : Import(s, v)
    \/ Reset
    \/ Restart
    \/ \E r \in Requests : CheckMaster(r) \/ RunPlugins(r)

Spec == Init /\ [][Next]_vars
=============================================================================
