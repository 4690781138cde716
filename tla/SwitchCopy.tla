------------------------------- MODULE SwitchCopy -------------------------------
(* The switches of the plugins: rows of the settings table, and the copy in  *)
(* memory that requests look at (src/llm/plugin/mod.rs).  How the two change *)
(* is in PluginSwitches.                                                     *)
CONSTANTS
    Plugins,  \* the plugins, by the setting that switches them
    Master,   \* plugin.master_switch
    Tasks     \* changes and starts that may be under way at once

Settings == Plugins \cup {Master}

VARIABLES
    stored,   \* stored[s]: the value in the table, or none
    enabled,  \* enabled[p]: the copy of the plugins' switches
    master,   \* the copy of the master switch
    task,     \* task[t]: how far a refresh is
    lost      \* settings whose last change no refresh will bring

\* What a query of a switch gives: a missing row counts as off.
Value(s)  == stored[s] = TRUE
Copy(s)   == IF s = Master THEN master ELSE enabled[s]

\* No refresh is under way.
Free == [at |-> "idle"]

-----------------------------------------------------------------------------
(* A switch in memory that differs from its setting has a cause: a refresh   *)
(* that will bring the setting as it is now is under way, or the last change *)
(* was lost: made by an import or a reset, abandoned, or overwritten by a    *)
(* refresh that had read the setting before it (plugin/mod.rs:139-160 reads  *)
(* first and stores later; settings/mod.rs:46-66 refreshes after a change).  *)
SwitchesExplained ==
    \A s \in Settings : Copy(s) # Value(s) =>
        \/ s \in lost
        \/ \E t \in Tasks : task[t] # Free /\ s \notin task[t].late
=============================================================================
