----------------------------- MODULE ServicesProofs -----------------------------
(***************************************************************************)
(* Machine-checked proofs about five services that share nothing: the      *)
(* switches of the plugins, the rows of usage, the errors of a request,    *)
(* conversations, and the thinking filter. The first and the last are      *)
(* extended; the others are instances next to them, which share the state  *)
(* their promises are about.                                               *)
(***************************************************************************)
EXTENDS PluginSwitches, UsageTables, Outcome, Dialogue, FilteredText,
        SequenceTheorems, WellFoundedInduction, TLAPS

CONSTANTS
    Retentions, MaxTime,
    MaxChannels, MaxKeys,
    MaxTurns

VARIABLES
    step, keep,
    streamed, channel, key, pass, tally, keyError, attempts,
    client, tools, turn

Usage  == INSTANCE UsageLog
Errors == INSTANCE ErrorPath
Talk   == INSTANCE Conversation

-----------------------------------------------------------------------------
(* The switches of the plugins, for any plugins, however often a refresh     *)
(* reads them, and any number of refreshes and requests.                     *)

Gots == [Settings -> BOOLEAN]
TaskStates ==
    {Free} \cup {Reading(n, g, l) : n \in 0 .. Len(Order), g \in Gots, l \in SUBSET Settings}
           \cup {Locked(g, l) : g \in Gots, l \in SUBSET Settings}

\* What a refresh has read and nothing has changed since is the setting: all
\* it has read before it stores, the plugins' switches in the copy and the
\* master switch still to come while it holds the lock.
TaskOK(t) ==
    /\ task[t].at = "read" =>
         \A i \in 1 .. task[t].n :
            Order[i] \notin task[t].late => task[t].got[Order[i]] = Value(Order[i])
    /\ task[t].at = "locked" =>
         /\ Master \notin task[t].late => task[t].got[Master] = Value(Master)
         /\ \A p \in Plugins : p \notin task[t].late => enabled[p] = Value(p)

\* The inductive invariant.
SwitchesInv ==
    /\ TypeOK
    /\ \A t \in Tasks : TaskOK(t)
    /\ SwitchesExplained

-----------------------------------------------------------------------------

\* What one task is, and what a change of the settings in S does to it.
LEMMA TaskShape ==
    ASSUME NEW x \in TaskStates
    PROVE  \/ x = Free /\ x.at = "idle"
           \/ /\ x.at = "read" /\ x.n \in 0 .. Len(Order)
              /\ x.got \in Gots /\ x.late \in SUBSET Settings
              /\ x = Reading(x.n, x.got, x.late)
           \/ /\ x.at = "locked"
              /\ x.got \in Gots /\ x.late \in SUBSET Settings
              /\ x = Locked(x.got, x.late)
BY DEF TaskStates, Free, Reading, Locked

LEMMA ReadingOK ==
    ASSUME NEW n \in 0 .. Len(Order), NEW g \in Gots, NEW l \in SUBSET Settings
    PROVE  /\ Reading(n, g, l) \in TaskStates /\ Reading(n, g, l).at = "read"
           /\ Reading(n, g, l).n = n /\ Reading(n, g, l).got = g
           /\ Reading(n, g, l).late = l
<1>1. Reading(n, g, l) \in TaskStates
  BY DEF TaskStates
<1>2. QED
  BY <1>1 DEF Reading

LEMMA LockedOK ==
    ASSUME NEW g \in Gots, NEW l \in SUBSET Settings
    PROVE  /\ Locked(g, l) \in TaskStates /\ Locked(g, l).at = "locked"
           /\ Locked(g, l).got = g /\ Locked(g, l).late = l
<1>1. Locked(g, l) \in TaskStates
  BY DEF TaskStates
<1>2. QED
  BY <1>1 DEF Locked

\* A refresh that has just begun.
LEMMA RefreshOK ==
    ASSUME PluginSwitchesAssumption
    PROVE  /\ Refresh \in TaskStates /\ Refresh # Free
           /\ Refresh.at = "read" /\ Refresh.n = 0 /\ Refresh.late = {}
<1>1. 0 \in 0 .. Len(Order) /\ Off \in Gots /\ {} \in SUBSET Settings
  BY DEF PluginSwitchesAssumption, Off, Gots
<1>2. /\ Refresh \in TaskStates
      /\ Refresh.at = "read" /\ Refresh.n = 0 /\ Refresh.late = {}
  BY <1>1, ReadingOK DEF Refresh
<1>3. QED
  BY <1>2 DEF Free

Seen(t, S) == {s \in S : \E i \in 1 .. task[t].n : Order[i] = s}

LEMMA OvertakenTask ==
    ASSUME task \in [Tasks -> TaskStates], NEW t \in Tasks, NEW S \in SUBSET Settings
    PROVE  /\ task[t] = Free => Overtaken(S)[t] = Free
           /\ task[t].at = "read" =>
                Overtaken(S)[t] = Reading(task[t].n, task[t].got, task[t].late \cup Seen(t, S))
           /\ task[t].at = "locked" =>
                Overtaken(S)[t] = Locked(task[t].got, task[t].late \cup S)
<1>1. CASE task[t] = Free
  BY <1>1 DEF Overtaken, Free
<1>2. CASE task[t].at = "read"
  <2>1. task[t] = Reading(task[t].n, task[t].got, task[t].late)
    BY <1>2, TaskShape DEF Free
  <2>2. Overtaken(S)[t] = [task[t] EXCEPT !.late = @ \cup Seen(t, S)]
    BY <1>2 DEF Overtaken, Seen
  <2>3. QED
    BY <1>2, <2>1, <2>2 DEF Reading, Free
<1>3. CASE task[t].at = "locked"
  <2>1. task[t] = Locked(task[t].got, task[t].late)
    BY <1>3, TaskShape DEF Free
  <2>2. Overtaken(S)[t] = [task[t] EXCEPT !.late = @ \cup S]
    BY <1>3 DEF Overtaken
  <2>3. QED
    BY <1>3, <2>1, <2>2 DEF Locked, Free
<1>4. QED
  BY <1>1, <1>2, <1>3, TaskShape

\* A change of settings in S, seen by the tasks it does not start: their types
\* and what they know stay right, and settings outside S are not late for it.
LEMMA OvertakenOK ==
    ASSUME SwitchesInv, PluginSwitchesAssumption,
           NEW S \in SUBSET Settings, NEW t \in Tasks,
           stored' \in [Settings -> BOOLEAN \cup {None}],
           \A s \in Settings \ S : stored'[s] = stored[s],
           UNCHANGED enabled, task'[t] = Overtaken(S)[t]
    PROVE  /\ task'[t] \in TaskStates
           /\ TaskOK(t)'
           /\ task[t] # Free => task'[t] # Free
           /\ \A s \in Settings \ S : s \in task'[t].late <=> s \in task[t].late
<1>0. task \in [Tasks -> TaskStates]
  BY DEF SwitchesInv, TypeOK, TaskStates, Gots
<1>00. \A s \in Settings \ S : Value(s)' = Value(s)
  BY DEF Value
<1>1. CASE task[t] = Free
  <2>1. task'[t] = Free
    BY <1>0, <1>1, OvertakenTask
  <2>2. task'[t].at = "idle"
    BY <2>1 DEF Free
  <2>3. TaskOK(t)'
    BY <2>2 DEF TaskOK
  <2>4. QED
    BY <1>1, <2>1, <2>3 DEF TaskStates
<1>2. CASE task[t].at = "read"
  <2>1. /\ task[t].n \in 0 .. Len(Order) /\ task[t].got \in Gots
        /\ task[t].late \in SUBSET Settings /\ task[t] # Free
    BY <1>0, <1>2, TaskShape DEF Free
  <2>2. task'[t] = Reading(task[t].n, task[t].got, task[t].late \cup Seen(t, S))
    BY <1>0, <1>2, OvertakenTask
  <2>3. Seen(t, S) \subseteq S
    BY DEF Seen
  <2>4. /\ task'[t] \in TaskStates /\ task'[t].at = "read"
        /\ task'[t].n = task[t].n /\ task'[t].got = task[t].got
        /\ task'[t].late = task[t].late \cup Seen(t, S)
    BY <2>1, <2>2, <2>3, ReadingOK
  <2>5. ASSUME NEW i \in 1 .. task[t].n, Order[i] \notin task'[t].late
        PROVE  task'[t].got[Order[i]] = Value(Order[i])'
    <3>1. Order[i] \in Settings
      BY <2>1, PluginSwitchesAssumption DEF PluginSwitchesAssumption
    <3>2. Order[i] \notin S /\ Order[i] \notin task[t].late
      BY <2>4, <2>5 DEF Seen
    <3>3. task[t].got[Order[i]] = Value(Order[i])
      BY <1>2, <3>2 DEF SwitchesInv, TaskOK
    <3>4. QED
      BY <1>00, <2>4, <3>1, <3>2, <3>3
  <2>6. QED
    BY <2>1, <2>3, <2>4, <2>5 DEF TaskOK, Free
<1>3. CASE task[t].at = "locked"
  <2>1. /\ task[t].got \in Gots
        /\ task[t].late \in SUBSET Settings /\ task[t] # Free
    BY <1>0, <1>3, TaskShape DEF Free
  <2>2. task'[t] = Locked(task[t].got, task[t].late \cup S)
    BY <1>0, <1>3, OvertakenTask
  <2>3. /\ task'[t] \in TaskStates /\ task'[t].at = "locked"
        /\ task'[t].got = task[t].got
        /\ task'[t].late = task[t].late \cup S
    BY <2>1, <2>2, LockedOK
  <2>4. QED
    BY <1>00, <1>3, <2>1, <2>3 DEF SwitchesInv, TaskOK, Free, Settings
<1>4. QED
  BY <1>0, <1>1, <1>2, <1>3, TaskShape

\* Every step keeps the types, the tasks' knowledge, and the explanations.
LEMMA SwitchesStep ==
    ASSUME PluginSwitchesAssumption, SwitchesInv, [Next]_vars
    PROVE  SwitchesInv'
<1>0. /\ task \in [Tasks -> TaskStates]
      /\ stored \in [Settings -> BOOLEAN \cup {None}]
      /\ enabled \in [Plugins -> BOOLEAN] /\ master \in BOOLEAN
      /\ checked \subseteq Requests /\ lost \subseteq Settings
  BY DEF SwitchesInv, TypeOK, TaskStates, Gots
\* The parts of the goal, from which each action proves it.
<1>a. ASSUME stored' \in [Settings -> BOOLEAN \cup {None}],
             enabled' \in [Plugins -> BOOLEAN], master' \in BOOLEAN,
             checked' \subseteq Requests, lost' \subseteq Settings,
             task' = [t \in Tasks |-> task'[t]],
             \A t \in Tasks : task'[t] \in TaskStates /\ TaskOK(t)',
             SwitchesExplained'
      PROVE  SwitchesInv'
  BY <1>a DEF SwitchesInv, TypeOK, TaskStates, Gots
<1>1. ASSUME NEW t \in Tasks, NEW s \in Settings, NEW v \in BOOLEAN, Update(t, s, v)
      PROVE  SwitchesInv'
  <2>1. /\ Refresh \in TaskStates /\ Refresh # Free
        /\ Refresh.at = "read" /\ Refresh.n = 0 /\ Refresh.late = {}
    BY RefreshOK
  <2>2. task' = [Overtaken({s}) EXCEPT ![t] = Refresh]
    BY <1>1 DEF Update
  <2>3. task'[t] = Refresh /\ \A u \in Tasks \ {t} : task'[u] = Overtaken({s})[u]
    BY <2>2 DEF Overtaken
  <2>4. task' = [u \in Tasks |-> task'[u]]
    BY <2>2 DEF Overtaken
  <2>5. /\ stored' \in [Settings -> BOOLEAN \cup {None}]
        /\ \A x \in Settings \ {s} : stored'[x] = stored[x]
        /\ UNCHANGED <<enabled, master, checked, lost>>
    BY <1>0, <1>1 DEF Update
  <2>6. ASSUME NEW u \in Tasks
        PROVE  task'[u] \in TaskStates /\ TaskOK(u)'
    <3>1. CASE u = t
      BY <2>1, <2>3, <3>1 DEF TaskOK
    <3>2. CASE u # t
      BY <2>3, <2>5, <3>2, OvertakenOK
    <3>3. QED
      BY <3>1, <3>2
  <2>7. SwitchesExplained'
    BY <2>1, <2>3 DEF SwitchesExplained
  <2>8. QED
    BY <1>0, <1>a, <2>4, <2>5, <2>6, <2>7
<1>2. ASSUME NEW s \in Settings, NEW v \in BOOLEAN, Import(s, v)
      PROVE  SwitchesInv'
  <2>1. /\ stored' \in [Settings -> BOOLEAN \cup {None}]
        /\ \A x \in Settings \ {s} : stored'[x] = stored[x]
        /\ UNCHANGED <<enabled, master, checked>>
        /\ lost' = lost \cup {s}
        /\ task' = Overtaken({s})
    BY <1>0, <1>2 DEF Import
  <2>2. \A u \in Tasks : /\ task'[u] \in TaskStates /\ TaskOK(u)'
                         /\ task[u] # Free => task'[u] # Free
                         /\ \A x \in Settings \ {s} : x \in task'[u].late <=> x \in task[u].late
    BY <2>1, OvertakenOK
  <2>3. SwitchesExplained'
    BY <2>1, <2>2 DEF SwitchesInv, SwitchesExplained, Copy, Value
  <2>4. task' = [u \in Tasks |-> task'[u]]
    BY <2>1 DEF Overtaken
  <2>5. QED
    BY <1>0, <1>a, <2>1, <2>2, <2>3, <2>4
<1>3. CASE Reset
  <2>1. /\ stored' \in [Settings -> BOOLEAN \cup {None}]
        /\ UNCHANGED <<enabled, master, checked>>
        /\ lost' = Settings
        /\ task' = Overtaken(Settings)
    BY <1>0, <1>3 DEF Reset
  <2>2. \A u \in Tasks : task'[u] \in TaskStates /\ TaskOK(u)'
    BY <2>1, OvertakenOK
  <2>3. task' = [u \in Tasks |-> task'[u]]
    BY <2>1 DEF Overtaken
  <2>4. QED
    BY <1>0, <1>a, <2>1, <2>2, <2>3 DEF SwitchesExplained
<1>4. CASE Restart
  <2>1. /\ Refresh \in TaskStates /\ Refresh # Free
        /\ Refresh.at = "read" /\ Refresh.n = 0 /\ Refresh.late = {}
    BY RefreshOK
  <2>2. PICK b \in Tasks : task' = [t \in Tasks |-> IF t = b THEN Refresh ELSE Free]
    BY <1>4 DEF Restart
  <2>3. \A u \in Tasks : task'[u] \in TaskStates /\ TaskOK(u)'
    BY <2>1, <2>2 DEF TaskOK, TaskStates, Free
  <2>4. SwitchesExplained'
    BY <2>1, <2>2 DEF SwitchesExplained
  <2>5. QED
    BY <1>0, <1>4, <1>a, <2>2, <2>3, <2>4 DEF Restart
<1>5. ASSUME NEW t \in Tasks, ReadSwitch(t)
      PROVE  SwitchesInv'
  <2> DEFINE s == Order[task[t].n + 1]
  <2>1. /\ task[t].n \in 0 .. Len(Order) /\ task[t].n < Len(Order)
        /\ task[t].got \in Gots /\ task[t].late \in SUBSET Settings
        /\ task[t] = Reading(task[t].n, task[t].got, task[t].late)
        /\ task[t].at = "read"
    BY <1>0, <1>5, TaskShape DEF ReadSwitch, Free
  <2>2. s \in Settings /\ task[t].n + 1 \in 0 .. Len(Order)
    BY <2>1, PluginSwitchesAssumption DEF PluginSwitchesAssumption
  <2>3. task' = [task EXCEPT ![t] = Reading(task[t].n + 1, [task[t].got EXCEPT ![s] = Value(s)],
                                            task[t].late \ {s})]
    BY <1>5 DEF ReadSwitch
  <2>4. [task[t].got EXCEPT ![s] = Value(s)] \in Gots
    BY <2>1 DEF Gots, Value
  <2> HIDE DEF s
  <2>5. /\ task'[t] \in TaskStates /\ task'[t].at = "read"
        /\ task'[t].n = task[t].n + 1
        /\ task'[t].got = [task[t].got EXCEPT ![s] = Value(s)]
        /\ task'[t].late = task[t].late \ {s}
    BY <1>0, <2>1, <2>2, <2>3, <2>4, ReadingOK
  <2>6. UNCHANGED <<stored, enabled, master, checked, lost>>
    BY <1>5 DEF ReadSwitch
  <2>7. ASSUME NEW i \in 1 .. task'[t].n, Order[i] \notin task'[t].late
        PROVE  task'[t].got[Order[i]] = Value(Order[i])'
    <3>1. Order[i] \in Settings
      BY <2>1, <2>5, PluginSwitchesAssumption DEF PluginSwitchesAssumption
    <3>2. CASE Order[i] = s
      BY <2>1, <2>2, <2>5, <2>6, <3>2 DEF Gots, Value
    <3>3. CASE Order[i] # s
      <4>1. i \in 1 .. task[t].n /\ Order[i] \notin task[t].late
        BY <2>1, <2>5, <2>7, <3>3 DEF s
      <4>2. task[t].got[Order[i]] = Value(Order[i])
        BY <2>1, <4>1 DEF SwitchesInv, TaskOK
      <4>3. QED
        BY <2>1, <2>5, <2>6, <3>1, <3>3, <4>2 DEF Gots, Value
    <3>4. QED
      BY <3>2, <3>3
  <2>8. ASSUME NEW u \in Tasks
        PROVE  task'[u] \in TaskStates /\ TaskOK(u)'
    <3>1. CASE u = t
      BY <2>5, <2>7, <3>1 DEF TaskOK
    <3>2. CASE u # t
      BY <1>0, <2>3, <2>6, <3>2 DEF SwitchesInv, TaskOK, Value
    <3>3. QED
      BY <3>1, <3>2
  <2>9. ASSUME NEW u \in Tasks, task[u] # Free
        PROVE  task'[u] # Free /\ task'[u].late \subseteq task[u].late
    BY <1>0, <2>3, <2>5, <2>9 DEF Free
  <2>10. SwitchesExplained'
    BY <2>6, <2>9 DEF SwitchesInv, SwitchesExplained, Copy, Value
  <2>11. QED
    BY <1>0, <1>a, <2>3, <2>6, <2>8, <2>10
<1>6. ASSUME NEW t \in Tasks, StoreSwitches(t)
      PROVE  SwitchesInv'
  <2>1. /\ task[t].n = Len(Order) /\ task[t].got \in Gots
        /\ task[t].late \in SUBSET Settings
        /\ task[t] = Reading(task[t].n, task[t].got, task[t].late)
        /\ task[t].at = "read"
    BY <1>0, <1>6, TaskShape DEF StoreSwitches, Free
  <2>2. /\ \A u \in Tasks : task[u].at # "locked"
        /\ task' = [task EXCEPT ![t] = Locked(task[t].got, task[t].late)]
        /\ enabled' = [p \in Plugins |-> task[t].got[p]]
        /\ lost' = (lost \cap {Master}) \cup (task[t].late \ {Master})
        /\ UNCHANGED <<stored, master, checked>>
    BY <1>6 DEF StoreSwitches, Unlocked
  \* Every setting has been read.
  <2>3. \A s \in Settings : s \notin task[t].late => task[t].got[s] = Value(s)
    <3>1. \A i \in 1 .. Len(Order) :
              Order[i] \notin task[t].late => task[t].got[Order[i]] = Value(Order[i])
      BY <2>1 DEF SwitchesInv, TaskOK
    <3>2. \A s \in Settings : \E i \in 1 .. Len(Order) : Order[i] = s
      BY PluginSwitchesAssumption DEF PluginSwitchesAssumption
    <3>3. QED
      BY <3>1, <3>2
  <2>4. /\ task'[t] \in TaskStates /\ task'[t].at = "locked"
        /\ task'[t].got = task[t].got /\ task'[t].late = task[t].late
    BY <1>0, <2>1, <2>2, LockedOK
  <2>5. ASSUME NEW u \in Tasks
        PROVE  task'[u] \in TaskStates /\ TaskOK(u)'
    <3>1. CASE u = t
      BY <2>1, <2>2, <2>3, <2>4, <3>1 DEF TaskOK, Value, Settings
    <3>2. CASE u # t
      BY <1>0, <2>2, <3>2 DEF SwitchesInv, TaskOK, Value
    <3>3. QED
      BY <3>1, <3>2
  <2>6. ASSUME NEW u \in Tasks, task[u] # Free
        PROVE  task'[u] # Free /\ task'[u].late = task[u].late
    BY <1>0, <2>2, <2>4, <2>6 DEF Free
  <2>7. ASSUME NEW p \in Plugins, Copy(p)' # Value(p)'
        PROVE  p \in lost'
    <3>1. p \in Settings /\ p # Master
      BY PluginSwitchesAssumption DEF Settings, PluginSwitchesAssumption
    <3>2. task[t].got[p] # Value(p)
      BY <2>2, <2>7, <3>1 DEF Copy, Value
    <3>3. QED
      BY <2>2, <2>3, <3>1, <3>2
  <2>8. ASSUME Copy(Master)' # Value(Master)'
        PROVE  \/ Master \in lost'
               \/ \E u \in Tasks : task'[u] # Free /\ Master \notin task'[u].late
    <3>1. Copy(Master) # Value(Master) /\ Master \in Settings
      BY <2>2, <2>8 DEF Copy, Value, Settings
    <3>2. QED
      BY <2>2, <2>6, <3>1 DEF SwitchesInv, SwitchesExplained
  <2>9. SwitchesExplained'
    BY <2>7, <2>8 DEF SwitchesExplained, Settings
  <2>10. enabled' \in [Plugins -> BOOLEAN] /\ lost' \subseteq Settings
    BY <1>0, <2>1, <2>2 DEF Gots, Settings
  <2>11. QED
    BY <1>0, <1>a, <2>2, <2>5, <2>9, <2>10
<1>7. ASSUME NEW t \in Tasks, StoreMaster(t)
      PROVE  SwitchesInv'
  <2>1. /\ task[t].got \in Gots /\ task[t].late \in SUBSET Settings
        /\ task[t].at = "locked"
    BY <1>0, <1>7, TaskShape DEF StoreMaster, Free
  <2>2. /\ master' = task[t].got[Master]
        /\ task' = [task EXCEPT ![t] = Free]
        /\ lost' = (lost \ {Master}) \cup task[t].late
        /\ UNCHANGED <<stored, enabled, checked>>
    BY <1>7 DEF StoreMaster
  <2>3. /\ Master \notin task[t].late => task[t].got[Master] = Value(Master)
        /\ \A p \in Plugins : p \notin task[t].late => enabled[p] = Value(p)
    BY <2>1 DEF SwitchesInv, TaskOK
  <2>4. ASSUME NEW u \in Tasks
        PROVE  task'[u] \in TaskStates /\ TaskOK(u)'
    <3>1. CASE u = t
      <4>1. task'[u] = Free /\ Free \in TaskStates
        BY <1>0, <2>2, <3>1 DEF TaskStates
      <4>2. task'[u].at = "idle"
        BY <4>1 DEF Free
      <4>3. QED
        BY <4>1, <4>2 DEF TaskOK
    <3>2. CASE u # t
      BY <1>0, <2>2, <3>2 DEF SwitchesInv, TaskOK, Value
    <3>3. QED
      BY <3>1, <3>2
  <2>5. ASSUME NEW s \in Settings, Copy(s)' # Value(s)'
        PROVE  \/ s \in lost'
               \/ \E u \in Tasks : task'[u] # Free /\ s \notin task'[u].late
    <3>1. CASE s \in task[t].late
      BY <2>2, <3>1
    <3>2. CASE s \notin task[t].late
      <4>1. s # Master
        BY <2>2, <2>3, <2>5, <3>2 DEF Copy, Value
      <4>2. s \in Plugins
        BY <4>1 DEF Settings
      <4>3. QED
        BY <2>2, <2>3, <2>5, <3>2, <4>1, <4>2 DEF Copy, Value
    <3>3. QED
      BY <3>1, <3>2
  <2>6. SwitchesExplained'
    BY <2>5 DEF SwitchesExplained
  <2>7. master' \in BOOLEAN /\ lost' \subseteq Settings
    BY <1>0, <2>1, <2>2 DEF Gots, Settings
  <2>8. QED
    BY <1>0, <1>a, <2>2, <2>4, <2>6, <2>7
<1>8. ASSUME NEW t \in Tasks, Abandon(t)
      PROVE  SwitchesInv'
  <2>1. /\ task' = [task EXCEPT ![t] = Free]
        /\ lost' = lost \cup {s \in Settings : Copy(s) # Value(s)}
        /\ UNCHANGED <<stored, enabled, master, checked>>
    BY <1>8 DEF Abandon
  <2>2. ASSUME NEW u \in Tasks
        PROVE  task'[u] \in TaskStates /\ TaskOK(u)'
    <3>1. CASE u = t
      <4>1. task'[u] = Free /\ Free \in TaskStates
        BY <1>0, <2>1, <3>1 DEF TaskStates
      <4>2. task'[u].at = "idle"
        BY <4>1 DEF Free
      <4>3. QED
        BY <4>1, <4>2 DEF TaskOK
    <3>2. CASE u # t
      BY <1>0, <2>1, <3>2 DEF SwitchesInv, TaskOK, Value
    <3>3. QED
      BY <3>1, <3>2
  <2>3. SwitchesExplained'
    BY <2>1 DEF SwitchesExplained, Copy, Value
  <2>4. QED
    BY <1>0, <1>a, <2>1, <2>2, <2>3
<1>9. ASSUME NEW r \in Requests, CheckMaster(r) \/ RunPlugins(r)
      PROVE  SwitchesInv'
  BY <1>0, <1>9 DEF CheckMaster, RunPlugins, SwitchesInv, TypeOK, TaskOK,
      SwitchesExplained, Copy, Value
<1>10. CASE UNCHANGED vars
  BY <1>10 DEF vars, SwitchesInv, TypeOK, TaskOK, SwitchesExplained, Copy, Value
<1>11. QED
  BY <1>1, <1>2, <1>3, <1>4, <1>5, <1>6, <1>7, <1>8, <1>9, <1>10 DEF Next

LEMMA SwitchesInit ==
    ASSUME PluginSwitchesAssumption, Init
    PROVE  SwitchesInv
<1>1. /\ Refresh \in TaskStates /\ Refresh # Free
      /\ Refresh.at = "read" /\ Refresh.n = 0 /\ Refresh.late = {}
  BY RefreshOK
<1>2. PICK b \in Tasks : task = [t \in Tasks |-> IF t = b THEN Refresh ELSE Free]
  BY DEF Init
<1>3. \A t \in Tasks : task[t] \in TaskStates /\ TaskOK(t)
  BY <1>1, <1>2 DEF TaskOK, TaskStates, Free
<1>4. SwitchesExplained
  BY <1>1, <1>2 DEF SwitchesExplained
<1>5. TypeOK
  <2>1. task \in [Tasks -> TaskStates]
    BY <1>2, <1>3
  <2>2. stored \in [Settings -> BOOLEAN \cup {None}] /\ master \in BOOLEAN
    BY DEF Init
  <2>3. QED
    BY <2>1, <2>2 DEF Init, TypeOK, TaskStates, Gots
<1>6. QED
  BY <1>3, <1>4, <1>5 DEF SwitchesInv

\* A plugin's switch in memory that is not its setting has a cause: a refresh
\* to come, or a change lost in one of the ways the model names.
THEOREM SwitchesExplainedHolds ==
    ASSUME PluginSwitchesAssumption
    PROVE  Spec => []SwitchesExplained
<1>1. Init => SwitchesInv
  BY SwitchesInit
<1>2. SwitchesInv /\ [Next]_vars => SwitchesInv'
  BY SwitchesStep
<1>3. SwitchesInv => SwitchesExplained
  BY DEF SwitchesInv
<1>4. QED
  BY <1>1, <1>2, <1>3, PTL DEF Spec

-----------------------------------------------------------------------------
(* The rows of usage, for any records, any resolution of the clock, any      *)
(* number of days in a month and any retentions the settings may name.       *)

LEMMA Division ==
    ASSUME NEW a \in Nat, NEW d \in Nat \ {0}
    PROVE  /\ a \div d \in Nat
           /\ d * (a \div d) <= a
           /\ a < d * (a \div d) + d
OBVIOUS

LEMMA TimesMonotone ==
    ASSUME NEW d \in Nat, NEW x \in Nat, NEW y \in Nat, x <= y
    PROVE  d * x <= d * y
OBVIOUS

LEMMA TimesAdds ==
    ASSUME NEW d \in Nat, NEW x \in Nat, NEW y \in Nat
    PROVE  d * (x + y) = d * x + d * y
OBVIOUS

\* Two times of one period of d ticks are less than d ticks apart.
LEMMA SamePeriod ==
    ASSUME NEW a \in Nat, NEW b \in Nat, NEW d \in Nat \ {0},
           a \div d = b \div d
    PROVE  b - a < d
<1>1. d * (a \div d) <= a /\ b < d * (a \div d) + d /\ d * (a \div d) \in Nat
  BY Division
<1>2. QED
  BY <1>1

\* Two times of one day, and of one month.
LEMMA SameDay ==
    ASSUME Usage!UsageLogAssumption, NEW a \in Nat, NEW b \in Nat, Day(a) = Day(b)
    PROVE  b - a < TicksPerDay
BY SamePeriod DEF Day, Usage!UsageLogAssumption

LEMMA SameMonth ==
    ASSUME Usage!UsageLogAssumption, NEW a \in Nat, NEW b \in Nat, Month(a) = Month(b)
    PROVE  b - a < MonthDays * TicksPerDay
<1>1. TicksPerDay \in Nat \ {0} /\ MonthDays \in Nat \ {0}
  BY DEF Usage!UsageLogAssumption
<1>2. /\ Day(a) \in Nat /\ Day(b) \in Nat
      /\ TicksPerDay * Day(a) <= a
      /\ b < TicksPerDay * Day(b) + TicksPerDay
  BY <1>1, Division DEF Day
<1>3. Day(b) + 1 <= Day(a) + MonthDays
  BY <1>1, <1>2, SamePeriod DEF Month
<1>4. TicksPerDay * (Day(b) + 1) <= TicksPerDay * (Day(a) + MonthDays)
  BY <1>1, <1>2, <1>3, TimesMonotone
<1>5. /\ TicksPerDay * (Day(b) + 1) = TicksPerDay * Day(b) + TicksPerDay
      /\ TicksPerDay * (Day(a) + MonthDays)
           = TicksPerDay * Day(a) + TicksPerDay * MonthDays
  BY <1>1, <1>2, TimesAdds
<1>6. /\ TicksPerDay * Day(a) \in Nat /\ TicksPerDay * Day(b) \in Nat
      /\ TicksPerDay * MonthDays \in Nat
      /\ TicksPerDay * MonthDays = MonthDays * TicksPerDay
  BY <1>1, <1>2
<1>7. QED
  BY <1>1, <1>2, <1>4, <1>5, <1>6

-----------------------------------------------------------------------------

\* A row is there from when the record was billed until a clean-up of a
\* retention it is older than, and texts are there only with their row.
RecordOK(i) ==
    /\ step[i] = "new" => log[i] = Never /\ billed[i] = Never
    /\ log[i] \in {Never, billed[i]}
    /\ billed[i] # Never =>
         /\ billed[i] <= now
         /\ log[i] = Never => \E days \in swept : now - billed[i] > days * TicksPerDay
    /\ payload[i] # Never => log[i] # Never

UsageInv == Usage!TypeOK /\ \A i \in Records : RecordOK(i)

LEMMA UsageInit ==
    ASSUME Usage!UsageLogAssumption, Usage!Init
    PROVE  UsageInv
BY DEF Usage!Init, UsageInv, Usage!TypeOK, RecordOK, Usage!Times, Usage!UsageLogAssumption

LEMMA UsageStep ==
    ASSUME Usage!UsageLogAssumption, UsageInv, [Usage!Next]_(Usage!vars)
    PROVE  UsageInv'
<1>0. /\ \A days \in Retentions : days * TicksPerDay \in Nat
      /\ Never \notin Nat /\ MaxTime \in Nat
  BY DEF Usage!UsageLogAssumption
<1> DEFINE Older(i) == \E days \in swept : now - billed[i] > days * TicksPerDay
<1> USE <1>0 DEF UsageInv, Usage!TypeOK, Usage!Times
<1>1. ASSUME UNCHANGED <<now, log, payload, step, billed, swept>>
      PROVE  \A i \in Records : RecordOK(i)'
  BY <1>1 DEF RecordOK
<1>2. ASSUME NEW i \in Records,
             Usage!InsertRow(i) \/ Usage!ReadSwitch(i) \/ Usage!InsertPayload(i) \/ Usage!GiveUp(i)
      PROVE  UsageInv'
  BY <1>2 DEF Usage!InsertRow, Usage!ReadSwitch, Usage!InsertPayload, Usage!GiveUp, RecordOK
<1>3. ASSUME NEW days \in Retentions, Usage!CleanLogs(days)
      PROVE  UsageInv'
  <2>1. Usage!TypeOK'
    BY <1>3 DEF Usage!CleanLogs
  <2>2. swept' = swept \cup {days} /\ UNCHANGED <<now, billed, step>>
    BY <1>3 DEF Usage!CleanLogs
  <2>3. ASSUME NEW i \in Records
        PROVE  RecordOK(i)'
    <3>1. CASE Usage!Before(log[i], days)
      <4>1. log'[i] = Never /\ payload'[i] = Never
        BY <1>3, <3>1 DEF Usage!CleanLogs
      <4>2. log[i] = billed[i] /\ log[i] # Never /\ now - log[i] > days * TicksPerDay
        BY <3>1 DEF RecordOK, Usage!Before
      <4>3. Older(i)'
        BY <2>2, <4>2
      <4>4. QED
        BY <2>2, <4>1, <4>2, <4>3 DEF RecordOK
    <3>2. CASE ~Usage!Before(log[i], days)
      <4>1. log'[i] = log[i] /\ payload'[i] = payload[i]
        BY <1>3, <3>2 DEF Usage!CleanLogs
      <4>2. Older(i) => Older(i)'
        BY <2>2
      <4>3. QED
        BY <2>2, <4>1, <4>2 DEF RecordOK
    <3>3. QED
      BY <3>1, <3>2
  <2>4. QED
    BY <2>1, <2>3
<1>4. ASSUME NEW days \in Retentions, Usage!CleanPayloads(days)
      PROVE  UsageInv'
  <2>1. Usage!TypeOK'
    BY <1>4 DEF Usage!CleanPayloads
  <2>2. \A i \in Records : payload'[i] \in {payload[i], Never}
    BY <1>4 DEF Usage!CleanPayloads
  <2>3. QED
    BY <1>4, <2>1, <2>2 DEF Usage!CleanPayloads, RecordOK
<1>5. CASE Usage!Tick
  <2>1. Usage!TypeOK' /\ now' = now + 1 /\ UNCHANGED <<log, payload, step, billed, swept>>
    BY <1>5 DEF Usage!Tick
  <2>2. ASSUME NEW i \in Records, billed[i] # Never, Older(i)
        PROVE  Older(i)'
    BY <2>1, <2>2
  <2>3. QED
    BY <2>1, <2>2 DEF RecordOK
<1>6. CASE UNCHANGED Usage!vars
  BY <1>1, <1>6 DEF Usage!vars
<1>7. CASE Usage!SwitchContent
  BY <1>1, <1>7 DEF Usage!SwitchContent
<1>8. QED
  BY <1>2, <1>3, <1>4, <1>5, <1>6, <1>7 DEF Usage!Next

\* Recorded texts never outlive their row, whatever the settings are.
THEOREM PayloadsHaveRowsHolds ==
    ASSUME Usage!UsageLogAssumption
    PROVE  Usage!Spec => []PayloadsHaveRows
<1>1. UsageInv => PayloadsHaveRows
  BY DEF UsageInv, RecordOK, PayloadsHaveRows
<1>2. Usage!Init => UsageInv
  BY UsageInit
<1>3. UsageInv /\ [Usage!Next]_(Usage!vars) => UsageInv'
  BY UsageStep
<1>4. QED
  BY <1>1, <1>2, <1>3, PTL DEF Usage!Spec

\* Whatever retentions the settings name, and however they change: the monthly
\* budget misses only what is older than a retention of less than a month, the
\* daily budget nothing unless the retention was no day at all, and no recorded
\* text outlives its row.
THEOREM RetentionKeepsBooksHolds ==
    ASSUME Usage!UsageLogAssumption
    PROVE  Usage!Spec => []RetentionKeepsBooks
<1>1. /\ TicksPerDay \in Nat \ {0} /\ MonthDays \in Nat \ {0}
      /\ Retentions \subseteq Nat /\ Never \notin Nat
  BY DEF Usage!UsageLogAssumption
<1>2. ASSUME NEW x \in Nat, NEW y \in Nat, x * TicksPerDay < y * TicksPerDay
      PROVE  x < y
  <2>1. y <= x => TicksPerDay * y <= TicksPerDay * x
    BY <1>1, TimesMonotone
  <2>2. QED
    BY <1>1, <1>2, <2>1
<1>3. ASSUME UsageInv
      PROVE  RetentionKeepsBooks
  <2>1. ASSUME NEW i \in Records, billed[i] # Never, log[i] # billed[i]
        PROVE  /\ billed[i] \in Nat /\ now \in Nat
               /\ \E days \in swept : days \in Nat /\ now - billed[i] > days * TicksPerDay
    <3>1. billed[i] \in Nat /\ now \in Nat /\ swept \subseteq Nat
      BY <1>1, <1>3, <2>1 DEF UsageInv, Usage!TypeOK, Usage!Times, Usage!UsageLogAssumption
    <3>2. \E days \in swept : now - billed[i] > days * TicksPerDay
      BY <1>3, <2>1 DEF UsageInv, RecordOK
    <3>3. QED
      BY <3>1, <3>2
  <2>2. ASSUME NEW i \in Records, billed[i] # Never, Month(billed[i]) = Month(now),
               log[i] # billed[i]
        PROVE  \E days \in swept : days < MonthDays /\ now - billed[i] > days * TicksPerDay
    <3>1. billed[i] \in Nat /\ now \in Nat
      BY <2>1, <2>2
    <3>2. PICK days \in swept : days \in Nat /\ now - billed[i] > days * TicksPerDay
      BY <2>1, <2>2
    <3>3. now - billed[i] < MonthDays * TicksPerDay
      BY <2>2, <3>1, SameMonth
    <3>4. days * TicksPerDay < MonthDays * TicksPerDay
      BY <1>1, <3>1, <3>2, <3>3
    <3>5. QED
      BY <1>1, <1>2, <3>2, <3>4
  <2>3. ASSUME NEW i \in Records, billed[i] # Never, Day(billed[i]) = Day(now),
               log[i] # billed[i]
        PROVE  0 \in swept
    <3>1. billed[i] \in Nat /\ now \in Nat
      BY <2>1, <2>3
    <3>2. PICK days \in swept : days \in Nat /\ now - billed[i] > days * TicksPerDay
      BY <2>1, <2>3
    <3>3. now - billed[i] < TicksPerDay
      BY <2>3, <3>1, SameDay
    <3>4. days * TicksPerDay < 1 * TicksPerDay
      BY <1>1, <3>1, <3>2, <3>3
    <3>5. days < 1
      BY <1>2, <3>2, <3>4
    <3>6. QED
      BY <3>2, <3>5
  <2>4. BudgetMissesOnlyOld
    BY <2>2, <2>3 DEF BudgetMissesOnlyOld, MonthlyRows, DailyRows
  <2>5. PayloadsHaveRows
    BY <1>3 DEF UsageInv, RecordOK, PayloadsHaveRows
  <2>6. QED
    BY <2>4, <2>5 DEF RetentionKeepsBooks
<1>4. Usage!Init => UsageInv
  BY UsageInit
<1>5. UsageInv /\ [Usage!Next]_(Usage!vars) => UsageInv'
  BY UsageStep
<1>6. QED
  BY <1>3, <1>4, <1>5, PTL DEF Usage!Spec

-----------------------------------------------------------------------------
(* The errors of a request, for any number of channels and keys.             *)

Statuses == {0, 400, 404, 429, 500, 502, 503}
Classes  == {"none", "key", "upstream", "client", "internal"}
ErrorType == [status : Statuses, class : Classes, logged : BOOLEAN]

\* The two errors the router makes itself and logs.
NoSelectionLogged == Errors!Error(503, "none", TRUE)
NoAnswerLogged    == Errors!RequestError(TRUE)

\* An error that was logged as an attempt was the last one.
Reported(e) ==
    e.logged /\ e.class # "internal" =>
        /\ attempts # <<>> /\ attempts[Len(attempts)] = e.status
        /\ e.status # 0

\* The inductive invariant.
ErrorInv ==
    /\ streamed \in BOOLEAN
    /\ attempts \in Seq(Errors!HttpErrors \cup {200, 502})
    /\ phase \in {"route", "channel", "keys", "sent", "done"}
    /\ error \in ErrorType /\ keyError \in ErrorType
    /\ phase = "route" => error = Errors!NoError /\ keyError = Errors!NoError
    /\ phase = "channel" => Reported(error) /\ keyError = Errors!NoError
    /\ phase \in {"keys", "sent"} => Reported(keyError)
    /\ OneFailureTold

LEMMA ErrorInit == Errors!Init => ErrorInv
BY DEF Errors!Init, ErrorInv, Errors!NoError, Errors!Error, ErrorType, Statuses, Classes,
       Reported, OneFailureTold

\* The attempts with one more.
LEMMA AttemptLogged ==
    ASSUME attempts \in Seq(Errors!HttpErrors \cup {200, 502}),
           NEW x \in Errors!HttpErrors \cup {200, 502}
    PROVE  /\ Append(attempts, x) \in Seq(Errors!HttpErrors \cup {200, 502})
           /\ Append(attempts, x) # <<>>
           /\ Append(attempts, x)[Len(Append(attempts, x))] = x
<1> DEFINE A == Errors!HttpErrors \cup {200, 502}
<1> HIDE DEF A
<1> QED BY DEF A

\* A channel that fails with an error that is the last attempt, if logged.
LEMMA ChannelFails ==
    ASSUME streamed \in BOOLEAN, UNCHANGED streamed,
           NEW e \in ErrorType, Errors!FailChannel(e), Reported(e)',
           attempts' \in Seq(Errors!HttpErrors \cup {200, 502})
    PROVE  ErrorInv'
<1>1. error' = e /\ keyError' = Errors!NoError /\ phase' = "channel"
  BY DEF Errors!FailChannel, Errors!NextChannel
<1>2. Errors!NoError \in ErrorType
  BY DEF Errors!NoError, Errors!Error, ErrorType, Statuses, Classes
<1>3. QED
  BY <1>1, <1>2 DEF ErrorInv, OneFailureTold, Reported

\* The errors that the router makes itself.
LEMMA ErrorsTyped ==
    /\ Errors!NoError \in ErrorType /\ ~Errors!NoError.logged
    /\ NoSelectionLogged \in ErrorType /\ NoSelectionLogged.status = 503
    /\ Errors!Error(503, "none", FALSE) \in ErrorType /\ ~Errors!Error(503, "none", FALSE).logged
    /\ Errors!Error(500, "none", FALSE) \in ErrorType /\ ~Errors!Error(500, "none", FALSE).logged
    /\ NoAnswerLogged \in ErrorType /\ NoAnswerLogged.status = 502
    /\ Errors!RequestError(FALSE) \in ErrorType /\ ~Errors!RequestError(FALSE).logged
    /\ Errors!TransformError(TRUE) \in ErrorType /\ Errors!TransformError(TRUE).class = "internal"
    /\ Errors!TransformError(FALSE) \in ErrorType /\ Errors!TransformError(FALSE).class = "internal"
BY DEF Errors!NoError, Errors!Error, ErrorType, Statuses, Classes, Errors!RequestError, Errors!TransformError,
       NoSelectionLogged, NoAnswerLogged

LEMMA SseStatusTyped ==
    ASSUME NEW words \in Errors!Wordings
    PROVE  Errors!SseStatus(words) \in Errors!HttpErrors \cup {502}
<1>1. CASE words = "400 ..."
  <2>1. Errors!SseStatus(words) = 400
    BY <1>1 DEF Errors!SseStatus
  <2>2. QED
    BY <2>1 DEF Errors!HttpErrors
<1>2. CASE words = "503 ..."
  <2>1. Errors!SseStatus(words) = 503
    BY <1>2 DEF Errors!SseStatus
  <2>2. QED
    BY <2>1 DEF Errors!HttpErrors
<1>3. CASE words = "key"
  <2>1. Errors!SseStatus(words) = 429
    BY <1>3 DEF Errors!SseStatus
  <2>2. QED
    BY <2>1 DEF Errors!HttpErrors
<1>4. CASE words = "plain"
  <2>1. Errors!SseStatus(words) = 502
    BY <1>4 DEF Errors!SseStatus
  <2>2. QED
    BY <2>1 DEF Errors!HttpErrors
<1>5. QED
  BY <1>1, <1>2, <1>3, <1>4 DEF Errors!Wordings

LEMMA UpstreamErrorTyped ==
    ASSUME NEW status \in Errors!HttpErrors \cup {502}, NEW words
    PROVE  /\ Errors!UpstreamError(status, words) \in ErrorType
           /\ Errors!UpstreamError(status, words).status = status
           /\ Errors!UpstreamError(status, words).status \in Errors!HttpErrors \cup {502}
BY DEF Errors!UpstreamError, Errors!ClassifyUpstream, Errors!Error, ErrorType, Statuses, Classes, Errors!HttpErrors

LEMMA Refusal ==
    ASSUME ErrorInv, phase = "sent",
           NEW e \in ErrorType, e.status \in Errors!HttpErrors \cup {502},
           Errors!Refused(e), UNCHANGED streamed
    PROVE  ErrorInv'
<1>1. /\ attempts' \in Seq(Errors!HttpErrors \cup {200, 502})
      /\ attempts' # <<>> /\ attempts'[Len(attempts')] = e.status
  BY AttemptLogged DEF Errors!Refused, ErrorInv
<1>2. Reported(e)'
  BY <1>1 DEF Reported, Errors!HttpErrors
<1>3. CASE e.class = "key"
  <2>1. keyError' = e /\ phase' = "keys" /\ error' = error
    BY <1>3 DEF Errors!Refused
  <2>2. QED
    BY <1>1, <1>2, <2>1 DEF ErrorInv, OneFailureTold, Reported
<1>4. CASE e.class # "key"
  <2>1. Errors!FailChannel(e)
    BY <1>4 DEF Errors!Refused
  <2>2. streamed \in BOOLEAN
    BY DEF ErrorInv
  <2>3. QED
    BY <1>1, <1>2, <2>1, <2>2, ChannelFails
<1>5. QED
  BY <1>3, <1>4

LEMMA ErrorStep == ErrorInv /\ [Errors!Next]_(Errors!errorVars) => ErrorInv'
<1> SUFFICES ASSUME ErrorInv, [Errors!Next]_(Errors!errorVars)
             PROVE  ErrorInv'
  OBVIOUS
<1>0. attempts \in Seq(Errors!HttpErrors \cup {200, 502}) /\ streamed \in BOOLEAN
  BY DEF ErrorInv
<1>1. CASE UNCHANGED Errors!errorVars
  BY <1>1 DEF Errors!errorVars, ErrorInv, Reported, OneFailureTold
<1>2. CASE Errors!NoRoute
  BY <1>2, ErrorsTyped DEF Errors!NoRoute, Errors!Answer, ErrorInv, Reported, OneFailureTold
<1>3. CASE Errors!FindRoute
  BY <1>3, ErrorsTyped DEF Errors!FindRoute, ErrorInv, Reported, OneFailureTold
<1>4. CASE Errors!SkipChannel
  BY <1>4, ErrorsTyped DEF Errors!SkipChannel, Errors!AtChannel, Errors!NextChannel, ErrorInv, Reported, OneFailureTold
<1>5. CASE Errors!NoSelection
  <2>1. UNCHANGED streamed
    BY <1>5 DEF Errors!NoSelection
  <2>2. CASE streamed
    <3>1. Errors!FailChannel(NoSelectionLogged) /\ attempts' = Append(attempts, 503)
      BY <1>0, <1>5, <2>2 DEF Errors!NoSelection, NoSelectionLogged, Errors!Error
    <3>2. /\ attempts' \in Seq(Errors!HttpErrors \cup {200, 502})
          /\ attempts' # <<>> /\ attempts'[Len(attempts')] = 503
      BY <1>0, <3>1, AttemptLogged DEF Errors!HttpErrors
    <3>3. Reported(NoSelectionLogged)'
      BY <3>2, ErrorsTyped DEF Reported
    <3>4. QED
      BY <1>0, <2>1, <3>1, <3>2, <3>3, ErrorsTyped, ChannelFails
  <2>3. CASE ~streamed
    <3>1. Errors!FailChannel(Errors!Error(503, "none", FALSE)) /\ attempts' = attempts
      BY <1>0, <1>5, <2>3 DEF Errors!NoSelection
    <3>2. Reported(Errors!Error(503, "none", FALSE))'
      BY ErrorsTyped DEF Reported
    <3>3. QED
      BY <1>0, <2>1, <3>1, <3>2, ErrorsTyped, ChannelFails
  <2>4. QED
    BY <2>2, <2>3
<1>6. CASE Errors!StartKeys
  BY <1>6, ErrorsTyped DEF Errors!StartKeys, Errors!AtChannel, ErrorInv, Reported, OneFailureTold
<1>7. CASE Errors!SkipKey
  BY <1>7 DEF Errors!SkipKey, Errors!AtKey, ErrorInv, Reported, OneFailureTold
<1>8. CASE Errors!PrepareFails
  <2>1. Errors!FailChannel(Errors!TransformError(FALSE)) /\ attempts' = attempts /\ UNCHANGED streamed
    BY <1>8 DEF Errors!PrepareFails
  <2>2. Reported(Errors!TransformError(FALSE))'
    BY ErrorsTyped DEF Reported
  <2>3. QED
    BY <1>0, <2>1, <2>2, ErrorsTyped, ChannelFails
<1>9. CASE Errors!Send
  BY <1>9 DEF Errors!Send, Errors!AtKey, ErrorInv, Reported, OneFailureTold
<1>10. CASE Errors!RequestFails
  <2>0. UNCHANGED streamed
    BY <1>10 DEF Errors!RequestFails
  <2>1. CASE Errors!FailChannel(NoAnswerLogged) /\ attempts' = Append(attempts, 502)
    <3>1. /\ attempts' \in Seq(Errors!HttpErrors \cup {200, 502})
          /\ attempts' # <<>> /\ attempts'[Len(attempts')] = 502
      BY <1>0, <2>1, AttemptLogged
    <3>2. Reported(NoAnswerLogged)'
      BY <3>1, ErrorsTyped DEF Reported
    <3>3. QED
      BY <1>0, <2>0, <2>1, <3>1, <3>2, ErrorsTyped, ChannelFails
  <2>2. CASE Errors!FailChannel(Errors!RequestError(FALSE)) /\ UNCHANGED attempts
    <3>1. Reported(Errors!RequestError(FALSE))'
      BY ErrorsTyped DEF Reported
    <3>2. QED
      BY <1>0, <2>0, <2>2, <3>1, ErrorsTyped, ChannelFails
  <2>3. QED
    BY <1>10, <2>1, <2>2 DEF Errors!RequestFails, NoAnswerLogged
<1>11. CASE Errors!HttpError
  <2>1. PICK status \in Errors!HttpErrors, words \in Errors!Wordings : Errors!Refused(Errors!UpstreamError(status, words))
    BY <1>11 DEF Errors!HttpError
  <2>2. phase = "sent" /\ UNCHANGED streamed
    BY <1>11 DEF Errors!HttpError
  <2>3. QED
    BY <2>1, <2>2, UpstreamErrorTyped, Refusal
<1>12. CASE Errors!EventError
  <2>1. PICK words \in Errors!Wordings : Errors!Refused(Errors!UpstreamError(Errors!SseStatus(words), words))
    BY <1>12 DEF Errors!EventError
  <2>2. phase = "sent" /\ UNCHANGED streamed
    BY <1>12 DEF Errors!EventError
  <2>3. Errors!SseStatus(words) \in Errors!HttpErrors \cup {502}
    BY SseStatusTyped
  <2>4. QED
    BY <2>1, <2>2, <2>3, UpstreamErrorTyped, Refusal
<1>13. CASE Errors!ConversionFails
  <2>1. Errors!FailChannel(Errors!TransformError(TRUE)) /\ attempts' = Append(attempts, 200) /\ UNCHANGED streamed
    BY <1>13 DEF Errors!ConversionFails
  <2>2. attempts' \in Seq(Errors!HttpErrors \cup {200, 502})
    BY <1>0, <2>1, AttemptLogged
  <2>3. Reported(Errors!TransformError(TRUE))'
    BY ErrorsTyped DEF Reported
  <2>4. QED
    BY <1>0, <2>1, <2>2, <2>3, ErrorsTyped, ChannelFails
<1>14. CASE Errors!Answered
  <2>1. attempts' \in Seq(Errors!HttpErrors \cup {200, 502})
    BY <1>0, <1>14, AttemptLogged DEF Errors!Answered
  <2>2. QED
    BY <1>14, <2>1 DEF Errors!Answered, Errors!Answer, ErrorInv, OneFailureTold, Reported
<1>15. CASE Errors!Streamed
  BY <1>15 DEF Errors!Streamed, Errors!Answer, ErrorInv, OneFailureTold, Reported
<1>16. CASE Errors!KeysTried
  <2>1. attempts' = attempts /\ phase = "keys" /\ UNCHANGED streamed
    BY <1>16 DEF Errors!KeysTried
  <2>2. CASE Errors!FailChannel(Errors!Error(500, "none", FALSE))
    <3>1. Reported(Errors!Error(500, "none", FALSE))'
      BY ErrorsTyped DEF Reported
    <3>2. QED
      BY <1>0, <2>1, <2>2, <3>1, ErrorsTyped, ChannelFails
  <2>3. CASE Errors!FailChannel(keyError)
    <3>1. PICK e \in ErrorType : e = keyError
      BY DEF ErrorInv
    <3>2. Reported(e)
      BY <2>1, <3>1 DEF ErrorInv
    <3>3. Reported(e)' /\ Errors!FailChannel(e)
      BY <2>1, <2>3, <3>1, <3>2 DEF Reported
    <3>4. QED
      BY <1>0, <2>1, <3>3, ChannelFails
  <2>4. CASE keyError' = Errors!NoError /\ UNCHANGED <<error, phase>>
    BY <2>1, <2>4, ErrorsTyped DEF ErrorInv, Reported, OneFailureTold
  <2>5. QED
    BY <1>16, <2>2, <2>3, <2>4 DEF Errors!KeysTried
<1>17. CASE Errors!OutOfChannels
  <2> DEFINE status == IF error = Errors!NoError THEN 503 ELSE Errors!FromOutcome(error.status)
  <2>1. /\ phase' = "done" /\ told' = status /\ saved' = Errors!SavedStatus(status)
        /\ UNCHANGED <<streamed, keyError, error, attempts>> /\ Reported(error) /\ error \in ErrorType
    BY <1>17 DEF Errors!OutOfChannels, Errors!Answer, ErrorInv
  <2>2. status = 404 \/ status >= 500
    BY <2>1 DEF Errors!FromOutcome, ErrorType, Statuses
  <2>3. ASSUME error.logged, error.class # "internal"
        PROVE  \/ Errors!SavedStatus(status) = status
               \/ Errors!SavedStatus(status) \in 400 .. 499 /\ status = 503
    <3>1. Errors!SavedStatus(status) = error.status /\ error.status \in Statuses \ {0}
      BY <2>1, <2>3 DEF Errors!SavedStatus, Reported, ErrorType
    <3>2. status = Errors!FromOutcome(error.status)
      BY <2>3, ErrorsTyped
    <3>3. QED
      BY <3>1, <3>2 DEF Errors!FromOutcome, Statuses
  <2>4. OneFailureTold'
    BY <2>1, <2>2, <2>3 DEF OneFailureTold
  <2>5. QED
    BY <2>1, <2>4 DEF ErrorInv
<1>18. QED
  BY <1>1, <1>2, <1>3, <1>4, <1>5, <1>6, <1>7, <1>8, <1>9, <1>10, <1>11, <1>12, <1>13,
     <1>14, <1>15, <1>16, <1>17 DEF Errors!Next

\* The client of a failed request and the usage log are told of one failure,
\* however many channels and keys the request goes through (error/proxy.rs).
THEOREM OneFailureToldHolds == Errors!Spec => []OneFailureTold
<1>1. Errors!Init => ErrorInv
  BY ErrorInit
<1>2. ErrorInv /\ [Errors!Next]_(Errors!errorVars) => ErrorInv'
  BY ErrorStep
<1>3. ErrorInv => OneFailureTold
  BY DEF ErrorInv
<1>4. QED
  BY <1>1, <1>2, <1>3, PTL DEF Errors!Spec

-----------------------------------------------------------------------------
(* Conversations, for any number of turns.                                   *)

IsList(s) == \E S : s \in Seq(S)

Elements(s) == {s[i] : i \in DOMAIN s}

Taken(s, K, n) == {s[i] : i \in K \cap (1 .. n)}

\* What Chosen is made of: the elements of a list at the places in K, up to n.
Keeps(s, K, n, f) ==
    f = [i \in 0 .. n |-> IF i = 0 THEN <<>>
                          ELSE IF i \in K THEN Append(f[i - 1], s[i]) ELSE f[i - 1]]

LEMMA KeepsExists ==
    ASSUME NEW s, NEW K, NEW n \in Nat
    PROVE  \E f : Keeps(s, K, n, f)
<1> DEFINE Bad == {i \in Nat : ~\E f : Keeps(s, K, i, f)}
<1>1. SUFFICES ASSUME Bad # {}
               PROVE  FALSE
  OBVIOUS
<1>2. PICK m \in Bad : \A i \in Bad : ~(<<i, m>> \in OpToRel(<, Nat))
  <2> HIDE DEF Bad
  <2>1. Bad \subseteq Nat
    BY DEF Bad
  <2>2. QED
    BY <1>1, <2>1, NatLessThanWellFounded, WFMin
<1>3. m \in Nat /\ \A i \in Nat : i < m => \E f : Keeps(s, K, i, f)
  <2>1. \A i \in Nat : i < m => <<i, m>> \in OpToRel(<, Nat)
    BY DEF OpToRel
  <2>2. QED
    BY <1>2, <2>1
<1>4. CASE m = 0
  <2>1. Keeps(s, K, 0, [i \in 0 .. 0 |-> <<>>])
    BY DEF Keeps
  <2>2. QED
    BY <1>2, <1>4, <2>1
<1>5. CASE m # 0
  <2>1. PICK f : Keeps(s, K, m - 1, f)
    BY <1>3, <1>5
  <2> DEFINE g == [i \in 0 .. m |-> IF i < m THEN f[i]
                                    ELSE IF m \in K THEN Append(f[m - 1], s[m]) ELSE f[m - 1]]
  <2>2. Keeps(s, K, m, g)
    <3>1. \A i \in 0 .. m : g[i] = IF i = 0 THEN <<>>
                                   ELSE IF i \in K THEN Append(g[i - 1], s[i]) ELSE g[i - 1]
      <4>1. \A i \in 0 .. m - 1 : f[i] = IF i = 0 THEN <<>>
                                        ELSE IF i \in K THEN Append(f[i - 1], s[i]) ELSE f[i - 1]
        BY <2>1 DEF Keeps
      <4>2. \A i \in 0 .. m - 1 : g[i] = f[i]
        BY <1>3
      <4>3. g[m] = IF m \in K THEN Append(f[m - 1], s[m]) ELSE f[m - 1]
        BY <1>3
      <4>4. \A i \in 1 .. m : g[i - 1] = f[i - 1]
        BY <1>3, <4>2
      <4> HIDE DEF g
      <4>5. QED
        BY <1>3, <1>5, <4>1, <4>2, <4>3, <4>4
    <3> DEFINE h == [i \in 0 .. m |-> IF i = 0 THEN <<>>
                          ELSE IF i \in K THEN Append(g[i - 1], s[i]) ELSE g[i - 1]]
    <3>2. DOMAIN h = 0 .. m /\ DOMAIN g = 0 .. m /\ \A i \in 0 .. m : h[i] = g[i]
      BY <3>1
    <3>3. g = h
      <4>1. g = [i \in 0 .. m |-> g[i]] /\ h = [i \in 0 .. m |-> h[i]]
        OBVIOUS
      <4> HIDE DEF g, h
      <4>2. QED
        BY <3>2, <4>1
    <3> HIDE DEF g
    <3>4. QED
      BY <3>3 DEF Keeps
  <2> HIDE DEF g
  <2>3. QED
    BY <1>2, <2>2
<1>6. QED
  BY <1>4, <1>5

LEMMA ElementsAppend ==
    ASSUME NEW S, NEW q \in Seq(S), NEW x \in S
    PROVE  Append(q, x) \in Seq(S) /\ Elements(Append(q, x)) = Elements(q) \cup {x}
<1> DEFINE t == Append(q, x)
<1>1. /\ t \in Seq(S) /\ Len(q) \in Nat
      /\ DOMAIN t = DOMAIN q \cup {Len(q) + 1} /\ t[Len(q) + 1] = x
      /\ \A i \in DOMAIN q : t[i] = q[i]
  OBVIOUS
<1> HIDE DEF t
<1>2. Elements(t) = Elements(q) \cup {x}
  BY <1>1 DEF Elements
<1>3. QED
  BY <1>1, <1>2 DEF t

LEMMA KeepsElements ==
    ASSUME NEW S, NEW s \in Seq(S), NEW K, NEW f, Keeps(s, K, Len(s), f), NEW n \in 0 .. Len(s)
    PROVE  f[n] \in Seq(S) /\ Elements(f[n]) = Taken(s, K, n)
<1> DEFINE Right(i) == f[i] \in Seq(S) /\ Elements(f[i]) = Taken(s, K, i)
           Bad == {i \in 0 .. Len(s) : ~Right(i)}
<1>0. Len(s) \in Nat
  OBVIOUS
<1>1. SUFFICES ASSUME Bad # {}
               PROVE  FALSE
  OBVIOUS
<1>2. PICK m \in Bad : \A i \in Bad : ~(<<i, m>> \in OpToRel(<, Nat))
  <2> HIDE DEF Bad
  <2>1. Bad \subseteq Nat
    BY <1>0 DEF Bad
  <2>2. QED
    BY <1>1, <2>1, NatLessThanWellFounded, WFMin
<1>3. m \in 0 .. Len(s) /\ ~Right(m)
  BY <1>2
<1>4. \A i \in 0 .. Len(s) : i < m => Right(i)
  <2>1. \A i \in 0 .. Len(s) : i < m => <<i, m>> \in OpToRel(<, Nat)
    BY <1>0, <1>3 DEF OpToRel
  <2>2. QED
    BY <1>2, <2>1
<1>5. CASE m = 0
  <2>1. f[0] = <<>>
    BY <1>0 DEF Keeps
  <2>2. Elements(<<>>) = {} /\ <<>> \in Seq(S) /\ 1 .. 0 = {}
    BY DEF Elements
  <2>3. QED
    BY <1>3, <1>5, <2>1, <2>2 DEF Taken
<1>6. CASE m # 0
  <2>1. m - 1 \in 0 .. Len(s) /\ m \in 1 .. Len(s) /\ 1 .. m = (1 .. m - 1) \cup {m}
    BY <1>0, <1>3, <1>6
  <2>2. Right(m - 1)
    <3>1. m - 1 < m
      BY <2>1
    <3> HIDE DEF Right
    <3>2. QED
      BY <1>4, <2>1, <3>1
  <2>3. f[m] = IF m \in K THEN Append(f[m - 1], s[m]) ELSE f[m - 1]
    BY <1>0, <1>3, <1>6 DEF Keeps
  <2>4. CASE m \in K
    <3>1. f[m - 1] \in Seq(S) /\ s[m] \in S
      BY <2>1, <2>2
    <3>2. f[m] \in Seq(S) /\ Elements(f[m]) = Elements(f[m - 1]) \cup {s[m]}
      BY <2>3, <2>4, <3>1, ElementsAppend
    <3>3. Taken(s, K, m) = Taken(s, K, m - 1) \cup {s[m]}
      BY <2>1, <2>4 DEF Taken
    <3>4. QED
      BY <1>3, <2>2, <3>2, <3>3
  <2>5. CASE m \notin K
    <3>1. K \cap (1 .. m) = K \cap (1 .. m - 1)
      BY <2>1, <2>5
    <3>2. Taken(s, K, m) = Taken(s, K, m - 1)
      BY <3>1 DEF Taken
    <3>3. QED
      BY <1>3, <2>2, <2>3, <2>5, <3>2
  <2>6. QED
    BY <2>4, <2>5
<1>7. QED
  BY <1>5, <1>6

\* Chosen takes the elements at the places in K.
LEMMA ChosenElements ==
    ASSUME NEW S, NEW s \in Seq(S), NEW K
    PROVE  /\ Talk!Chosen(s, K) \in Seq(S)
           /\ Elements(Talk!Chosen(s, K)) = Taken(s, K, Len(s))
<1> DEFINE c == CHOOSE f : Keeps(s, K, Len(s), f)
<1>1. Len(s) \in Nat
  OBVIOUS
<1>2. Keeps(s, K, Len(s), c)
  BY <1>1, KeepsExists
<1>3. Talk!Chosen(s, K) = c[Len(s)]
  BY Zenon DEF Talk!Chosen, Keeps
<1> HIDE DEF c
<1>4. \A n \in 0 .. Len(s) : c[n] \in Seq(S) /\ Elements(c[n]) = Taken(s, K, n)
  BY <1>2, KeepsElements
<1>5. QED
  BY <1>1, <1>3, <1>4

-----------------------------------------------------------------------------
(* Messages whose results come after their calls.                           *)

Shape(m) ==
    /\ m = [role |-> m.role, parts |-> m.parts, calls |-> m.calls, reply |-> m.reply]
    /\ IsList(m.parts)

\* ResultsFollowCalls, of any list of messages.
Answerable(ms) ==
    \A i \in DOMAIN ms : \A x \in RepliesOf(ms[i]) :
        \E j \in DOMAIN ms : j < i /\ x \in CallsOf(ms[j])

LEMMA AnswerableFollows ==
    ASSUME NEW ms, IsList(ms), Answerable(ms), NEW i \in DOMAIN ms
    PROVE  RepliesOf(ms[i]) \subseteq CallsIn(SubSeq(ms, 1, i - 1))
<1>1. PICK S : ms \in Seq(S)
  BY DEF IsList
<1>2. SUFFICES ASSUME NEW x \in RepliesOf(ms[i])
               PROVE  x \in CallsIn(SubSeq(ms, 1, i - 1))
  OBVIOUS
<1>3. PICK j \in DOMAIN ms : j < i /\ x \in CallsOf(ms[j])
  BY <1>2 DEF Answerable
<1> DEFINE sub == SubSeq(ms, 1, i - 1)
<1>4. j \in DOMAIN sub /\ sub[j] = ms[j]
  BY <1>1, <1>3
<1> HIDE DEF sub
<1>5. x \in CallsIn(sub)
  BY <1>3, <1>4 DEF CallsIn
<1>6. QED
  BY <1>5 DEF sub

\* Messages without results may follow any.
LEMMA AnswerableThen ==
    ASSUME NEW ms, NEW ns, IsList(ms), IsList(ns), Answerable(ms),
           \A i \in DOMAIN ns : RepliesOf(ns[i]) = {}
    PROVE  IsList(ms \o ns) /\ Answerable(ms \o ns)
<1>1. PICK S, T : ms \in Seq(S) /\ ns \in Seq(T)
  BY DEF IsList
<1>2. ms \in Seq(S \cup T) /\ ns \in Seq(S \cup T)
  BY <1>1
<1> DEFINE all == ms \o ns
<1>3. /\ all \in Seq(S \cup T) /\ Len(ms) \in Nat /\ DOMAIN ms = 1 .. Len(ms)
      /\ DOMAIN ms \subseteq DOMAIN all
      /\ \A i \in DOMAIN all : i \in DOMAIN ms \/ (i > Len(ms) /\ i - Len(ms) \in DOMAIN ns)
      /\ \A i \in DOMAIN ms : all[i] = ms[i]
      /\ \A i \in DOMAIN all : i > Len(ms) => all[i] = ns[i - Len(ms)]
  BY <1>2
<1> HIDE DEF all
<1>4. Answerable(all)
  <2>1. SUFFICES ASSUME NEW i \in DOMAIN all, NEW x \in RepliesOf(all[i])
                 PROVE  \E j \in DOMAIN all : j < i /\ x \in CallsOf(all[j])
    BY DEF Answerable
  <2>2. i \in DOMAIN ms
    BY <1>3, <2>1
  <2>3. PICK j \in DOMAIN ms : j < i /\ x \in CallsOf(ms[j])
    BY <1>3, <2>1, <2>2 DEF Answerable
  <2>4. QED
    BY <1>3, <2>3
<1>5. QED
  BY <1>3, <1>4 DEF all, IsList

\* The result of a call that was made may follow.
LEMMA AnswerableAnswered ==
    ASSUME NEW ms, IsList(ms), Answerable(ms), NEW m, RepliesOf(m) \subseteq CallsIn(ms)
    PROVE  IsList(Append(ms, m)) /\ Answerable(Append(ms, m))
<1>1. PICK S : ms \in Seq(S)
  BY DEF IsList
<1>2. ms \in Seq(S \cup {m}) /\ m \in S \cup {m}
  BY <1>1
<1> DEFINE all == Append(ms, m)
           n == Len(ms) + 1
<1>3. /\ all \in Seq(S \cup {m}) /\ Len(ms) \in Nat /\ DOMAIN ms = 1 .. Len(ms)
      /\ DOMAIN all = DOMAIN ms \cup {n} /\ all[n] = m
      /\ \A i \in DOMAIN ms : all[i] = ms[i] /\ i < n
  BY <1>2
<1> HIDE DEF all, n
<1>4. Answerable(all)
  <2>1. SUFFICES ASSUME NEW i \in DOMAIN all, NEW x \in RepliesOf(all[i])
                 PROVE  \E j \in DOMAIN all : j < i /\ x \in CallsOf(all[j])
    BY DEF Answerable
  <2>2. CASE i \in DOMAIN ms
    <3>1. PICK j \in DOMAIN ms : j < i /\ x \in CallsOf(ms[j])
      BY <1>3, <2>1, <2>2 DEF Answerable
    <3>2. QED
      BY <1>3, <3>1
  <2>3. CASE i = n
    <3>1. x \in CallsIn(ms)
      BY <1>3, <2>1, <2>3
    <3>2. PICK j \in DOMAIN ms : x \in CallsOf(ms[j])
      BY <3>1 DEF CallsIn
    <3>3. QED
      BY <1>3, <2>3, <3>2
  <2>4. QED
    BY <1>3, <2>2, <2>3
<1>5. QED
  BY <1>3, <1>4 DEF all, IsList

\* What makes no more of the results and no less of the calls.
LEMMA AnswerableRead ==
    ASSUME NEW ms, Answerable(ms), NEW ns, DOMAIN ns = DOMAIN ms,
           \A i \in DOMAIN ms : /\ RepliesOf(ns[i]) \subseteq RepliesOf(ms[i])
                                /\ CallsOf(ms[i]) \subseteq CallsOf(ns[i])
    PROVE  Answerable(ns)
<1>1. SUFFICES ASSUME NEW i \in DOMAIN ms, NEW x \in RepliesOf(ns[i])
               PROVE  \E j \in DOMAIN ns : j < i /\ x \in CallsOf(ns[j])
  BY DEF Answerable
<1>2. PICK j \in DOMAIN ms : j < i /\ x \in CallsOf(ms[j])
  BY <1>1 DEF Answerable
<1>3. QED
  BY <1>2

LEMMA AnswerableQuiet ==
    ASSUME NEW ms, \A i \in DOMAIN ms : RepliesOf(ms[i]) = {}
    PROVE  Answerable(ms)
  BY DEF Answerable

-----------------------------------------------------------------------------
(* The parts of some kinds of a message.                                     *)

LEMMA AmongElements ==
    ASSUME NEW m, NEW kind
    PROVE  \A x : x \in Among(m, kind) <=> \E p \in Elements(m.parts) : p.kind = kind /\ p.of = x
  BY DEF Among, Elements

LEMMA OnlyElements ==
    ASSUME NEW parts, IsList(parts), NEW kinds
    PROVE  /\ IsList(Talk!Only(kinds, parts))
           /\ \A p : p \in Elements(Talk!Only(kinds, parts)) <=> p \in Elements(parts) /\ p.kind \in kinds
<1>1. PICK S : parts \in Seq(S)
  BY DEF IsList
<1> DEFINE K == {i \in DOMAIN parts : parts[i].kind \in kinds}
           only == Talk!Chosen(parts, K)
<1>2. Talk!Only(kinds, parts) = only
  BY DEF Talk!Only
<1>3. only \in Seq(S) /\ Elements(only) = Taken(parts, K, Len(parts))
  BY <1>1, ChosenElements
<1>4. \A p : p \in Taken(parts, K, Len(parts)) <=> p \in Elements(parts) /\ p.kind \in kinds
  <2>1. DOMAIN parts = 1 .. Len(parts)
    BY <1>1
  <2>2. QED
    BY <2>1 DEF Taken, Elements
<1> HIDE DEF only
<1>5. IsList(only)
  BY <1>3 DEF IsList
<1>6. QED
  BY <1>2, <1>3, <1>4, <1>5

LEMMA OnlyAmong ==
    ASSUME NEW m, IsList(m.parts), NEW kinds, NEW n, n.parts = Talk!Only(kinds, m.parts), NEW kind
    PROVE  Among(n, kind) = IF kind \in kinds THEN Among(m, kind) ELSE {}
<1>1. \A p : p \in Elements(n.parts) <=> p \in Elements(m.parts) /\ p.kind \in kinds
  BY OnlyElements
<1>2. \A x : x \in Among(n, kind) <=> x \in Among(m, kind) /\ kind \in kinds
  BY <1>1, AmongElements
<1>3. QED
  BY <1>2

\* A message without results replies to nothing.
LEMMA Quiet ==
    ASSUME NEW m, m.reply = 0, \A p \in Elements(m.parts) : p.kind # "tool_result"
    PROVE  RepliesOf(m) = {}
<1>1. \A x : x \notin Among(m, "tool_result")
  BY AmongElements
<1>2. QED
  BY <1>1 DEF RepliesOf

LEMMA ListOf ==
    ASSUME NEW s, IsList(s), NEW f, f = [i \in DOMAIN s |-> f[i]]
    PROVE  IsList(f)
<1>1. PICK S : s \in Seq(S)
  BY DEF IsList
<1>2. DOMAIN s = 1 .. Len(s) /\ Len(s) \in Nat
  BY <1>1
<1>3. f \in Seq({f[i] : i \in DOMAIN s})
  BY <1>2
<1>4. QED
  BY <1>3 DEF IsList

LEMMA ListOfOne ==
    ASSUME NEW x
    PROVE  IsList(<<x>>) /\ Elements(<<x>>) = {x} /\ IsList(<<>>) /\ Elements(<<>>) = {}
<1>1. <<x>> \in Seq({x}) /\ <<>> \in Seq({x})
  OBVIOUS
<1>2. Elements(<<x>>) = {x} /\ Elements(<<>>) = {}
  BY DEF Elements
<1>3. QED
  BY <1>1, <1>2 DEF IsList

LEMMA ListThen ==
    ASSUME NEW a, NEW b, IsList(a), IsList(b)
    PROVE  /\ IsList(a \o b)
           /\ Elements(a \o b) = Elements(a) \cup Elements(b)
<1>1. PICK S, T : a \in Seq(S) /\ b \in Seq(T)
  BY DEF IsList
<1>2. a \in Seq(S \cup T) /\ b \in Seq(S \cup T)
  BY <1>1
<1> DEFINE c == a \o b
<1>3. /\ c \in Seq(S \cup T) /\ Len(a) \in Nat /\ DOMAIN a = 1 .. Len(a)
      /\ \A i \in DOMAIN a : i \in DOMAIN c /\ c[i] = a[i]
      /\ \A i \in DOMAIN b : Len(a) + i \in DOMAIN c /\ c[Len(a) + i] = b[i]
      /\ \A i \in DOMAIN c : i \in DOMAIN a \/ (i - Len(a) \in DOMAIN b /\ c[i] = b[i - Len(a)])
  BY <1>2
<1> HIDE DEF c
<1>4. Elements(c) = Elements(a) \cup Elements(b)
  <2>1. \A x \in Elements(c) : x \in Elements(a) \cup Elements(b)
    BY <1>3 DEF Elements
  <2>2. \A x \in Elements(a) \cup Elements(b) : x \in Elements(c)
    BY <1>3 DEF Elements
  <2>3. QED
    BY <2>1, <2>2
<1>5. QED
  BY <1>3, <1>4 DEF c, IsList

\* A list with some of its elements taken.
LEMMA ChosenFrom ==
    ASSUME NEW s, IsList(s), NEW K
    PROVE  /\ IsList(Talk!Chosen(s, K))
           /\ Elements(Talk!Chosen(s, K)) \subseteq Elements(s)
           /\ \A x \in Elements(Talk!Chosen(s, K)) : \E i \in K \cap DOMAIN s : x = s[i]
<1>1. PICK S : s \in Seq(S)
  BY DEF IsList
<1>2. /\ Talk!Chosen(s, K) \in Seq(S)
      /\ Elements(Talk!Chosen(s, K)) = Taken(s, K, Len(s))
  BY <1>1, ChosenElements
<1>3. DOMAIN s = 1 .. Len(s)
  BY <1>1
<1>4. \A x \in Taken(s, K, Len(s)) : x \in Elements(s) /\ \E i \in K \cap DOMAIN s : x = s[i]
  BY <1>3 DEF Taken, Elements
<1>5. QED
  BY <1>2, <1>4 DEF IsList

-----------------------------------------------------------------------------
(* Requests.                                                                 *)

OnlyTexts(m) == \A p \in Elements(m.parts) : p.kind = "text"

\* A history: its messages are whole, and none of the system is a reply.
Told(ms) ==
    /\ IsList(ms)
    /\ \A m \in Elements(ms) : Shape(m) /\ (m.role = "system" => m.reply = 0)

\* One of texts only.
Plain(ms) == Told(ms) /\ \A m \in Elements(ms) : OnlyTexts(m)

\* A message with another role and other parts.
LEMMA ChangedOne ==
    ASSUME NEW a, NEW b, NEW c, NEW d, NEW x,
           NEW m, m = [role |-> a, parts |-> b, calls |-> c, reply |-> d]
    PROVE  /\ [m EXCEPT !.role = x] = [role |-> x, parts |-> b, calls |-> c, reply |-> d]
           /\ [m EXCEPT !.parts = x] = [role |-> a, parts |-> x, calls |-> c, reply |-> d]
<1>1. [m EXCEPT !.role = x] = [role |-> x, parts |-> b, calls |-> c, reply |-> d]
  OBVIOUS
<1>2. [m EXCEPT !.parts = x] = [role |-> a, parts |-> x, calls |-> c, reply |-> d]
  OBVIOUS
<1>3. QED
  BY <1>1, <1>2

LEMMA Changed ==
    ASSUME NEW m, Shape(m), NEW r, NEW ps
    PROVE  [m EXCEPT !.role = r, !.parts = ps]
             = [role |-> r, parts |-> ps, calls |-> m.calls, reply |-> m.reply]
<1> DEFINE a == m.role
           b == m.parts
           c == m.calls
           d == m.reply
           n == [m EXCEPT !.role = r]
<1>1. m = [role |-> a, parts |-> b, calls |-> c, reply |-> d]
  BY DEF Shape
<1>2. [m EXCEPT !.role = r, !.parts = ps] = [n EXCEPT !.parts = ps]
  <2>1. PICK S : m \in [role : S, parts : S, calls : S, reply : S]
    <3> DEFINE S == {a, b, c, d}
    <3> HIDE DEF a, b, c, d
    <3>1. m \in [role : S, parts : S, calls : S, reply : S]
      BY <1>1
    <3>2. QED
      BY <3>1
  <2>2. QED
    BY <2>1
<1> HIDE DEF a, b, c, d, n
<1>3. n = [role |-> r, parts |-> b, calls |-> c, reply |-> d]
  BY <1>1, ChangedOne DEF n
<1>4. [n EXCEPT !.parts = ps] = [role |-> r, parts |-> ps, calls |-> c, reply |-> d]
  BY <1>3, ChangedOne
<1>5. QED
  BY <1>2, <1>4 DEF c, d

LEMMA ChatRead ==
    ASSUME NEW ms, Told(ms)
    PROVE  Plain(Talk!FromChat(ms))
<1> DEFINE Role(r) == IF r \in {"system", "assistant", "tool", "developer"} THEN r ELSE "user"
           Read(m) == [m EXCEPT !.role = Role(m.role), !.parts = Talk!Only({"text"}, m.parts)]
           ns == Talk!FromChat(ms)
<1>1. ns = [i \in DOMAIN ms |-> Read(ms[i])]
  BY DEF Talk!FromChat, Talk!EachMessage
<1>2. ASSUME NEW m, Shape(m), m.role = "system" => m.reply = 0
      PROVE  Shape(Read(m)) /\ OnlyTexts(Read(m)) /\ (Read(m).role = "system" => Read(m).reply = 0)
  <2> DEFINE role == Role(m.role)
             only == Talk!Only({"text"}, m.parts)
  <2>1. Read(m) = [role |-> role, parts |-> only, calls |-> m.calls, reply |-> m.reply]
    <3>1. Read(m) = [m EXCEPT !.role = role, !.parts = only]
      OBVIOUS
    <3> HIDE DEF Read, role, only
    <3>2. QED
      BY <1>2, <3>1, Changed
  <2>2. IsList(Talk!Only({"text"}, m.parts))
        /\ \A p \in Elements(Talk!Only({"text"}, m.parts)) : p.kind = "text"
    BY <1>2, OnlyElements DEF Shape
  <2>3. role = "system" => m.role = "system"
    OBVIOUS
  <2> HIDE DEF Read, role
  <2>4. Read(m).parts = Talk!Only({"text"}, m.parts)
    <3> HIDE DEF only
    <3>1. Read(m).parts = only
      BY <2>1
    <3>2. QED
      BY <3>1 DEF only
  <2> HIDE DEF only
  <2>5. QED
    BY <1>2, <2>1, <2>2, <2>3, <2>4 DEF Shape, OnlyTexts
<1>3. \A i \in DOMAIN ms : ms[i] \in Elements(ms)
  BY DEF Elements
<1> HIDE DEF Read
<1>4. \A i \in DOMAIN ms : /\ Shape(Read(ms[i])) /\ OnlyTexts(Read(ms[i]))
                           /\ Read(ms[i]).role = "system" => Read(ms[i]).reply = 0
  BY <1>2, <1>3 DEF Told
<1> HIDE DEF ns
<1>5. IsList(ns)
  <2>1. ns = [i \in DOMAIN ms |-> ns[i]]
    BY <1>1
  <2>2. QED
    BY <2>1, ListOf DEF Told
<1>6. QED
  BY <1>1, <1>4, <1>5 DEF Plain, Told, Elements, ns

LEMMA ResponsesRead ==
    ASSUME NEW ms, Told(ms)
    PROVE  /\ Plain(Talk!FromResponses(ms))
           /\ \A m \in Elements(Talk!FromResponses(ms)) : m.reply = 0
<1> DEFINE Role(r) == IF r \in {"system", "assistant"} THEN r ELSE "user"
           Read(m) == Message(Role(m.role), Talk!Only({"text"}, m.parts), <<>>, 0)
           items == Talk!Chosen(ms, {i \in DOMAIN ms : ms[i].role # "none"})
           ns == Talk!FromResponses(ms)
<1>1. ns = [i \in DOMAIN items |-> Read(items[i])]
  BY Zenon DEF Talk!FromResponses, Talk!EachMessage, Talk!Message, Message
<1>2. ASSUME NEW m, Shape(m)
      PROVE  Shape(Read(m)) /\ OnlyTexts(Read(m)) /\ Read(m).reply = 0
  <2>1. /\ Read(m).parts = Talk!Only({"text"}, m.parts) /\ Read(m).reply = 0
        /\ Read(m) = [role |-> Read(m).role, parts |-> Read(m).parts,
                      calls |-> Read(m).calls, reply |-> Read(m).reply]
    BY DEF Message
  <2>2. IsList(Talk!Only({"text"}, m.parts))
        /\ \A p \in Elements(Talk!Only({"text"}, m.parts)) : p.kind = "text"
    BY <1>2, OnlyElements DEF Shape
  <2> HIDE DEF Read
  <2>3. QED
    BY <2>1, <2>2 DEF Shape, OnlyTexts
<1>3. IsList(items) /\ Elements(items) \subseteq Elements(ms)
  BY ChosenFrom DEF Told
<1> HIDE DEF Read, items
<1>4. \A i \in DOMAIN items : /\ Shape(Read(items[i])) /\ OnlyTexts(Read(items[i]))
                              /\ Read(items[i]).reply = 0
  <2>1. \A i \in DOMAIN items : items[i] \in Elements(ms)
    BY <1>3 DEF Elements
  <2>2. QED
    BY <1>2, <2>1 DEF Told
<1> HIDE DEF ns
<1>5. IsList(ns)
  <2>1. ns = [i \in DOMAIN items |-> ns[i]]
    BY <1>1
  <2>2. QED
    BY <1>3, <2>1, ListOf
<1>6. QED
  BY <1>1, <1>4, <1>5 DEF Plain, Told, Elements, ns

\* Anthropic's calls and results are read as they are.
LEMMA AnthropicRead ==
    ASSUME NEW ms, Told(ms)
    PROVE  LET ns == Talk!FromAnthropic(ms)
           IN  /\ IsList(ns) /\ DOMAIN ns = DOMAIN ms
               /\ \A i \in DOMAIN ms : /\ Shape(ns[i])
                                       /\ RepliesOf(ns[i]) = RepliesOf(ms[i])
                                       /\ CallsOf(ns[i]) = CallsOf(ms[i])
<1> DEFINE Kinds == {"text", "tool_use", "tool_result"}
           Read(m) == [m EXCEPT !.role = IF m.role \in {"system", "assistant"} THEN m.role ELSE "user",
                                !.parts = Talk!Only(Kinds, m.parts)]
           ns == Talk!FromAnthropic(ms)
<1>1. ns = [i \in DOMAIN ms |-> Read(ms[i])]
  BY DEF Talk!FromAnthropic, Talk!EachMessage
<1>2. ASSUME NEW m, Shape(m)
      PROVE  /\ Shape(Read(m))
             /\ RepliesOf(Read(m)) = RepliesOf(m) /\ CallsOf(Read(m)) = CallsOf(m)
  <2> DEFINE role == IF m.role \in {"system", "assistant"} THEN m.role ELSE "user"
             only == Talk!Only(Kinds, m.parts)
  <2>0. Read(m) = [role |-> role, parts |-> only, calls |-> m.calls, reply |-> m.reply]
    BY <1>2, Changed
  <2>1. /\ Read(m).parts = Talk!Only(Kinds, m.parts)
        /\ Read(m).calls = m.calls /\ Read(m).reply = m.reply
        /\ Read(m) = [role |-> Read(m).role, parts |-> Read(m).parts,
                      calls |-> Read(m).calls, reply |-> Read(m).reply]
    <3> HIDE DEF Read, role, only
    <3>1. Read(m).parts = only
      BY <2>0
    <3>2. /\ Read(m).calls = m.calls /\ Read(m).reply = m.reply
          /\ Read(m) = [role |-> Read(m).role, parts |-> Read(m).parts,
                        calls |-> Read(m).calls, reply |-> Read(m).reply]
      BY <2>0
    <3>3. QED
      BY <3>1, <3>2 DEF only
  <2>2. IsList(Read(m).parts)
    BY <1>2, <2>1, OnlyElements DEF Shape
  <2>3. IsList(m.parts)
    BY <1>2 DEF Shape
  <2> HIDE DEF Read
  <2>4. /\ Among(Read(m), "tool_use") = Among(m, "tool_use")
        /\ Among(Read(m), "tool_result") = Among(m, "tool_result")
    BY <2>1, <2>3, OnlyAmong
  <2>5. QED
    BY <2>1, <2>2, <2>4 DEF Shape, RepliesOf, CallsOf, Beside
<1>3. \A i \in DOMAIN ms : ms[i] \in Elements(ms)
  BY DEF Elements
<1> HIDE DEF Read
<1>4. \A i \in DOMAIN ms : /\ Shape(Read(ms[i]))
                           /\ RepliesOf(Read(ms[i])) = RepliesOf(ms[i])
                           /\ CallsOf(Read(ms[i])) = CallsOf(ms[i])
  BY <1>2, <1>3 DEF Told
<1> HIDE DEF ns
<1>5. IsList(ns)
  <2>1. ns = [i \in DOMAIN ms |-> ns[i]]
    BY <1>1
  <2>2. QED
    BY <2>1, ListOf DEF Told
<1>6. QED
  BY <1>1, <1>4, <1>5 DEF ns

-----------------------------------------------------------------------------
(* What is written to an upstream of another protocol: no results at all, or *)
(* those of the history.                                                     *)

Silent(ms) == IsList(ms) /\ \A m \in Elements(ms) : RepliesOf(m) = {}

LEMMA SilentAnswerable ==
    ASSUME NEW ms, Silent(ms)
    PROVE  IsList(ms) /\ Answerable(ms)
  BY DEF Silent, Elements, Answerable

LEMMA SilentThen ==
    ASSUME NEW a, NEW b, Silent(a), Silent(b)
    PROVE  Silent(a \o b)
<1>1. IsList(a \o b) /\ Elements(a \o b) = Elements(a) \cup Elements(b)
  BY ListThen DEF Silent
<1>2. QED
  BY <1>1 DEF Silent

LEMMA PlainSilent ==
    ASSUME NEW m, m.reply = 0, OnlyTexts(m)
    PROVE  RepliesOf(m) = {}
  BY Quiet DEF OnlyTexts

LEMMA ResponsesWritten ==
    ASSUME NEW ms, IsList(ms), \A m \in Elements(ms) : Shape(m)
    PROVE  Silent(Talk!ToResponses(ms))
<1> DEFINE Role(r) == IF r \in {"system", "assistant"} THEN r ELSE "user"
           Write(m) == Message(Role(m.role), Talk!Only({"text"}, m.parts), <<>>, 0)
           ns == Talk!ToResponses(ms)
<1>1. ns = [i \in DOMAIN ms |-> Write(ms[i])]
  BY Zenon DEF Talk!ToResponses, Talk!EachMessage, Talk!Message, Message
<1>2. ASSUME NEW m, Shape(m)
      PROVE  RepliesOf(Write(m)) = {}
  <2>1. Write(m).parts = Talk!Only({"text"}, m.parts) /\ Write(m).reply = 0
    BY DEF Message
  <2>2. \A p \in Elements(Talk!Only({"text"}, m.parts)) : p.kind = "text"
    BY <1>2, OnlyElements DEF Shape
  <2> HIDE DEF Write
  <2>3. QED
    BY <2>1, <2>2, PlainSilent DEF OnlyTexts
<1>3. \A i \in DOMAIN ms : ms[i] \in Elements(ms)
  BY DEF Elements
<1> HIDE DEF Write
<1>4. \A i \in DOMAIN ms : RepliesOf(Write(ms[i])) = {}
  BY <1>2, <1>3
<1> HIDE DEF ns
<1>5. IsList(ns)
  <2>1. ns = [i \in DOMAIN ms |-> ns[i]]
    BY <1>1
  <2>2. QED
    BY <2>1, ListOf
<1>6. QED
  BY <1>1, <1>4, <1>5 DEF Silent, Elements, ns

\* The one system message that is kept is no reply.
LEMMA AnthropicWritten ==
    ASSUME NEW ms, Plain(ms)
    PROVE  Silent(Talk!ToAnthropic(ms))
<1> DEFINE Systems == {i \in DOMAIN ms : ms[i].role = "system"}
           System == Talk!Chosen(ms, Systems)
           Rest == Talk!Chosen(ms, DOMAIN ms \ Systems)
           Write(m) == Message(IF m.role = "assistant" THEN "assistant" ELSE "user", m.parts, <<>>, 0)
           first == IF System = <<>> THEN <<>> ELSE <<Head(System)>>
           written == [i \in DOMAIN Rest |-> Write(Rest[i])]
<1>1. Talk!ToAnthropic(ms) = first \o written
  BY Zenon DEF Talk!ToAnthropic, Talk!EachMessage, Talk!Message, Message
<1>2. IsList(ms) /\ \A m \in Elements(ms) : Shape(m) /\ OnlyTexts(m) /\ (m.role = "system" => m.reply = 0)
  BY DEF Plain, Told
<1>3. Silent(first)
  <2>1. /\ IsList(System)
        /\ Elements(System) \subseteq Elements(ms)
        /\ \A x \in Elements(System) : \E i \in Systems \cap DOMAIN ms : x = ms[i]
    BY <1>2, ChosenFrom
  <2>2. \A x \in Elements(System) : x.role = "system"
    BY <2>1
  <2> HIDE DEF System
  <2>3. \A x \in Elements(System) : RepliesOf(x) = {}
    BY <1>2, <2>1, <2>2, PlainSilent
  <2>4. CASE System = <<>>
    BY <2>4, ListOfOne DEF Silent
  <2>5. CASE System # <<>>
    <3>1. PICK S : System \in Seq(S)
      BY <2>1 DEF IsList
    <3>2. Head(System) \in Elements(System)
      BY <2>5, <3>1 DEF Elements
    <3>3. QED
      BY <2>3, <2>5, <3>2, ListOfOne DEF Silent
  <2>6. QED
    BY <2>4, <2>5
<1>4. Silent(written)
  <2>1. IsList(Rest) /\ Elements(Rest) \subseteq Elements(ms)
    BY <1>2, ChosenFrom
  <2> HIDE DEF Rest
  <2>2. ASSUME NEW m, OnlyTexts(m)
        PROVE  RepliesOf(Write(m)) = {}
    <3>1. Write(m).parts = m.parts /\ Write(m).reply = 0
      BY DEF Message
    <3> HIDE DEF Write
    <3>2. QED
      BY <2>2, <3>1, PlainSilent DEF OnlyTexts
  <2>3. \A i \in DOMAIN Rest : OnlyTexts(Rest[i])
    BY <1>2, <2>1 DEF Elements
  <2> HIDE DEF Write
  <2>4. \A i \in DOMAIN Rest : RepliesOf(written[i]) = {}
    BY <2>2, <2>3
  <2>5. IsList(written)
    <3>1. written = [i \in DOMAIN Rest |-> written[i]]
      OBVIOUS
    <3> HIDE DEF written
    <3>2. QED
      BY <2>1, <3>1, ListOf
  <2>6. DOMAIN written = DOMAIN Rest
    OBVIOUS
  <2> HIDE DEF written
  <2>7. QED
    BY <2>4, <2>5, <2>6 DEF Silent, Elements
<1> HIDE DEF first, written
<1>5. QED
  BY <1>1, <1>3, <1>4, SilentThen

\* Whatever upstream a history goes to, the results in it follow their calls.
LEMMA PreparedAnswerable ==
    ASSUME client \in Talk!Protocols, Told(history), Answerable(history), NEW u \in Talk!Protocols
    PROVE  /\ Talk!Prepared(u).to = u
           /\ IsList(Talk!Prepared(u).messages) /\ Answerable(Talk!Prepared(u).messages)
<1> DEFINE Right(ms) == IsList(ms) /\ Answerable(ms)
<1>1. CASE u = client
  <2>1. Talk!Prepared(u).to = u /\ Talk!Prepared(u).messages = history
    BY <1>1 DEF Talk!Prepared
  <2>2. QED
    BY <2>1 DEF Told
<1>2. CASE u # client
  <2> DEFINE ms == Talk!FromClient(history)
  <2>1. Talk!Prepared(u).to = u /\ Talk!Prepared(u).messages = Talk!ToUpstream(u, ms)
    BY <1>2 DEF Talk!Prepared
  <2>2. u \in {"chat", "anthropic", "responses"} /\ client \in {"chat", "anthropic", "responses"}
    BY DEF Talk!Protocols
  <2>3. /\ u = "chat" => Talk!ToUpstream(u, ms) = ms
        /\ u = "anthropic" => Talk!ToUpstream(u, ms) = Talk!ToAnthropic(ms)
        /\ u = "responses" => Talk!ToUpstream(u, ms) = Talk!ToResponses(ms)
    BY DEF Talk!ToUpstream, Talk!ToChat
  <2>4. /\ client = "chat" => ms = Talk!FromChat(history)
        /\ client = "anthropic" => ms = Talk!FromAnthropic(history)
        /\ client = "responses" => ms = Talk!FromResponses(history)
    BY DEF Talk!FromClient
  <2> HIDE DEF ms
  <2>5. CASE client = "anthropic"
    <3>1. Right(ms)
      BY <2>4, <2>5, AnthropicRead, AnswerableRead
    <3>2. u # "anthropic"
      BY <1>2, <2>5
    <3>3. CASE u = "responses"
      <4>1. \A m \in Elements(ms) : Shape(m)
        BY <2>4, <2>5, AnthropicRead DEF Elements
      <4>2. Silent(Talk!ToResponses(ms))
        BY <3>1, <4>1, ResponsesWritten
      <4>3. QED
        BY <2>1, <2>3, <3>3, <4>2, SilentAnswerable
    <3>4. CASE u = "chat"
      BY <2>1, <2>3, <3>1, <3>4
    <3>5. QED
      BY <2>2, <3>2, <3>3, <3>4
  <2>6. CASE client # "anthropic"
    <3>1. Plain(ms)
      BY <2>2, <2>4, <2>6, ChatRead, ResponsesRead
    <3>2. CASE u = "chat"
      <4>1. Silent(ms)
        <5>1. \A m \in Elements(ms) : m.reply = 0
          BY <1>2, <2>2, <2>4, <2>6, <3>2, ResponsesRead
        <5>2. \A m \in Elements(ms) : RepliesOf(m) = {}
          BY <3>1, <5>1, PlainSilent DEF Plain
        <5>3. QED
          BY <3>1, <5>2 DEF Plain, Told, Silent
      <4>2. QED
        BY <2>1, <2>3, <3>2, <4>1, SilentAnswerable
    <3>3. CASE u = "anthropic"
      <4>1. Silent(Talk!ToAnthropic(ms))
        BY <3>1, AnthropicWritten
      <4>2. QED
        BY <2>1, <2>3, <3>3, <4>1, SilentAnswerable
    <3>4. CASE u = "responses"
      <4>1. Silent(Talk!ToResponses(ms))
        BY <3>1, ResponsesWritten DEF Plain, Told
      <4>2. QED
        BY <2>1, <2>3, <3>4, <4>1, SilentAnswerable
    <3>5. QED
      BY <2>2, <3>2, <3>3, <3>4
  <2>7. QED
    BY <2>5, <2>6
<1>3. QED
  BY <1>1, <1>2

-----------------------------------------------------------------------------
(* What an answer adds to the history.                                       *)

NoResults(parts) == \A p \in Elements(parts) : p.kind # "tool_result"

\* Whole messages that reply to nothing.
Speech(ms) ==
    /\ IsList(ms)
    /\ \A m \in Elements(ms) : Shape(m) /\ m.reply = 0 /\ NoResults(m.parts)

LEMMA SpeechThen ==
    ASSUME NEW a, NEW b, Speech(a), Speech(b)
    PROVE  Speech(a \o b)
<1>1. IsList(a \o b) /\ Elements(a \o b) = Elements(a) \cup Elements(b)
  BY ListThen DEF Speech
<1>2. QED
  BY <1>1 DEF Speech

LEMMA SpeechOne ==
    ASSUME NEW role, NEW parts, NEW calls, IsList(parts), NoResults(parts)
    PROVE  Speech(<<Message(role, parts, calls, 0)>>)
<1> DEFINE m == Message(role, parts, calls, 0)
<1>1. /\ m = [role |-> m.role, parts |-> m.parts, calls |-> m.calls, reply |-> m.reply]
      /\ m.parts = parts /\ m.reply = 0
  BY DEF Message
<1> HIDE DEF m
<1>2. IsList(<<m>>) /\ Elements(<<m>>) = {m}
  BY ListOfOne
<1>3. Speech(<<m>>)
  BY <1>1, <1>2 DEF Speech, Shape
<1>4. QED
  BY <1>3 DEF m

LEMMA SpeechOfEach ==
    ASSUME NEW s, IsList(s), NEW f, f = [i \in DOMAIN s |-> f[i]],
           \A i \in DOMAIN s : Shape(f[i]) /\ f[i].reply = 0 /\ NoResults(f[i].parts)
    PROVE  Speech(f)
<1>1. IsList(f) /\ DOMAIN f = DOMAIN s
  BY ListOf
<1>2. QED
  BY <1>1 DEF Speech, Elements

LEMMA OutputParts ==
    ASSUME NEW parts, IsList(parts)
    PROVE  IsList(Talk!Output(parts)) /\ NoResults(Talk!Output(parts))
<1> DEFINE f == Talk!Output(parts)
<1>1. f = [i \in DOMAIN parts |-> Part("output_text", parts[i].of)]
  BY DEF Talk!Output, Talk!Part, Part
<1>2. \A i \in DOMAIN parts : f[i].kind = "output_text"
  BY <1>1 DEF Part
<1>3. f = [i \in DOMAIN parts |-> f[i]]
  BY <1>1
<1>4. DOMAIN f = DOMAIN parts
  BY <1>1
<1> HIDE DEF f
<1>5. IsList(f)
  BY <1>3, ListOf
<1>6. NoResults(f)
  BY <1>2, <1>4 DEF NoResults, Elements
<1>7. QED
  BY <1>5, <1>6 DEF f

LEMMA TextParts ==
    ASSUME NEW texts, IsList(texts)
    PROVE  IsList(Talk!Texts(texts)) /\ NoResults(Talk!Texts(texts))
<1> DEFINE f == Talk!Texts(texts)
<1>1. f = [i \in DOMAIN texts |-> Part("text", texts[i])]
  BY DEF Talk!Texts, Talk!Text, Talk!Part, Part
<1>2. \A i \in DOMAIN texts : f[i].kind = "text"
  BY <1>1 DEF Part
<1>3. f = [i \in DOMAIN texts |-> f[i]]
  BY <1>1
<1>4. DOMAIN f = DOMAIN texts
  BY <1>1
<1> HIDE DEF f
<1>5. IsList(f)
  BY <1>3, ListOf
<1>6. NoResults(f)
  BY <1>2, <1>4 DEF NoResults, Elements
<1>7. QED
  BY <1>5, <1>6 DEF f

LEMMA UseParts ==
    ASSUME NEW calls, IsList(calls)
    PROVE  IsList(Talk!Uses(calls)) /\ NoResults(Talk!Uses(calls))
<1> DEFINE f == Talk!Uses(calls)
<1>1. f = [i \in DOMAIN calls |-> Part("tool_use", calls[i])]
  BY DEF Talk!Uses, Talk!Part, Part
<1>2. \A i \in DOMAIN calls : f[i].kind = "tool_use"
  BY <1>1 DEF Part
<1>3. f = [i \in DOMAIN calls |-> f[i]]
  BY <1>1
<1>4. DOMAIN f = DOMAIN calls
  BY <1>1
<1> HIDE DEF f
<1>5. IsList(f)
  BY <1>3, ListOf
<1>6. NoResults(f)
  BY <1>2, <1>4 DEF NoResults, Elements
<1>7. QED
  BY <1>5, <1>6 DEF f

LEMMA ItemsSpeech ==
    ASSUME NEW parts, NEW calls, IsList(parts), IsList(calls)
    PROVE  Speech(Talk!Items(parts, calls))
<1> DEFINE said == IF parts = <<>> THEN <<>>
                   ELSE <<Message("assistant", Talk!Output(parts), <<>>, 0)>>
           called == [i \in DOMAIN calls |-> Message("none", <<>>, <<calls[i]>>, 0)]
<1>1. Talk!Items(parts, calls) = said \o called
  BY Zenon DEF Talk!Items, Talk!Message, Message
<1>2. Speech(<<>>)
  BY ListOfOne DEF Speech
<1>3. Speech(said)
  BY <1>2, OutputParts, SpeechOne
<1>4. Speech(called)
  <2>1. ASSUME NEW x
        PROVE  LET m == Message("none", <<>>, <<x>>, 0)
               IN  Shape(m) /\ m.reply = 0 /\ NoResults(m.parts)
    BY ListOfOne DEF Message, Shape, NoResults
  <2>2. \A i \in DOMAIN calls : Shape(called[i]) /\ called[i].reply = 0 /\ NoResults(called[i].parts)
    BY <2>1
  <2>3. called = [i \in DOMAIN calls |-> called[i]]
    OBVIOUS
  <2> HIDE DEF called
  <2>4. QED
    BY <2>2, <2>3, SpeechOfEach
<1> HIDE DEF said, called
<1>5. QED
  BY <1>1, <1>3, <1>4, SpeechThen

LEMMA OnlyParts ==
    ASSUME NEW parts, IsList(parts), NEW kinds, "tool_result" \notin kinds
    PROVE  IsList(Talk!Only(kinds, parts)) /\ NoResults(Talk!Only(kinds, parts))
  BY OnlyElements DEF NoResults

\* A choice: its parts and the calls beside them.
Chosable(c) == IsList(c.parts) /\ IsList(c.calls) /\ NoResults(c.parts)

LEMMA ShownSpeech ==
    ASSUME client \in Talk!Protocols, NEW c, Chosable(c)
    PROVE  Speech(Talk!Shown(c))
<1>1. CASE client = "chat"
  <2>1. Talk!Shown(c) = <<Message("assistant", c.parts, c.calls, 0)>>
    BY <1>1 DEF Talk!Shown, Talk!ShownChat, Talk!Message, Message
  <2>2. QED
    BY <2>1, SpeechOne DEF Chosable
<1>2. CASE client = "anthropic"
  <2> DEFINE kept == Talk!Only({"text", "tool_use"}, c.parts)
  <2>1. Talk!Shown(c) = <<Message("assistant", kept, <<>>, 0)>>
    BY <1>2 DEF Talk!Shown, Talk!ShownAnthropic, Talk!Message, Message
  <2>2. IsList(kept) /\ NoResults(kept)
    BY OnlyParts DEF Chosable
  <2> HIDE DEF kept
  <2>3. QED
    BY <2>1, <2>2, SpeechOne
<1>3. CASE client = "responses"
  <2> DEFINE kept == Talk!Only({"text"}, c.parts)
  <2>1. Talk!Shown(c) = Talk!Items(kept, c.calls)
    BY <1>3 DEF Talk!Shown, Talk!ShownResponses
  <2>2. IsList(kept)
    BY OnlyParts DEF Chosable
  <2> HIDE DEF kept
  <2>3. QED
    BY <2>1, <2>2, ItemsSpeech DEF Chosable
<1>4. QED
  BY <1>1, <1>2, <1>3 DEF Talk!Protocols

LEMMA ChoicesOfAnswer ==
    ASSUME NEW u \in Talk!Protocols, NEW texts, NEW calls, IsList(texts), IsList(calls)
    PROVE  LET choices == Talk!ChoicesOf(u, texts, calls)
           IN  choices # <<>> => Chosable(choices[1])
<1> DEFINE choices == Talk!ChoicesOf(u, texts, calls)
<1>1. CASE u = "chat"
  <2>1. choices[1] = [parts |-> Talk!Texts(texts), calls |-> calls]
    BY <1>1 DEF Talk!ChoicesOf, Talk!ChatChoices
  <2> HIDE DEF choices
  <2>2. choices[1].parts = Talk!Texts(texts) /\ choices[1].calls = calls
    BY <2>1
  <2>3. QED
    BY <2>2, TextParts DEF Chosable, choices
<1>2. CASE u = "anthropic"
  <2> DEFINE parts == Talk!Texts(texts) \o Talk!Uses(calls)
  <2>1. choices[1] = [parts |-> parts, calls |-> <<>>]
    BY <1>2 DEF Talk!ChoicesOf, Talk!AnthropicChoices
  <2>2. IsList(parts) /\ NoResults(parts)
    BY ListThen, TextParts, UseParts DEF NoResults
  <2> HIDE DEF choices, parts
  <2>3. choices[1].parts = parts /\ choices[1].calls = <<>>
    BY <2>1
  <2>4. QED
    BY <2>2, <2>3, ListOfOne DEF Chosable, choices
<1>3. CASE u = "responses"
  <2>1. choices = [i \in DOMAIN texts |-> [parts |-> <<Part("text", texts[i])>>, calls |-> <<>>]]
    BY <1>3 DEF Talk!ChoicesOf, Talk!ResponsesChoices, Talk!Text, Talk!Part, Part
  <2>2. SUFFICES ASSUME choices # <<>>
                 PROVE  Chosable(choices[1])
    OBVIOUS
  <2> DEFINE part == Part("text", texts[1])
  <2>3. 1 \in DOMAIN texts
    <3>1. PICK S : texts \in Seq(S)
      BY DEF IsList
    <3>2. choices \in Seq({choices[i] : i \in DOMAIN texts}) /\ DOMAIN choices = DOMAIN texts
      BY <2>1, <3>1
    <3> HIDE DEF choices
    <3>3. QED
      BY <2>2, <3>1, <3>2
  <2>4. choices[1] = [parts |-> <<part>>, calls |-> <<>>]
    BY <2>1, <2>3
  <2>5. part.kind = "text"
    BY DEF Part
  <2> HIDE DEF choices, part
  <2>6. choices[1].parts = <<part>> /\ choices[1].calls = <<>>
    BY <2>4
  <2>7. QED
    BY <2>5, <2>6, ListOfOne DEF Chosable, NoResults, choices
<1>4. QED
  BY <1>1, <1>2, <1>3 DEF Talk!Protocols

LEMMA NativeSpeech ==
    ASSUME client \in Talk!Protocols, NEW texts, NEW calls, IsList(texts), IsList(calls)
    PROVE  Speech(Talk!Native(texts, calls))
<1>1. CASE client = "responses"
  <2> DEFINE Out(t) == Talk!Output(<<Talk!Text(t)>>)
             said == [i \in DOMAIN texts |-> Message("assistant", Out(texts[i]), <<>>, 0)]
  <2>1. Talk!Native(texts, calls) = said \o Talk!Items(<<>>, calls)
    BY <1>1, Zenon DEF Talk!Native, Talk!Message, Message
  <2>2. ASSUME NEW t
        PROVE  LET m == Message("assistant", Out(t), <<>>, 0)
               IN  Shape(m) /\ m.reply = 0 /\ NoResults(m.parts)
    <3>1. IsList(Out(t)) /\ NoResults(Out(t))
      BY ListOfOne, OutputParts
    <3> HIDE DEF Out
    <3>2. QED
      BY <3>1 DEF Message, Shape
  <2> HIDE DEF Out
  <2>3. \A i \in DOMAIN texts : Shape(said[i]) /\ said[i].reply = 0 /\ NoResults(said[i].parts)
    BY <2>2
  <2>4. said = [i \in DOMAIN texts |-> said[i]]
    OBVIOUS
  <2> HIDE DEF said
  <2>5. Speech(said)
    BY <2>3, <2>4, SpeechOfEach
  <2>6. Speech(Talk!Items(<<>>, calls))
    BY ListOfOne, ItemsSpeech
  <2>7. QED
    BY <2>1, <2>5, <2>6, SpeechThen
<1>2. CASE client # "responses"
  <2> DEFINE choices == Talk!ChoicesOf(client, texts, calls)
  <2>1. Talk!Native(texts, calls) = Talk!Shown(choices[1])
    BY <1>2 DEF Talk!Native
  <2>2. choices # <<>>
    BY <1>2 DEF Talk!Protocols, Talk!ChoicesOf, Talk!ChatChoices, Talk!AnthropicChoices
  <2>3. Chosable(choices[1])
    BY <2>2, ChoicesOfAnswer
  <2> HIDE DEF choices
  <2>4. QED
    BY <2>1, <2>3, ShownSpeech
<1>3. QED
  BY <1>1, <1>2

\* What a client is answered is no result, whoever answers.
LEMMA FinalizedSpeech ==
    ASSUME client \in Talk!Protocols, NEW u \in Talk!Protocols,
           NEW texts, NEW calls, IsList(texts), IsList(calls)
    PROVE  Speech(Talk!Finalized(u, texts, calls))
<1> DEFINE choices == Talk!ChoicesOf(u, texts, calls)
<1>1. CASE u = client
  BY <1>1, NativeSpeech DEF Talk!Finalized
<1>2. CASE u # client /\ choices = <<>>
  <2>1. Talk!Finalized(u, texts, calls) = <<>>
    BY <1>2 DEF Talk!Finalized
  <2>2. QED
    BY <2>1, ListOfOne DEF Speech
<1>3. CASE u # client /\ choices # <<>>
  <2>1. Talk!Finalized(u, texts, calls) = Talk!Shown(choices[1])
    BY <1>3 DEF Talk!Finalized
  <2>2. Chosable(choices[1])
    BY <1>3, ChoicesOfAnswer
  <2> HIDE DEF choices
  <2>3. QED
    BY <2>1, <2>2, ShownSpeech
<1>4. QED
  BY <1>1, <1>2, <1>3

-----------------------------------------------------------------------------
(* The invariant: in the history, and in the request made of it, the results *)
(* follow their calls.                                                       *)

TalkInv ==
    /\ client \in Talk!Protocols
    /\ Told(history) /\ Answerable(history)
    /\ request.to \in Talk!Protocols \/ request = Talk!Nothing
    /\ IsList(request.messages) /\ Answerable(request.messages)

LEMMA NothingSaid ==
    IsList(<<>>) /\ Answerable(<<>>)
<1>1. <<>> \in Seq({}) /\ DOMAIN <<>> = {}
  OBVIOUS
<1>2. QED
  BY <1>1 DEF IsList, Answerable

\* What is said at the end of a history.
LEMMA SaidAfter ==
    ASSUME NEW ms, Told(ms), Answerable(ms), NEW ns, Speech(ns)
    PROVE  Told(ms \o ns) /\ Answerable(ms \o ns)
<1>1. IsList(ms \o ns) /\ Elements(ms \o ns) = Elements(ms) \cup Elements(ns)
  BY ListThen DEF Told, Speech
<1>2. Told(ms \o ns)
  BY <1>1 DEF Told, Speech
<1>3. \A i \in DOMAIN ns : RepliesOf(ns[i]) = {}
  <2>1. \A i \in DOMAIN ns : ns[i] \in Elements(ns)
    BY DEF Elements
  <2>2. QED
    BY <2>1, Quiet DEF Speech, NoResults
<1>4. Answerable(ms \o ns)
  BY <1>3, AnswerableThen DEF Told, Speech
<1>5. QED
  BY <1>2, <1>4

LEMMA ToldAppend ==
    ASSUME NEW ms, Told(ms), NEW m, Shape(m), m.role = "system" => m.reply = 0
    PROVE  Told(Append(ms, m))
<1>1. PICK S : ms \in Seq(S)
  BY DEF Told, IsList
<1>2. ms \in Seq(S \cup {m}) /\ m \in S \cup {m}
  BY <1>1
<1>3. Append(ms, m) \in Seq(S \cup {m}) /\ Elements(Append(ms, m)) = Elements(ms) \cup {m}
  BY <1>2, ElementsAppend
<1>4. QED
  BY <1>3 DEF Told, IsList

LEMMA AppendIsThen ==
    ASSUME NEW ms, IsList(ms), NEW m
    PROVE  Append(ms, m) = ms \o <<m>>
<1>1. PICK S : ms \in Seq(S)
  BY DEF IsList
<1>2. ms \in Seq(S \cup {m})
  BY <1>1
<1>3. QED
  BY <1>2

LEMMA TalkStarts ==
    Talk!Init => TalkInv
<1>1. SUFFICES ASSUME Talk!Init
               PROVE  TalkInv
  OBVIOUS
<1> DEFINE prompt == <<Part("text", <<"system", 0>>)>>
<1>2. history = <<>> \/ \E role \in {"system", "developer"} : history = <<Message(role, prompt, <<>>, 0)>>
  BY <1>1 DEF Talk!Init, Talk!Prompts, Talk!Message, Message, Talk!Text, Talk!Part, Part
<1>3. IsList(prompt) /\ NoResults(prompt)
  <2> DEFINE part == Part("text", <<"system", 0>>)
  <2>1. part.kind = "text"
    BY DEF Part
  <2> HIDE DEF part
  <2>2. IsList(<<part>>) /\ NoResults(<<part>>)
    BY <2>1, ListOfOne DEF NoResults
  <2>3. QED
    BY <2>2 DEF part
<1> HIDE DEF prompt
<1>4. Speech(history)
  <2>1. Speech(<<>>)
    BY ListOfOne DEF Speech
  <2>2. QED
    BY <1>2, <1>3, <2>1, SpeechOne
<1>5. Told(history) /\ Answerable(history)
  <2>1. \A i \in DOMAIN history : RepliesOf(history[i]) = {}
    <3>1. \A i \in DOMAIN history : history[i] \in Elements(history)
      BY DEF Elements
    <3>2. QED
      BY <1>4, <3>1, Quiet DEF Speech, NoResults
  <2>2. QED
    BY <1>4, <2>1, AnswerableQuiet DEF Told, Speech
<1>6. client \in Talk!Protocols /\ request = Talk!Nothing /\ request.messages = <<>>
  BY <1>1 DEF Talk!Init, Talk!Nothing
<1>7. QED
  BY <1>5, <1>6, NothingSaid DEF TalkInv

LEMMA SayKeeps ==
    ASSUME TalkInv, Talk!Say
    PROVE  TalkInv'
<1> DEFINE part == Part("text", <<"user", turn + 1>>)
           m == Message("user", <<part>>, <<>>, 0)
<1>1. history' = Append(history, m) /\ UNCHANGED <<client, request>>
  BY DEF Talk!Say, Talk!Message, Message, Talk!Text, Talk!Part, Part
<1>2. part.kind = "text"
  BY DEF Part
<1> HIDE DEF part
<1>3. Speech(<<m>>)
  <2>1. IsList(<<part>>) /\ NoResults(<<part>>)
    BY <1>2, ListOfOne DEF NoResults
  <2>2. QED
    BY <2>1, SpeechOne
<1> HIDE DEF m
<1>4. history' = history \o <<m>>
  BY <1>1, AppendIsThen DEF TalkInv, Told
<1>5. Told(history') /\ Answerable(history')
  BY <1>3, <1>4, SaidAfter DEF TalkInv
<1>6. QED
  BY <1>1, <1>5 DEF TalkInv

\* A result has no call but one that was made.
LEMMA ReplyIsResult ==
    ASSUME client \in Talk!Protocols, NEW id, NEW m \in Talk!Reply(id)
    PROVE  Shape(m) /\ m.role # "system" /\ RepliesOf(m) \subseteq {id}
<1> DEFINE text == Part("text", <<"tool", id>>)
           result == Part("tool_result", id)
           word == Part("text", <<"user", turn + 1>>)
<1>1. text.kind = "text" /\ result.kind = "tool_result" /\ result.of = id /\ word.kind = "text"
  BY DEF Part
<1>2. CASE client # "anthropic"
  <2>1. PICK role \in {"tool", "none"} : m = Message(role, <<text>>, <<>>, id)
    BY <1>2 DEF Talk!Protocols, Talk!Reply, Talk!Message, Message, Talk!Text, Talk!Part, Part
  <2> HIDE DEF text
  <2>2. /\ m = [role |-> m.role, parts |-> m.parts, calls |-> m.calls, reply |-> m.reply]
        /\ m.role = role /\ m.parts = <<text>> /\ m.reply = id
    BY <2>1 DEF Message
  <2>3. IsList(m.parts) /\ Elements(m.parts) = {text}
    BY <2>2, ListOfOne
  <2>4. \A x : x \notin Among(m, "tool_result")
    BY <1>1, <2>3, AmongElements
  <2>5. RepliesOf(m) \subseteq {id}
    BY <2>2, <2>4 DEF RepliesOf
  <2>6. QED
    BY <2>2, <2>3, <2>5 DEF Shape
<1>3. CASE client = "anthropic"
  <2>1. PICK more \in {<<>>, <<word>>} : m = Message("user", <<result>> \o more, <<>>, 0)
    BY <1>3 DEF Talk!Reply, Talk!Message, Message, Talk!Text, Talk!Part, Part
  <2> DEFINE parts == <<result>> \o more
  <2>2. IsList(parts) /\ Elements(parts) \subseteq {result, word}
    BY ListOfOne, ListThen
  <2> HIDE DEF text, result, word, parts
  <2>3. /\ m = [role |-> m.role, parts |-> m.parts, calls |-> m.calls, reply |-> m.reply]
        /\ m.role = "user" /\ m.parts = parts /\ m.reply = 0
    BY <2>1 DEF Message, parts
  <2>4. \A x : x \in Among(m, "tool_result") => x = id
    BY <1>1, <2>2, <2>3, AmongElements
  <2>5. RepliesOf(m) \subseteq {id}
    BY <2>3, <2>4 DEF RepliesOf
  <2>6. QED
    BY <2>2, <2>3, <2>5 DEF Shape
<1>4. QED
  BY <1>2, <1>3

LEMMA RunToolKeeps ==
    ASSUME TalkInv, Talk!RunTool
    PROVE  TalkInv'
<1>1. PICK id \in Talk!Open : \E m \in Talk!Reply(id) : history' = Append(history, m)
  BY DEF Talk!RunTool
<1>2. PICK m \in Talk!Reply(id) : history' = Append(history, m)
  BY <1>1
<1>3. UNCHANGED <<client, request>>
  BY DEF Talk!RunTool
<1>4. id \in CallsIn(history)
  BY <1>1 DEF Talk!Open, Talk!CallsIn, CallsIn, Talk!CallsOf, CallsOf, Talk!Beside, Beside, Talk!Among, Among
<1>5. Shape(m) /\ m.role # "system" /\ RepliesOf(m) \subseteq CallsIn(history)
  BY <1>4, ReplyIsResult DEF TalkInv
<1>6. Told(Append(history, m))
  BY <1>5, ToldAppend DEF TalkInv
<1>7. Answerable(Append(history, m))
  BY <1>5, AnswerableAnswered DEF TalkInv, Told
<1>8. QED
  BY <1>2, <1>3, <1>6, <1>7 DEF TalkInv

LEMMA SendKeeps ==
    ASSUME TalkInv, NEW u \in Talk!Protocols, Talk!Send(u)
    PROVE  TalkInv'
<1>1. request' = Talk!Prepared(u) /\ UNCHANGED <<client, history>>
  BY DEF Talk!Send
<1>2. /\ Talk!Prepared(u).to = u
      /\ IsList(Talk!Prepared(u).messages) /\ Answerable(Talk!Prepared(u).messages)
  BY PreparedAnswerable DEF TalkInv
<1>3. QED
  BY <1>1, <1>2 DEF TalkInv

LEMMA AnsweredKeeps ==
    ASSUME TalkInv, Talk!Answered
    PROVE  TalkInv'
<1>1. PICK a \in Talk!Answers : history' = history \o Talk!Finalized(request.to, a[1], a[2])
  BY DEF Talk!Answered
<1>2. request # Talk!Nothing /\ request' = Talk!Nothing /\ client' = client
  BY DEF Talk!Answered
<1>3. IsList(a[1]) /\ IsList(a[2])
  <2>1. /\ a[1] \in {<<>>, <<(<<"assistant", turn>>)>>,
                     <<(<<"assistant", turn>>), (<<"assistant", turn + MaxTurns>>)>>}
        /\ a[2] \in {<<>>, <<turn>>}
    BY <1>1 DEF Talk!Answers
  <2>2. ASSUME NEW x, NEW y
        PROVE  IsList(<<>>) /\ IsList(<<x>>) /\ IsList(<<x, y>>)
    <3>1. <<>> \in Seq({x, y}) /\ <<x>> \in Seq({x, y}) /\ <<x, y>> \in Seq({x, y})
      OBVIOUS
    <3>2. QED
      BY <3>1 DEF IsList
  <2>3. QED
    BY <2>1, <2>2
<1>4. Speech(Talk!Finalized(request.to, a[1], a[2]))
  BY <1>2, <1>3, FinalizedSpeech DEF TalkInv
<1>5. Told(history') /\ Answerable(history')
  BY <1>1, <1>4, SaidAfter DEF TalkInv
<1>6. IsList(request'.messages) /\ Answerable(request'.messages)
  <2>1. request'.messages = <<>>
    BY <1>2 DEF Talk!Nothing
  <2>2. QED
    BY <2>1, NothingSaid
<1>7. QED
  BY <1>2, <1>5, <1>6 DEF TalkInv

LEMMA TalkInvHolds ==
    Talk!Spec => []TalkInv
<1>1. Talk!Init => TalkInv
  BY TalkStarts
<1>2. TalkInv /\ [Talk!Next]_(Talk!talkVars) => TalkInv'
  <2>1. SUFFICES ASSUME TalkInv, [Talk!Next]_(Talk!talkVars)
                 PROVE  TalkInv'
    OBVIOUS
  <2>2. CASE UNCHANGED Talk!talkVars
    BY <2>1, <2>2 DEF TalkInv, Talk!talkVars, Told, Answerable
  <2>3. CASE Talk!Say
    BY <2>1, <2>3, SayKeeps
  <2>4. CASE Talk!RunTool
    BY <2>1, <2>4, RunToolKeeps
  <2>5. CASE \E u \in Talk!Protocols : Talk!Send(u)
    BY <2>1, <2>5, SendKeeps
  <2>6. CASE Talk!Answered
    BY <2>1, <2>6, AnsweredKeeps
  <2>7. QED
    BY <2>1, <2>2, <2>3, <2>4, <2>5, <2>6 DEF Talk!Next
<1>3. QED
  BY <1>1, <1>2, PTL DEF Talk!Spec

(* However often a conversation changes its upstream and the protocol it is  *)
(* sent in, no upstream gets the result of a call that is not before it in   *)
(* the same request: translation drops a call only together with its result  *)
(* (inbound/anthropic.rs:121-172, outbound/anthropic.rs:66-100,              *)
(* outbound/openai_responses.rs:12-40).                                      *)
THEOREM ResultsFollowCallsHolds ==
    Talk!Spec => []ResultsFollowCalls
<1>1. TalkInv => ResultsFollowCalls
  BY AnswerableFollows DEF TalkInv, ResultsFollowCalls
<1>2. QED
  BY <1>1, TalkInvHolds, PTL

-----------------------------------------------------------------------------
(* The thinking filter.  Where the tags of a text are, and what the parts of *)
(* a text have of them.                                                      *)

TagLetters == {"<", "t", "/", ">"}
TagOf(thinking) == IF thinking THEN CloseTag ELSE OpenTag

\* A tag begins at i.
TagAt(buf, tag, i) ==
    /\ i \in 1 .. Len(buf) - 2
    /\ buf[i] = tag[1] /\ buf[i + 1] = tag[2] /\ buf[i + 2] = tag[3]

\* The last n letters may begin a tag.
TagEnds(buf, tag, n) ==
    /\ n \in 0 .. 2 /\ n <= Len(buf)
    /\ n = 1 => buf[Len(buf)] = tag[1]
    /\ n = 2 => buf[Len(buf) - 1] = tag[1] /\ buf[Len(buf)] = tag[2]

LEMMA Tags ==
    ASSUME NEW thinking \in BOOLEAN
    PROVE  /\ TagOf(thinking) \in Seq(TagLetters) /\ Len(TagOf(thinking)) = 3
           /\ TagOf(thinking)[1] = "<"
           /\ TagOf(thinking)[2] # "<" /\ TagOf(thinking)[3] = ">"
<1>1. ASSUME NEW x \in {"t", "/"}
      PROVE  LET tag == <<"<", x, ">">>
             IN  tag \in Seq(TagLetters) /\ Len(tag) = 3 /\ tag[1] = "<" /\ tag[2] = x /\ tag[3] = ">"
  BY DEF TagLetters
<1>2. TagOf(thinking) = <<"<", IF thinking THEN "/" ELSE "t", ">">>
  BY DEF TagOf, OpenTag, CloseTag
<1>3. QED
  BY <1>1, <1>2

LEMMA Sub ==
    ASSUME NEW S, NEW s \in Seq(S), NEW m \in 1 .. Len(s) + 1, NEW n \in m - 1 .. Len(s)
    PROVE  /\ SubSeq(s, m, n) \in Seq(S) /\ Len(SubSeq(s, m, n)) = n - m + 1
           /\ \A i \in 1 .. n - m + 1 : SubSeq(s, m, n)[i] = s[m + i - 1]
<1>1. Len(s) \in Nat /\ m \in Int /\ n \in Int /\ \A i \in m .. n : s[i] \in S
  OBVIOUS
<1>2. QED
  BY <1>1, SubSeqProperties

LEMMA Same ==
    ASSUME NEW S, NEW s \in Seq(S), NEW T, NEW t \in Seq(T), Len(s) = Len(t),
           \A i \in 1 .. Len(s) : s[i] = t[i]
    PROVE  s = t
<1>1. s = [i \in 1 .. Len(s) |-> s[i]] /\ t = [i \in 1 .. Len(t) |-> t[i]]
  OBVIOUS
<1>2. QED
  BY <1>1

\* The rest of a rest.
LEMMA RestOfRest ==
    ASSUME NEW S, NEW s \in Seq(S), NEW m \in 1 .. Len(s) + 1, NEW k \in 1 .. Len(s) - m + 2
    PROVE  LET rest == SubSeq(s, m, Len(s))
           IN  SubSeq(rest, k, Len(rest)) = SubSeq(s, m + k - 1, Len(s))
<1> DEFINE rest == SubSeq(s, m, Len(s))
           a == SubSeq(rest, k, Len(rest))
           b == SubSeq(s, m + k - 1, Len(s))
<1>1. Len(s) \in Nat /\ Len(s) \in m - 1 .. Len(s)
  OBVIOUS
<1>2. rest \in Seq(S) /\ Len(rest) = Len(s) - m + 1
      /\ \A i \in 1 .. Len(s) - m + 1 : rest[i] = s[m + i - 1]
  BY <1>1, Sub
<1> HIDE DEF rest
<1>3. k \in 1 .. Len(rest) + 1 /\ Len(rest) \in k - 1 .. Len(rest)
  BY <1>1, <1>2
<1>4. a \in Seq(S) /\ Len(a) = Len(rest) - k + 1
      /\ \A i \in 1 .. Len(rest) - k + 1 : a[i] = rest[k + i - 1]
  BY <1>2, <1>3, Sub
<1>5. m + k - 1 \in 1 .. Len(s) + 1 /\ Len(s) \in m + k - 1 - 1 .. Len(s)
  BY <1>1
<1>6. b \in Seq(S) /\ Len(b) = Len(s) - (m + k - 1) + 1
      /\ \A i \in 1 .. Len(s) - (m + k - 1) + 1 : b[i] = s[m + k - 1 + i - 1]
  BY <1>5, Sub
<1> HIDE DEF a, b
<1>7. Len(a) = Len(b) /\ \A i \in 1 .. Len(a) : a[i] = b[i]
  <2>1. Len(a) = Len(b)
    BY <1>1, <1>2, <1>4, <1>6
  <2>2. ASSUME NEW i \in 1 .. Len(a)
        PROVE  a[i] = b[i]
    <3>1. k + i - 1 \in 1 .. Len(s) - m + 1 /\ m + (k + i - 1) - 1 = m + k - 1 + i - 1
          /\ i \in 1 .. Len(rest) - k + 1 /\ i \in 1 .. Len(s) - (m + k - 1) + 1
      BY <1>1, <1>2, <1>4
    <3>2. QED
      BY <1>2, <1>4, <1>6, <3>1
  <2>3. QED
    BY <2>1, <2>2
<1>8. QED
  BY <1>4, <1>6, <1>7, Same DEF a, b, rest

LEMMA PlacesAt ==
    ASSUME NEW S, NEW buf \in Seq(S), NEW tag, tag \in Seq(TagLetters), Len(tag) = 3
    PROVE  \A i : i \in Places(buf, tag) <=> TagAt(buf, tag, i)
<1>1. Places(buf, tag) = {i \in 1 .. Len(buf) - 2 : SubSeq(buf, i, i + 2) = tag}
  BY DEF Places
<1>2. ASSUME NEW i \in 1 .. Len(buf) - 2
      PROVE  SubSeq(buf, i, i + 2) = tag <=> TagAt(buf, tag, i)
  <2> DEFINE sub == SubSeq(buf, i, i + 2)
  <2>1. Len(buf) \in Nat /\ i \in Nat /\ i >= 1 /\ i + 2 <= Len(buf)
    OBVIOUS
  <2>2. sub \in Seq(S) /\ Len(sub) = 3 /\ sub[1] = buf[i] /\ sub[2] = buf[i + 1] /\ sub[3] = buf[i + 2]
    <3>1. i \in 1 .. Len(buf) + 1 /\ i + 2 \in i - 1 .. Len(buf) /\ i + 2 - i + 1 = 3
      BY <2>1
    <3>2. sub \in Seq(S) /\ Len(sub) = 3 /\ \A j \in 1 .. 3 : sub[j] = buf[i + j - 1]
      BY <3>1, Sub
    <3> HIDE DEF sub
    <3>3. QED
      BY <2>1, <3>2
  <2>3. sub = tag <=> sub[1] = tag[1] /\ sub[2] = tag[2] /\ sub[3] = tag[3]
    <3> HIDE DEF sub
    <3>1. sub = tag <=> \A j \in 1 .. 3 : sub[j] = tag[j]
      BY <2>2
    <3>2. QED
      BY <3>1
  <2> HIDE DEF sub
  <2>4. QED
    BY <2>2, <2>3 DEF TagAt, sub
<1>3. QED
  BY <1>1, <1>2 DEF TagAt

LEMMA SuffixAt ==
    ASSUME NEW S, NEW buf \in Seq(S), NEW thinking \in BOOLEAN, NEW n \in 0 .. 2, n <= Len(buf)
    PROVE  IsSuffix(SubSeq(TagOf(thinking), 1, n), buf) <=> TagEnds(buf, TagOf(thinking), n)
<1> DEFINE tag == TagOf(thinking)
           s == SubSeq(tag, 1, n)
           a == Reverse(s)
           b == Reverse(buf)
<1>1. tag \in Seq(TagLetters) /\ Len(tag) = 3
  BY Tags
<1> HIDE DEF tag
<1>2. s \in Seq(TagLetters) /\ Len(s) = n /\ \A j \in 1 .. n : s[j] = tag[j]
  <2>1. 1 \in 1 .. Len(tag) + 1 /\ n \in 1 - 1 .. Len(tag) /\ n - 1 + 1 = n
        /\ \A j \in 1 .. n : 1 + j - 1 = j
    BY <1>1
  <2>2. s \in Seq(TagLetters) /\ Len(s) = n - 1 + 1 /\ \A j \in 1 .. n - 1 + 1 : s[j] = tag[1 + j - 1]
    BY <1>1, <2>1, Sub
  <2> HIDE DEF s
  <2>3. QED
    BY <2>1, <2>2
<1> HIDE DEF s
<1>3. a \in Seq(TagLetters) /\ Len(a) = n /\ \A j \in 1 .. n : a[j] = s[n - j + 1]
  BY <1>2 DEF Reverse
<1>4. b \in Seq(S) /\ Len(b) = Len(buf) /\ \A j \in 1 .. Len(buf) : b[j] = buf[Len(buf) - j + 1]
  BY DEF Reverse
<1> HIDE DEF a, b
<1>5. Len(buf) \in Nat
  OBVIOUS
<1>6. SubSeq(a, 1, n) = a
  BY <1>3
<1> DEFINE c == SubSeq(b, 1, n)
<1>7. c \in Seq(S) /\ Len(c) = n /\ \A j \in 1 .. n : c[j] = b[j]
  BY <1>4, <1>5
<1> HIDE DEF c
<1>8. a = c <=> \A j \in 1 .. n : a[j] = c[j]
  BY <1>3, <1>7
<1>9. IsSuffix(s, buf) <=> a = c
  BY <1>3, <1>4, <1>6 DEF IsSuffix, IsPrefix, a, b, c
<1>10. IsSuffix(s, buf) <=> \A j \in 1 .. n : tag[n - j + 1] = buf[Len(buf) - j + 1]
  <2>1. \A j \in 1 .. n : a[j] = tag[n - j + 1] /\ c[j] = buf[Len(buf) - j + 1]
    BY <1>2, <1>3, <1>4, <1>5, <1>7
  <2>2. QED
    BY <1>8, <1>9, <2>1
<1>11. (\A j \in 1 .. n : tag[n - j + 1] = buf[Len(buf) - j + 1]) <=> TagEnds(buf, tag, n)
  <2>1. CASE n = 0
    BY <2>1, <1>5 DEF TagEnds
  <2>2. CASE n = 1
    BY <2>2, <1>5 DEF TagEnds
  <2>3. CASE n = 2
    BY <2>3, <1>5 DEF TagEnds
  <2>4. QED
    BY <2>1, <2>2, <2>3
<1>12. QED
  BY <1>10, <1>11 DEF s, tag

LEMMA Retained ==
    ASSUME NEW S, NEW buf \in Seq(S), NEW thinking \in BOOLEAN
    PROVE  LET k == retain_pending_prefix(buf, TagOf(thinking))
           IN  /\ k \in 0 .. 2 /\ k <= Len(buf) /\ TagEnds(buf, TagOf(thinking), k)
               /\ \A n : TagEnds(buf, TagOf(thinking), n) => n <= k
<1> DEFINE tag == TagOf(thinking)
           m == Min({Len(buf), Len(tag) - 1})
           X == {n \in 0 .. m : IsSuffix(SubSeq(tag, 1, n), buf)}
<1>1. Len(buf) \in Nat /\ Len(tag) = 3
  BY Tags
<1>2. m = IF Len(buf) <= 2 THEN Len(buf) ELSE 2
  <2> DEFINE least == IF Len(buf) <= 2 THEN Len(buf) ELSE 2
  <2>1. least \in {Len(buf), 2} /\ \A y \in {Len(buf), 2} : least <= y
    BY <1>1
  <2>2. m \in {Len(buf), 2} /\ \A y \in {Len(buf), 2} : m <= y
    <3> HIDE DEF least
    <3>1. {Len(buf), Len(tag) - 1} = {Len(buf), 2}
      BY <1>1
    <3>2. m = CHOOSE x \in {Len(buf), 2} : \A y \in {Len(buf), 2} : x <= y
      BY <3>1, Zenon DEF Min
    <3> HIDE DEF m
    <3>3. QED
      BY <2>1, <3>2
  <2> HIDE DEF m
  <2>3. QED
    BY <1>1, <2>1, <2>2
<1>3. \A n : n \in X <=> TagEnds(buf, tag, n)
  <2>1. \A n \in 0 .. m : n \in 0 .. 2 /\ n <= Len(buf)
    BY <1>1, <1>2
  <2>2. \A n : TagEnds(buf, tag, n) => n \in 0 .. m
    BY <1>1, <1>2 DEF TagEnds
  <2> HIDE DEF m
  <2>3. QED
    BY <2>1, <2>2, SuffixAt
<1> HIDE DEF m, tag
<1>4. TagEnds(buf, tag, 0)
  BY <1>1 DEF TagEnds
<1>5. X \subseteq 0 .. 2
  BY <1>3 DEF TagEnds
<1> HIDE DEF X
<1>6. \E x \in X : \A y \in X : x >= y
  <2>1. CASE 2 \in X
    BY <2>1, <1>5
  <2>2. CASE 2 \notin X /\ 1 \in X
    BY <2>2, <1>5
  <2>3. CASE 2 \notin X /\ 1 \notin X
    BY <2>3, <1>3, <1>4, <1>5
  <2>4. QED
    BY <2>1, <2>2, <2>3
<1> DEFINE k == CHOOSE x \in X : \A y \in X : x >= y
<1>7. k \in X /\ \A y \in X : k >= y
  BY <1>6
<1>8. retain_pending_prefix(buf, tag) = k
  BY Zenon DEF retain_pending_prefix, Max, X, m
<1> HIDE DEF k
<1>9. k \in 0 .. 2 /\ k <= Len(buf) /\ TagEnds(buf, tag, k) /\ \A n : TagEnds(buf, tag, n) => n <= k
  <2>1. TagEnds(buf, tag, k)
    BY <1>3, <1>7
  <2>2. \A n : TagEnds(buf, tag, n) => n \in X /\ n \in Int
    BY <1>3 DEF TagEnds
  <2>3. \A n : TagEnds(buf, tag, n) => n <= k
    BY <1>5, <1>7, <2>2
  <2>4. QED
    BY <2>1, <2>3 DEF TagEnds
<1>10. QED
  BY <1>8, <1>9 DEF tag

\* The least of some numbers.
LEMMA LeastOf ==
    ASSUME NEW X, X \subseteq Nat, X # {}
    PROVE  Min(X) \in X /\ \A y \in X : Min(X) <= y
<1>1. PICK x \in X : \A y \in X : ~(<<y, x>> \in OpToRel(<, Nat))
  BY NatLessThanWellFounded, WFMin
<1>2. \A y \in X : ~(y < x)
  BY <1>1 DEF OpToRel
<1>3. \A y \in X : x <= y
  BY <1>2
<1>4. QED
  BY <1>3, Zenon DEF Min

LEMMA FirstPlace ==
    ASSUME NEW S, NEW buf \in Seq(S), NEW thinking \in BOOLEAN, Places(buf, TagOf(thinking)) # {}
    PROVE  LET i == Min(Places(buf, TagOf(thinking)))
           IN  TagAt(buf, TagOf(thinking), i) /\ \A j : TagAt(buf, TagOf(thinking), j) => i <= j
<1> DEFINE tag == TagOf(thinking)
           X == Places(buf, tag)
<1>1. \A i : i \in X <=> TagAt(buf, tag, i)
  BY Tags, PlacesAt
<1>2. X \subseteq Nat
  BY <1>1 DEF TagAt
<1> HIDE DEF X
<1>3. Min(X) \in X /\ \A y \in X : Min(X) <= y
  BY <1>2, LeastOf DEF X
<1>4. QED
  BY <1>1, <1>3 DEF X

-----------------------------------------------------------------------------
(* Split, one tag at a time.                                                 *)

\* Where text is cut: at the first tag, or before what may begin one.
Cut(thinking, text) ==
    IF Places(text, TagOf(thinking)) = {}
    THEN Len(text) - retain_pending_prefix(text, TagOf(thinking)) + 1
    ELSE Min(Places(text, TagOf(thinking)))

\* What reading text gives, if reading what follows the first tag gives rest.
ReadPart(thinking, text, rest) ==
    LET cut  == Cut(thinking, text)
        then == IF Places(text, TagOf(thinking)) = {}
                THEN [inside |-> thinking, pending |-> SubSeq(text, cut, Len(text)),
                      content |-> <<>>, reasoning |-> <<>>]
                ELSE rest
    IN  IF thinking THEN [then EXCEPT !.reasoning = Before(text, cut) \o @]
        ELSE [then EXCEPT !.content = Before(text, cut) \o @]

Splits(buf, m, f) ==
    f = [from \in m .. Len(buf) + 1 |-> [thinking \in BOOLEAN |->
            LET text == SubSeq(buf, from, Len(buf))
            IN  ReadPart(thinking, text,
                        f[from + Cut(thinking, text) - 1 + Len(TagOf(thinking))][~thinking])]]

LEMMA SplitIs ==
    ASSUME NEW inside, NEW buf
    PROVE  Split(inside, buf) = (CHOOSE f : Splits(buf, 1, f))[1][inside]
  BY Zenon DEF Split, Splits, ReadPart, Cut, TagOf

LEMMA SplitStep ==
    ASSUME NEW buf, NEW m, NEW f, Splits(buf, m, f), NEW from \in m .. Len(buf) + 1, NEW thinking \in BOOLEAN
    PROVE  LET text == SubSeq(buf, from, Len(buf))
           IN  f[from][thinking]
                 = ReadPart(thinking, text, f[from + Cut(thinking, text) - 1 + Len(TagOf(thinking))][~thinking])
<1> DEFINE PieceAt(n, t) ==
               LET text == SubSeq(buf, n, Len(buf))
               IN  ReadPart(t, text, f[n + Cut(t, text) - 1 + Len(TagOf(t))][~t])
           Row(n) == [t \in BOOLEAN |-> PieceAt(n, t)]
<1>1. f = [n \in m .. Len(buf) + 1 |-> Row(n)]
  BY Zenon DEF Splits
<1>2. Row(from)[thinking] = PieceAt(from, thinking)
  <2> HIDE DEF PieceAt
  <2>1. QED
    OBVIOUS
<1> HIDE DEF Row
<1>3. f[from] = Row(from)
  BY <1>1
<1>4. QED
  BY <1>2, <1>3

LEMMA ReadPartSame ==
    ASSUME NEW thinking, NEW text, NEW r, NEW q, Places(text, TagOf(thinking)) # {} => r = q
    PROVE  ReadPart(thinking, text, r) = ReadPart(thinking, text, q)
<1>1. CASE Places(text, TagOf(thinking)) = {}
  BY <1>1, Zenon DEF ReadPart
<1>2. CASE Places(text, TagOf(thinking)) # {}
  BY <1>2, Zenon
<1>3. QED
  BY <1>1, <1>2

\* Where what follows a tag begins.
LEMMA Beyond ==
    ASSUME NEW S, NEW buf \in Seq(S), NEW n \in 1 .. Len(buf) + 1, NEW thinking \in BOOLEAN,
           Places(SubSeq(buf, n, Len(buf)), TagOf(thinking)) # {}
    PROVE  /\ Cut(thinking, SubSeq(buf, n, Len(buf))) \in 1 .. Len(buf) - n - 1
           /\ n + Cut(thinking, SubSeq(buf, n, Len(buf))) - 1 + Len(TagOf(thinking)) \in n + 3 .. Len(buf) + 1
<1> DEFINE text == SubSeq(buf, n, Len(buf))
           i == Cut(thinking, text)
<1>1. Len(buf) \in Nat /\ Len(buf) \in n - 1 .. Len(buf)
  OBVIOUS
<1>2. text \in Seq(S) /\ Len(text) = Len(buf) - n + 1
  BY <1>1, Sub
<1>3. i = Min(Places(text, TagOf(thinking)))
  BY DEF Cut
<1> HIDE DEF i, text
<1>4. i \in 1 .. Len(text) - 2
  BY <1>2, <1>3, FirstPlace DEF TagAt, text
<1>5. Len(TagOf(thinking)) = 3
  BY Tags
<1>6. i \in 1 .. Len(buf) - n - 1 /\ n + i - 1 + 3 \in n + 3 .. Len(buf) + 1
  BY <1>1, <1>2, <1>4
<1>7. QED
  BY <1>5, <1>6 DEF i, text

LEMMA SplitsExtend ==
    ASSUME NEW S, NEW buf \in Seq(S), NEW m \in 1 .. Len(buf) + 1, NEW f, Splits(buf, m + 1, f)
    PROVE  \E g : Splits(buf, m, g)
<1> DEFINE Later(n, t) == n + Cut(t, SubSeq(buf, n, Len(buf))) - 1 + Len(TagOf(t))
           Read(n, t, r) == ReadPart(t, SubSeq(buf, n, Len(buf)), r)
           Row(h, n) == [t \in BOOLEAN |-> Read(n, t, h[Later(n, t)][~t])]
           g == [n \in m .. Len(buf) + 1 |-> IF n = m THEN Row(f, m) ELSE f[n]]
<1>1. \A h, k : Splits(buf, k, h) <=> h = [n \in k .. Len(buf) + 1 |-> Row(h, n)]
  BY Zenon DEF Splits
<1>2. Len(buf) \in Nat
  OBVIOUS
<1>3. ASSUME NEW n \in m .. Len(buf) + 1
      PROVE  Row(f, n) = Row(g, n)
  <2>1. ASSUME NEW t \in BOOLEAN
        PROVE  Read(n, t, f[Later(n, t)][~t]) = Read(n, t, g[Later(n, t)][~t])
    <3> DEFINE next == Later(n, t)
    <3>1. CASE Places(SubSeq(buf, n, Len(buf)), TagOf(t)) # {}
      <4>1. next \in n + 3 .. Len(buf) + 1
        BY <1>2, <3>1, Beyond
      <4> HIDE DEF next, Row
      <4>2. next \in m .. Len(buf) + 1 /\ next # m
        BY <1>2, <4>1
      <4>3. g[next] = f[next]
        BY <4>2
      <4> HIDE DEF g, Read
      <4>4. QED
        BY <4>3 DEF next
    <3>2. CASE Places(SubSeq(buf, n, Len(buf)), TagOf(t)) = {}
      <4> HIDE DEF g, Later
      <4>1. QED
        BY <3>2, ReadPartSame
    <3>3. QED
      BY <3>1, <3>2
  <2> HIDE DEF g, Read, Later
  <2>2. QED
    BY <2>1
<1>4. ASSUME NEW n \in m .. Len(buf) + 1
      PROVE  g[n] = Row(f, n)
  <2>1. CASE n = m
    <3> HIDE DEF Row
    <3>1. QED
      BY <2>1
  <2>2. CASE n # m
    <3>1. n \in m + 1 .. Len(buf) + 1
      BY <1>2, <2>2
    <3>2. f = [k \in m + 1 .. Len(buf) + 1 |-> Row(f, k)]
      <4> HIDE DEF Row
      <4>1. QED
        BY <1>1
    <3> HIDE DEF Row
    <3>3. f[n] = Row(f, n)
      BY <3>1, <3>2
    <3>4. QED
      BY <2>2, <3>3
  <2>3. QED
    BY <2>1, <2>2
<1> DEFINE h == [n \in m .. Len(buf) + 1 |-> Row(g, n)]
<1>5. g = h
  <2> HIDE DEF Row
  <2>1. DOMAIN g = m .. Len(buf) + 1 /\ DOMAIN h = m .. Len(buf) + 1
    OBVIOUS
  <2>2. \A n \in m .. Len(buf) + 1 : g[n] = h[n]
    <3>1. \A n \in m .. Len(buf) + 1 : h[n] = Row(g, n)
      OBVIOUS
    <3> HIDE DEF g, h
    <3>2. QED
      BY <1>3, <1>4, <3>1
  <2>3. g = [n \in DOMAIN g |-> g[n]] /\ h = [n \in DOMAIN h |-> h[n]]
    OBVIOUS
  <2> HIDE DEF g, h
  <2>4. QED
    BY <2>1, <2>2, <2>3
<1>6. Splits(buf, m, g)
  <2> HIDE DEF Row, g
  <2>1. QED
    BY <1>1, <1>5 DEF h
<1> HIDE DEF g
<1>7. QED
  BY <1>6

LEMMA SplitsExist ==
    ASSUME NEW S, NEW buf \in Seq(S)
    PROVE  \E f : Splits(buf, 1, f)
<1>1. Len(buf) \in Nat
  OBVIOUS
<1> DEFINE Good(n) == \E f : Splits(buf, Len(buf) + 2 - n, f)
           Bad == {n \in 0 .. Len(buf) + 1 : ~Good(n)}
<1>2. SUFFICES ASSUME Bad # {}
               PROVE  FALSE
  <2>1. Bad = {} => Good(Len(buf) + 1)
    <3> HIDE DEF Good
    <3>1. QED
      BY <1>1
  <2>2. Len(buf) + 2 - (Len(buf) + 1) = 1
    BY <1>1
  <2>3. QED
    BY <1>2, <2>1, <2>2
<1>3. PICK n \in Bad : \A k \in Bad : ~(<<k, n>> \in OpToRel(<, Nat))
  <2> HIDE DEF Good
  <2>1. Bad \subseteq Nat
    BY <1>1
  <2> HIDE DEF Bad
  <2>2. QED
    BY <1>2, <2>1, NatLessThanWellFounded, WFMin
<1>4. n \in 0 .. Len(buf) + 1 /\ ~Good(n) /\ \A k \in 0 .. Len(buf) + 1 : k < n => Good(k)
  <2> HIDE DEF Good
  <2>1. \A k \in 0 .. Len(buf) + 1 : k < n => <<k, n>> \in OpToRel(<, Nat)
    BY <1>1, <1>3 DEF OpToRel
  <2>2. QED
    BY <1>3, <2>1
<1>5. CASE n = 0
  <2>1. Len(buf) + 2 .. Len(buf) + 1 = {}
    BY <1>1
  <2> DEFINE Row(h, k) ==
                 [t \in BOOLEAN |->
                     LET text == SubSeq(buf, k, Len(buf))
                     IN  ReadPart(t, text, h[k + Cut(t, text) - 1 + Len(TagOf(t))][~t])]
             none == [k \in Len(buf) + 2 .. Len(buf) + 1 |-> 0]
             h == [k \in Len(buf) + 2 .. Len(buf) + 1 |-> Row(none, k)]
  <2>2. Splits(buf, Len(buf) + 2, none) <=> none = h
    BY Zenon DEF Splits
  <2> HIDE DEF Row
  <2>3. none = h
    <3>1. DOMAIN none = {} /\ DOMAIN h = {}
      BY <2>1
    <3>2. none = [k \in DOMAIN none |-> none[k]] /\ h = [k \in DOMAIN h |-> h[k]]
      OBVIOUS
    <3> HIDE DEF none, h
    <3>3. QED
      BY <3>1, <3>2
  <2>4. Splits(buf, Len(buf) + 2, none)
    BY <2>2, <2>3
  <2> HIDE DEF none
  <2>5. Len(buf) + 2 - 0 = Len(buf) + 2
    BY <1>1
  <2>6. QED
    BY <1>4, <1>5, <2>4, <2>5
<1>6. CASE n # 0
  <2> DEFINE m == Len(buf) + 2 - n
  <2>1. n - 1 \in 0 .. Len(buf) + 1 /\ n - 1 < n /\ m \in 1 .. Len(buf) + 1
        /\ Len(buf) + 2 - (n - 1) = m + 1
    BY <1>1, <1>4, <1>6
  <2>2. Good(n - 1)
    <3> HIDE DEF Good
    <3>1. QED
      BY <1>4, <2>1
  <2>3. PICK f : Splits(buf, m + 1, f)
    BY <2>1, <2>2
  <2>4. \E g : Splits(buf, m, g)
    BY <2>1, <2>3, SplitsExtend
  <2>5. QED
    BY <1>4, <2>4
<1>7. QED
  BY <1>5, <1>6

\* What reading buf from a place on gives.
SplitAt(buf, from, thinking) == (CHOOSE f : Splits(buf, 1, f))[from][thinking]

LEMMA SplitAtStep ==
    ASSUME NEW S, NEW buf \in Seq(S), NEW from \in 1 .. Len(buf) + 1, NEW thinking \in BOOLEAN
    PROVE  LET text == SubSeq(buf, from, Len(buf))
               next == from + Cut(thinking, text) - 1 + Len(TagOf(thinking))
           IN  SplitAt(buf, from, thinking) = ReadPart(thinking, text, SplitAt(buf, next, ~thinking))
<1> DEFINE f == CHOOSE f : Splits(buf, 1, f)
<1>1. Splits(buf, 1, f)
  BY SplitsExist
<1>2. \A k, t : SplitAt(buf, k, t) = f[k][t]
  BY Zenon DEF SplitAt
<1> HIDE DEF f
<1>3. QED
  BY <1>1, <1>2, SplitStep

LEMMA SplitIsAt ==
    ASSUME NEW inside, NEW buf
    PROVE  Split(inside, buf) = SplitAt(buf, 1, inside)
  BY SplitIs, Zenon DEF SplitAt

\* ReadPart from a place on is reading what is from there.
LEMMA SplitOfRest ==
    ASSUME NEW S
    PROVE  \A buf \in Seq(S) : \A from \in 1 .. Len(buf) + 1 : \A thinking \in BOOLEAN :
               SplitAt(buf, from, thinking) = Split(thinking, SubSeq(buf, from, Len(buf)))
<1> DEFINE Right(buf, from) ==
               \A thinking \in BOOLEAN :
                   SplitAt(buf, from, thinking) = Split(thinking, SubSeq(buf, from, Len(buf)))
           Good(n) == \A buf \in Seq(S) : \A from \in 1 .. Len(buf) + 1 :
                          Len(buf) + 1 - from = n => Right(buf, from)
           Bad == {n \in Nat : ~Good(n)}
<1>1. SUFFICES ASSUME Bad # {}
               PROVE  FALSE
  <2>1. SUFFICES ASSUME NEW buf \in Seq(S), NEW from \in 1 .. Len(buf) + 1
                 PROVE  Right(buf, from)
    OBVIOUS
  <2>2. Len(buf) + 1 - from \in Nat
    OBVIOUS
  <2> HIDE DEF Right
  <2>3. QED
    BY <1>1, <2>2
<1>2. PICK n \in Bad : \A k \in Bad : ~(<<k, n>> \in OpToRel(<, Nat))
  <2> HIDE DEF Good
  <2>1. Bad \subseteq Nat
    OBVIOUS
  <2> HIDE DEF Bad
  <2>2. QED
    BY <1>1, <2>1, NatLessThanWellFounded, WFMin
<1>3. n \in Nat /\ ~Good(n) /\ \A k \in Nat : k < n => Good(k)
  <2> HIDE DEF Good
  <2>1. \A k \in Nat : k < n => <<k, n>> \in OpToRel(<, Nat)
    BY <1>2 DEF OpToRel
  <2>2. QED
    BY <1>2, <2>1
<1>4a. PICK buf \in Seq(S) : \E from \in 1 .. Len(buf) + 1 : Len(buf) + 1 - from = n /\ ~Right(buf, from)
  <2> HIDE DEF Right
  <2>1. QED
    BY <1>3
<1>4. PICK from \in 1 .. Len(buf) + 1 : Len(buf) + 1 - from = n /\ ~Right(buf, from)
  BY <1>4a
<1>5. \A b \in Seq(S) : \A k \in 1 .. Len(b) + 1 : Len(b) + 1 - k < n => Right(b, k)
  <2> HIDE DEF Right
  <2>1. \A b \in Seq(S) : \A k \in 1 .. Len(b) + 1 : Len(b) + 1 - k \in Nat
    OBVIOUS
  <2>2. QED
    BY <1>3, <2>1
<1> HIDE DEF Good, Bad
<1>6. ASSUME NEW thinking \in BOOLEAN
      PROVE  SplitAt(buf, from, thinking) = Split(thinking, SubSeq(buf, from, Len(buf)))
  <2> DEFINE text == SubSeq(buf, from, Len(buf))
             cut  == Cut(thinking, text)
             next == from + cut - 1 + Len(TagOf(thinking))
             nextOfText == 1 + cut - 1 + Len(TagOf(thinking))
  <2>1. Len(buf) \in Nat /\ Len(buf) \in from - 1 .. Len(buf) /\ Len(TagOf(thinking)) = 3
    BY Tags
  <2>2. text \in Seq(S) /\ Len(text) = Len(buf) - from + 1
        /\ \A i \in 1 .. Len(buf) - from + 1 : text[i] = buf[from + i - 1]
    BY <2>1, Sub
  <2>3. SplitAt(buf, from, thinking) = ReadPart(thinking, text, SplitAt(buf, next, ~thinking))
    BY SplitAtStep
  <2>4. SubSeq(text, 1, Len(text)) = text
    <3> HIDE DEF text
    <3>1. QED
      BY <2>2
  <2>5. Split(thinking, text) = ReadPart(thinking, text, SplitAt(text, nextOfText, ~thinking))
    <3> HIDE DEF text
    <3>1. 1 \in 1 .. Len(text) + 1
      BY <2>1, <2>2
    <3>2. QED
      BY <2>2, <2>4, <3>1, SplitAtStep, SplitIsAt
  <2>6. ASSUME Places(text, TagOf(thinking)) # {}
        PROVE  SplitAt(buf, next, ~thinking) = SplitAt(text, nextOfText, ~thinking)
    <3>1. cut \in 1 .. Len(buf) - from - 1 /\ next \in from + 3 .. Len(buf) + 1
      BY <2>1, <2>6, Beyond
    <3> HIDE DEF cut
    <3>1a. next = from + cut + 2 /\ nextOfText = cut + 3
      BY <2>1, <3>1
    <3> HIDE DEF next, nextOfText
    <3>2. nextOfText \in 1 .. Len(text) + 1 /\ nextOfText = next - from + 1
      <4> HIDE DEF text
      <4>1. QED
        BY <2>1, <2>2, <3>1, <3>1a
    <3>3. SubSeq(text, nextOfText, Len(text)) = SubSeq(buf, next, Len(buf))
      <4>1. nextOfText \in 1 .. Len(buf) - from + 2 /\ from + nextOfText - 1 = next
        <5> HIDE DEF text
        <5>1. QED
          BY <2>1, <2>2, <3>1, <3>2
      <4>2. QED
        BY <4>1, RestOfRest
    <3> HIDE DEF text
    <3>4. next \in 1 .. Len(buf) + 1 /\ Len(buf) + 1 - next < n /\ Len(text) + 1 - nextOfText < n
      BY <1>4, <2>1, <2>2, <3>1, <3>2
    <3>5. Right(buf, next) /\ Right(text, nextOfText)
      <4> HIDE DEF Right
      <4>1. QED
        BY <1>5, <2>2, <3>2, <3>4
    <3>6. QED
      BY <3>3, <3>5
  <2> HIDE DEF text, cut, next, nextOfText
  <2>7. SplitAt(buf, from, thinking) = Split(thinking, text)
    BY <2>3, <2>5, <2>6, ReadPartSame
  <2>8. QED
    BY <2>7 DEF text
<1>7. QED
  BY <1>4, <1>6

-----------------------------------------------------------------------------
(* The same in one step: up to the first tag, or to what may begin one.      *)

FirstAt(thinking, text, i) ==
    /\ TagAt(text, TagOf(thinking), i)
    /\ \A j : TagAt(text, TagOf(thinking), j) => i <= j

NoTag(thinking, text, k) ==
    /\ \A j : ~TagAt(text, TagOf(thinking), j)
    /\ TagEnds(text, TagOf(thinking), k)
    /\ \A n : TagEnds(text, TagOf(thinking), n) => n <= k

\* What reading gives when the text before the tag is put before the rest.
Joined(thinking, before, r) ==
    IF thinking THEN [r EXCEPT !.reasoning = before \o @] ELSE [r EXCEPT !.content = before \o @]

Ended(thinking, held) ==
    [inside |-> thinking, pending |-> held, content |-> <<>>, reasoning |-> <<>>]

From(text, m) == SubSeq(text, m, Len(text))

LEMMA TagOrNone ==
    ASSUME NEW S, NEW text \in Seq(S), NEW thinking \in BOOLEAN
    PROVE  \/ \E i : FirstAt(thinking, text, i)
           \/ \E k : NoTag(thinking, text, k)
<1>1. CASE Places(text, TagOf(thinking)) # {}
  BY <1>1, FirstPlace DEF FirstAt
<1>2. CASE Places(text, TagOf(thinking)) = {}
  <2>1. \A j : ~TagAt(text, TagOf(thinking), j)
    BY <1>2, Tags, PlacesAt
  <2>2. QED
    BY <2>1, Retained DEF NoTag
<1>3. QED
  BY <1>1, <1>2

LEMMA SplitFirst ==
    ASSUME NEW S, NEW text \in Seq(S), NEW thinking \in BOOLEAN
    PROVE  Split(thinking, text)
             = ReadPart(thinking, text, Split(~thinking, From(text, Cut(thinking, text) + 3)))
<1> DEFINE cut == Cut(thinking, text)
           next == 1 + cut - 1 + Len(TagOf(thinking))
<1>1. Len(text) \in Nat /\ 1 \in 1 .. Len(text) + 1 /\ Len(TagOf(thinking)) = 3
  BY Tags
<1>2. From(text, 1) = text
  BY <1>1 DEF From
<1>3. Split(thinking, text) = ReadPart(thinking, text, SplitAt(text, next, ~thinking))
  <2>1. SplitAt(text, 1, thinking) = ReadPart(thinking, text, SplitAt(text, next, ~thinking))
    BY <1>1, <1>2, SplitAtStep DEF From
  <2>2. QED
    BY <2>1, SplitIsAt
<1>4. ASSUME Places(text, TagOf(thinking)) # {}
      PROVE  SplitAt(text, next, ~thinking) = Split(~thinking, From(text, cut + 3))
  <2>1. cut \in 1 .. Len(text) - 1 - 1 /\ next \in 1 + 3 .. Len(text) + 1
    BY <1>1, <1>2, <1>4, Beyond DEF From
  <2> HIDE DEF cut
  <2>2. next = cut + 3 /\ next \in 1 .. Len(text) + 1
    BY <1>1, <2>1
  <2> HIDE DEF next
  <2>3. SplitAt(text, next, ~thinking) = Split(~thinking, SubSeq(text, next, Len(text)))
    BY <2>2, SplitOfRest
  <2>4. QED
    BY <2>2, <2>3 DEF From
<1> HIDE DEF cut, next
<1>5. QED
  BY <1>3, <1>4, ReadPartSame DEF cut

LEMMA SplitAtTag ==
    ASSUME NEW S, NEW text \in Seq(S), NEW thinking \in BOOLEAN, NEW i, FirstAt(thinking, text, i)
    PROVE  Split(thinking, text)
             = Joined(thinking, SubSeq(text, 1, i - 1), Split(~thinking, From(text, i + 3)))
<1>1. Places(text, TagOf(thinking)) # {}
  BY Tags, PlacesAt DEF FirstAt
<1>2. Min(Places(text, TagOf(thinking))) = i
  <2> DEFINE m == Min(Places(text, TagOf(thinking)))
  <2>1. TagAt(text, TagOf(thinking), m) /\ \A j : TagAt(text, TagOf(thinking), j) => m <= j
    BY <1>1, FirstPlace
  <2> HIDE DEF m
  <2>2. \A j : TagAt(text, TagOf(thinking), j) => j \in Int
    BY DEF TagAt
  <2>2a. m \in Int /\ i \in Int /\ m <= i /\ i <= m
    BY <2>1, <2>2 DEF FirstAt
  <2>3. QED
    BY <2>2a DEF m
<1>3. Cut(thinking, text) = i
  BY <1>1, <1>2 DEF Cut
<1>4. ReadPart(thinking, text, Split(~thinking, From(text, i + 3)))
        = Joined(thinking, SubSeq(text, 1, i - 1), Split(~thinking, From(text, i + 3)))
  BY <1>1, <1>3, Zenon DEF ReadPart, Joined, Before
<1>5. QED
  BY <1>3, <1>4, SplitFirst

LEMMA SplitNoTag ==
    ASSUME NEW S, NEW text \in Seq(S), NEW thinking \in BOOLEAN, NEW k, NoTag(thinking, text, k)
    PROVE  Split(thinking, text)
             = Joined(thinking, SubSeq(text, 1, Len(text) - k),
                      Ended(thinking, From(text, Len(text) - k + 1)))
<1>1. Places(text, TagOf(thinking)) = {}
  BY Tags, PlacesAt DEF NoTag
<1>2. retain_pending_prefix(text, TagOf(thinking)) = k
  <2> DEFINE m == retain_pending_prefix(text, TagOf(thinking))
  <2>1. m \in 0 .. 2 /\ TagEnds(text, TagOf(thinking), m)
        /\ \A n : TagEnds(text, TagOf(thinking), n) => n <= m
    BY Retained
  <2> HIDE DEF m
  <2>2. m \in Int /\ k \in Int /\ m <= k /\ k <= m
    BY <2>1 DEF NoTag, TagEnds
  <2>3. QED
    BY <2>2 DEF m
<1>3. Cut(thinking, text) = Len(text) - k + 1
  BY <1>1, <1>2 DEF Cut
<1>4. Cut(thinking, text) - 1 = Len(text) - k
  BY <1>3 DEF NoTag, TagEnds
<1> DEFINE cut == Cut(thinking, text)
           r == Split(~thinking, From(text, cut + 3))
<1>5. ReadPart(thinking, text, r)
        = Joined(thinking, SubSeq(text, 1, cut - 1), Ended(thinking, From(text, cut)))
  <2> HIDE DEF r
  <2>1. QED
    BY <1>1, Zenon DEF ReadPart, Joined, Before, Ended, From
<1>6. Split(thinking, text) = ReadPart(thinking, text, r)
  BY SplitFirst
<1> HIDE DEF cut, r
<1>7. cut = Len(text) - k + 1 /\ cut - 1 = Len(text) - k
  BY <1>3, <1>4 DEF cut
<1>8. QED
  BY <1>5, <1>6, <1>7

\* A least one of some texts.
LEMMA LeastText ==
    ASSUME NEW S, NEW B, B \subseteq Seq(S), B # {}
    PROVE  \E b \in B : \A c \in B : Len(b) <= Len(c)
<1> DEFINE X == {Len(b) : b \in B}
<1>1. X \subseteq Nat /\ X # {}
  <2>1. \A b \in B : Len(b) \in Nat
    OBVIOUS
  <2>2. PICK b \in B : TRUE
    OBVIOUS
  <2>3. QED
    BY <2>1, <2>2
<1>2. Min(X) \in X /\ \A y \in X : Min(X) <= y
  <2> HIDE DEF X
  <2>1. QED
    BY <1>1, LeastOf
<1>3. PICK b \in B : Min(X) = Len(b)
  BY <1>2
<1>4. QED
  BY <1>2, <1>3

SplitResult(S) ==
    [inside : BOOLEAN, pending : Seq(S), content : Seq(S), reasoning : Seq(S)]

\* r with some text put before it.
Follows(j, thinking, before, r) ==
    /\ j.inside = r.inside /\ j.pending = r.pending
    /\ j.content = (IF thinking THEN r.content ELSE before \o r.content)
    /\ j.reasoning = (IF thinking THEN before \o r.reasoning ELSE r.reasoning)

LEMMA JoinedIs ==
    ASSUME NEW S, NEW thinking \in BOOLEAN, NEW before \in Seq(S), NEW r \in SplitResult(S)
    PROVE  /\ Joined(thinking, before, r) \in SplitResult(S)
           /\ Follows(Joined(thinking, before, r), thinking, before, r)
<1>1. r.content \in Seq(S) /\ r.reasoning \in Seq(S)
  BY DEF SplitResult
<1>2. before \o r.content \in Seq(S) /\ before \o r.reasoning \in Seq(S)
  BY <1>1
<1>3. CASE thinking
  BY <1>2, <1>3 DEF Joined, SplitResult, Follows
<1>4. CASE ~thinking
  BY <1>2, <1>4 DEF Joined, SplitResult, Follows
<1>5. QED
  BY <1>3, <1>4

LEMMA EndedIs ==
    ASSUME NEW S, NEW thinking \in BOOLEAN, NEW held \in Seq(S)
    PROVE  LET e == Ended(thinking, held)
           IN  /\ e \in SplitResult(S) /\ e.inside = thinking /\ e.pending = held
               /\ e.content = <<>> /\ e.reasoning = <<>>
<1> DEFINE none == <<>>
<1>1. none \in Seq(S)
  OBVIOUS
<1> HIDE DEF none
<1>2. [inside |-> thinking, pending |-> held, content |-> none, reasoning |-> none] \in SplitResult(S)
  BY <1>1 DEF SplitResult
<1>3. QED
  BY <1>2 DEF Ended, none

LEMMA Glued ==
    ASSUME NEW S, NEW a \in Seq(S), NEW b \in Seq(S)
    PROVE  /\ a \o b \in Seq(S) /\ Len(a \o b) = Len(a) + Len(b)
           /\ \A i \in 1 .. Len(a) : (a \o b)[i] = a[i]
           /\ \A i \in 1 .. Len(b) : (a \o b)[Len(a) + i] = b[i]
<1>1. Len(a) \in Nat /\ Len(b) \in Nat
  OBVIOUS
<1>2. a \o b \in Seq(S) /\ Len(a \o b) = Len(a) + Len(b)
  OBVIOUS
<1>3. \A i \in 1 .. Len(a) : (a \o b)[i] = a[i]
  BY <1>1
<1>4. ASSUME NEW i \in 1 .. Len(b)
      PROVE  (a \o b)[Len(a) + i] = b[i]
  BY <1>1
<1>5. QED
  BY <1>2, <1>3, <1>4

LEMMA GluedThree ==
    ASSUME NEW S, NEW a \in Seq(S), NEW b \in Seq(S), NEW c \in Seq(S)
    PROVE  (a \o b) \o c = a \o (b \o c)
  OBVIOUS

\* A text is what is before a place and what is from it on.
OfParts(text, x, p) == text = x \o p

LEMMA Parts ==
    ASSUME NEW S, NEW text \in Seq(S), NEW m \in 1 .. Len(text) + 1
    PROVE  /\ SubSeq(text, 1, m - 1) \in Seq(S) /\ Len(SubSeq(text, 1, m - 1)) = m - 1
           /\ From(text, m) \in Seq(S) /\ Len(From(text, m)) = Len(text) - m + 1
           /\ OfParts(text, SubSeq(text, 1, m - 1), From(text, m))
<1> DEFINE x == SubSeq(text, 1, m - 1)
           p == From(text, m)
           w == x \o p
<1>1. /\ Len(text) \in Nat /\ m \in Nat /\ m >= 1 /\ m <= Len(text) + 1
      /\ 1 \in 1 .. Len(text) + 1 /\ m - 1 \in 1 - 1 .. Len(text) /\ (m - 1) - 1 + 1 = m - 1
      /\ Len(text) \in m - 1 .. Len(text)
  OBVIOUS
<1>2. x \in Seq(S) /\ Len(x) = m - 1 /\ \A i \in 1 .. m - 1 : x[i] = text[i]
  <2>1. x \in Seq(S) /\ Len(x) = (m - 1) - 1 + 1
        /\ \A i \in 1 .. (m - 1) - 1 + 1 : x[i] = text[1 + i - 1]
    BY <1>1, Sub
  <2> HIDE DEF x
  <2>2. \A i \in 1 .. m - 1 : 1 + i - 1 = i
    BY <1>1
  <2>3. QED
    BY <1>1, <2>1, <2>2
<1>3. p \in Seq(S) /\ Len(p) = Len(text) - m + 1
      /\ \A i \in 1 .. Len(text) - m + 1 : p[i] = text[m + i - 1]
  BY <1>1, Sub DEF From
<1> HIDE DEF x, p
<1>4. /\ w \in Seq(S) /\ Len(w) = Len(x) + Len(p)
      /\ \A i \in 1 .. Len(x) : w[i] = x[i]
      /\ \A i \in 1 .. Len(p) : w[Len(x) + i] = p[i]
  <2>1. x \in Seq(S) /\ p \in Seq(S)
    BY <1>2, <1>3
  <2>2. QED
    BY <2>1, Glued
<1> HIDE DEF w
<1>5. ASSUME NEW i \in 1 .. Len(text)
      PROVE  text[i] = w[i]
  <2>1. CASE i < m
    <3>1. i \in 1 .. m - 1
      BY <1>1, <2>1
    <3>2. QED
      BY <1>2, <1>4, <3>1
  <2>2. CASE ~(i < m)
    <3> DEFINE k == i - m + 1
    <3>1. k \in 1 .. Len(text) - m + 1 /\ i = Len(x) + k /\ m + k - 1 = i
      BY <1>1, <1>2, <2>2
    <3> HIDE DEF k
    <3>2. w[i] = p[k] /\ p[k] = text[i]
      BY <1>3, <1>4, <3>1
    <3>3. QED
      BY <3>2
  <2>3. QED
    BY <2>1, <2>2
<1>6. Len(text) = Len(w)
  BY <1>1, <1>2, <1>3, <1>4
<1>7. text = w
  BY <1>4, <1>5, <1>6, Same
<1>8. QED
  BY <1>2, <1>3, <1>7 DEF w, x, p, OfParts

\* The parts around a tag, and around what may begin one.
LEMMA AroundTag ==
    ASSUME NEW S, NEW text \in Seq(S), NEW thinking \in BOOLEAN, NEW i, FirstAt(thinking, text, i)
    PROVE  /\ i \in 1 .. Len(text) - 2
           /\ SubSeq(text, 1, i - 1) \in Seq(S)
           /\ From(text, i + 3) \in Seq(S) /\ Len(From(text, i + 3)) = Len(text) - i - 2
<1>1. i \in 1 .. Len(text) - 2 /\ Len(text) \in Nat
  BY DEF FirstAt, TagAt
<1>2. i \in 1 .. Len(text) + 1 /\ i + 3 \in 1 .. Len(text) + 1
      /\ Len(text) - (i + 3) + 1 = Len(text) - i - 2
  BY <1>1
<1>3. SubSeq(text, 1, i - 1) \in Seq(S)
  BY <1>2, Parts
<1>4. From(text, i + 3) \in Seq(S) /\ Len(From(text, i + 3)) = Len(text) - (i + 3) + 1
  BY <1>2, Parts
<1>5. QED
  BY <1>1, <1>2, <1>3, <1>4

LEMMA AroundHeld ==
    ASSUME NEW S, NEW text \in Seq(S), NEW thinking \in BOOLEAN, NEW k, NoTag(thinking, text, k)
    PROVE  LET x == SubSeq(text, 1, Len(text) - k)
               p == From(text, Len(text) - k + 1)
           IN  /\ k \in 0 .. 2 /\ k <= Len(text)
               /\ x \in Seq(S) /\ Len(x) = Len(text) - k
               /\ p \in Seq(S) /\ Len(p) = k
               /\ OfParts(text, x, p)
<1> DEFINE m == Len(text) - k + 1
<1>1. k \in 0 .. 2 /\ k <= Len(text) /\ Len(text) \in Nat
  BY DEF NoTag, TagEnds
<1>2. m \in 1 .. Len(text) + 1 /\ m - 1 = Len(text) - k /\ Len(text) - m + 1 = k
  BY <1>1
<1> HIDE DEF m
<1>3. /\ SubSeq(text, 1, m - 1) \in Seq(S) /\ Len(SubSeq(text, 1, m - 1)) = m - 1
      /\ From(text, m) \in Seq(S) /\ Len(From(text, m)) = Len(text) - m + 1
      /\ OfParts(text, SubSeq(text, 1, m - 1), From(text, m))
  BY <1>2, Parts
<1>4. QED
  BY <1>1, <1>2, <1>3 DEF m

LEMMA SplitType ==
    ASSUME NEW S, NEW text \in Seq(S), NEW thinking \in BOOLEAN
    PROVE  Split(thinking, text) \in SplitResult(S)
<1> DEFINE B == {a \in Seq(S) : \E t \in BOOLEAN : Split(t, a) \notin SplitResult(S)}
<1>1. SUFFICES ASSUME B # {}
               PROVE  FALSE
  OBVIOUS
<1>2. PICK a \in B : \A c \in B : Len(a) <= Len(c)
  <2>1. B \subseteq Seq(S)
    OBVIOUS
  <2> HIDE DEF B
  <2>2. QED
    BY <1>1, <2>1, LeastText
<1>3. a \in Seq(S) /\ \A c \in Seq(S) : Len(c) < Len(a) =>
          \A t \in BOOLEAN : Split(t, c) \in SplitResult(S)
  <2>1. \A c \in Seq(S) : Len(c) \in Nat
    OBVIOUS
  <2>2. QED
    BY <1>2, <2>1
<1>4. PICK t \in BOOLEAN : Split(t, a) \notin SplitResult(S)
  BY <1>2
<1> HIDE DEF B
<1>5. ASSUME NEW i, FirstAt(t, a, i)
      PROVE  Split(t, a) \in SplitResult(S)
  <2>1. SubSeq(a, 1, i - 1) \in Seq(S) /\ From(a, i + 3) \in Seq(S) /\ Len(From(a, i + 3)) < Len(a)
    BY <1>3, <1>5, AroundTag
  <2>2. Split(~t, From(a, i + 3)) \in SplitResult(S)
    BY <1>3, <2>1
  <2>3. Joined(t, SubSeq(a, 1, i - 1), Split(~t, From(a, i + 3))) \in SplitResult(S)
    BY <2>1, <2>2, JoinedIs
  <2>4. QED
    BY <1>3, <1>5, <2>3, SplitAtTag
<1>6. ASSUME NEW k, NoTag(t, a, k)
      PROVE  Split(t, a) \in SplitResult(S)
  <2>1. SubSeq(a, 1, Len(a) - k) \in Seq(S) /\ From(a, Len(a) - k + 1) \in Seq(S)
    BY <1>3, <1>6, AroundHeld
  <2>2. Ended(t, From(a, Len(a) - k + 1)) \in SplitResult(S)
    BY <2>1, EndedIs
  <2>3. Joined(t, SubSeq(a, 1, Len(a) - k), Ended(t, From(a, Len(a) - k + 1))) \in SplitResult(S)
    BY <2>1, <2>2, JoinedIs
  <2>4. QED
    BY <1>3, <1>6, <2>3, SplitNoTag
<1>7. QED
  BY <1>3, <1>4, <1>5, <1>6, TagOrNone

-----------------------------------------------------------------------------
(* Two texts, one after the other.                                           *)

\* From a place in the second one on, and up to it.
LEMMA GluedTail ==
    ASSUME NEW S, NEW x \in Seq(S), NEW q \in Seq(S), NEW m \in 1 .. Len(q) + 1
    PROVE  /\ From(x \o q, Len(x) + m) = From(q, m)
           /\ SubSeq(x \o q, 1, Len(x) + m - 1) = x \o SubSeq(q, 1, m - 1)
<1> DEFINE w == x \o q
           p == SubSeq(q, 1, m - 1)
           r == From(q, m)
           u == From(w, Len(x) + m)
           v == SubSeq(w, 1, Len(x) + m - 1)
           z == x \o p
<1>1. /\ Len(x) \in Nat /\ Len(q) \in Nat /\ m \in Nat /\ m >= 1 /\ m <= Len(q) + 1
  OBVIOUS
<1>2. /\ w \in Seq(S) /\ Len(w) = Len(x) + Len(q)
      /\ \A i \in 1 .. Len(x) : w[i] = x[i]
      /\ \A i \in 1 .. Len(q) : w[Len(x) + i] = q[i]
  BY Glued
<1> HIDE DEF w
<1>3. /\ m - 1 \in 1 - 1 .. Len(q) /\ 1 \in 1 .. Len(q) + 1 /\ (m - 1) - 1 + 1 = m - 1
      /\ Len(q) \in m - 1 .. Len(q)
      /\ Len(x) + m - 1 \in 1 - 1 .. Len(w) /\ 1 \in 1 .. Len(w) + 1
      /\ (Len(x) + m - 1) - 1 + 1 = Len(x) + m - 1
      /\ Len(x) + m \in 1 .. Len(w) + 1 /\ Len(w) \in Len(x) + m - 1 .. Len(w)
      /\ Len(w) - (Len(x) + m) + 1 = Len(q) - m + 1
  BY <1>1, <1>2
<1>4. p \in Seq(S) /\ Len(p) = m - 1 /\ \A i \in 1 .. m - 1 : p[i] = q[1 + i - 1]
  <2>1. p \in Seq(S) /\ Len(p) = (m - 1) - 1 + 1 /\ \A i \in 1 .. (m - 1) - 1 + 1 : p[i] = q[1 + i - 1]
    BY <1>3, Sub
  <2> HIDE DEF p
  <2>2. QED
    BY <1>3, <2>1
<1>5. r \in Seq(S) /\ Len(r) = Len(q) - m + 1 /\ \A i \in 1 .. Len(q) - m + 1 : r[i] = q[m + i - 1]
  BY <1>3, Sub DEF From
<1>6. u \in Seq(S) /\ Len(u) = Len(q) - m + 1
      /\ \A i \in 1 .. Len(q) - m + 1 : u[i] = w[Len(x) + m + i - 1]
  <2> DEFINE k == Len(x) + m
  <2>1. u \in Seq(S) /\ Len(u) = Len(w) - k + 1
        /\ \A i \in 1 .. Len(w) - k + 1 : u[i] = w[k + i - 1]
    <3>1. k \in 1 .. Len(w) + 1 /\ Len(w) \in k - 1 .. Len(w) /\ u = SubSeq(w, k, Len(w))
      BY <1>3 DEF From
    <3> HIDE DEF u, k
    <3>2. QED
      BY <1>2, <3>1, Sub
  <2> HIDE DEF u
  <2>2. QED
    BY <1>3, <2>1
<1>7. v \in Seq(S) /\ Len(v) = Len(x) + m - 1
      /\ \A i \in 1 .. Len(x) + m - 1 : v[i] = w[i]
  <2> DEFINE k == Len(x) + m - 1
  <2>1. v \in Seq(S) /\ Len(v) = k - 1 + 1 /\ \A i \in 1 .. k - 1 + 1 : v[i] = w[1 + i - 1]
    <3>1. k \in 1 - 1 .. Len(w) /\ v = SubSeq(w, 1, k)
      BY <1>3
    <3> HIDE DEF v, k
    <3>2. QED
      BY <1>2, <1>3, <3>1, Sub
  <2> HIDE DEF v, k
  <2>2. k \in Nat /\ k - 1 + 1 = k /\ \A i \in 1 .. k : 1 + i - 1 = i
    BY <1>1 DEF k
  <2>3. v \in Seq(S) /\ Len(v) = k /\ \A i \in 1 .. k : v[i] = w[i]
    BY <2>1, <2>2
  <2>4. QED
    BY <2>3 DEF k
<1>8. /\ z \in Seq(S) /\ Len(z) = Len(x) + Len(p)
      /\ \A i \in 1 .. Len(x) : z[i] = x[i]
      /\ \A i \in 1 .. Len(p) : z[Len(x) + i] = p[i]
  <2> HIDE DEF p
  <2>1. p \in Seq(S)
    BY <1>4
  <2>2. QED
    BY <2>1, Glued
<1> HIDE DEF p, r, u, v, z
<1>9. u = r
  <2>1. ASSUME NEW i \in 1 .. Len(u)
        PROVE  u[i] = r[i]
    <3>1. m + i - 1 \in 1 .. Len(q) /\ Len(x) + m + i - 1 = Len(x) + (m + i - 1)
          /\ i \in 1 .. Len(q) - m + 1
      BY <1>1, <1>6
    <3>2. QED
      BY <1>2, <1>5, <1>6, <3>1
  <2>2. QED
    BY <1>5, <1>6, <2>1, Same
<1>10. v = z
  <2>1. Len(v) = Len(z)
    BY <1>1, <1>4, <1>7, <1>8
  <2>2. ASSUME NEW i \in 1 .. Len(v)
        PROVE  v[i] = z[i]
    <3>1. i \in 1 .. Len(x) + m - 1 /\ v[i] = w[i]
      BY <1>7
    <3>2. CASE i <= Len(x)
      BY <1>1, <1>2, <1>8, <3>1, <3>2
    <3>3. CASE i > Len(x)
      <4> DEFINE j == i - Len(x)
      <4>1. j \in 1 .. Len(q) /\ j \in 1 .. m - 1 /\ j \in 1 .. Len(p) /\ i = Len(x) + j /\ 1 + j - 1 = j
        BY <1>1, <1>4, <3>1, <3>3
      <4> HIDE DEF j
      <4>2. w[i] = q[j] /\ z[i] = p[j] /\ p[j] = q[j]
        BY <1>2, <1>4, <1>8, <4>1
      <4>3. QED
        BY <3>1, <4>2
    <3>4. QED
      BY <1>1, <3>1, <3>2, <3>3
  <2>3. QED
    BY <1>7, <1>8, <2>1, <2>2, Same
<1>11. QED
  BY <1>9, <1>10 DEF u, v, z, r, p, w

\* Up to a place in the first one, and from it on.
LEMMA GluedHead ==
    ASSUME NEW S, NEW a \in Seq(S), NEW b \in Seq(S), NEW m \in 1 .. Len(a) + 1
    PROVE  /\ SubSeq(a \o b, 1, m - 1) = SubSeq(a, 1, m - 1)
           /\ From(a \o b, m) = From(a, m) \o b
<1> DEFINE x == SubSeq(a, 1, m - 1)
           q == From(a, m)
<1>1. Len(a) \in Nat /\ Len(b) \in Nat /\ m \in Nat /\ m >= 1 /\ m <= Len(a) + 1
  OBVIOUS
<1>2. x \in Seq(S) /\ Len(x) = m - 1
  <2>1. 1 \in 1 .. Len(a) + 1 /\ m - 1 \in 1 - 1 .. Len(a) /\ (m - 1) - 1 + 1 = m - 1
    BY <1>1
  <2>2. x \in Seq(S) /\ Len(x) = (m - 1) - 1 + 1
    BY <2>1, Sub
  <2> HIDE DEF x
  <2>3. QED
    BY <2>1, <2>2
<1>3. q \in Seq(S) /\ Len(q) = Len(a) - m + 1
  <2>1. Len(a) \in m - 1 .. Len(a)
    BY <1>1
  <2>2. QED
    BY <2>1, Sub DEF From
<1>4. a = x \o q
  <2>1. OfParts(a, x, q)
    BY Parts
  <2>2. QED
    BY <2>1 DEF OfParts
<1> HIDE DEF x, q
<1>5. a \o b = x \o (q \o b)
  BY <1>2, <1>3, <1>4, GluedThree
<1>6. q \o b \in Seq(S) /\ 1 \in 1 .. Len(q \o b) + 1 /\ Len(x) + 1 = m /\ Len(x) + 1 - 1 = m - 1
  <2>1. q \o b \in Seq(S) /\ Len(q \o b) = Len(q) + Len(b)
    BY <1>3, Glued
  <2>2. QED
    BY <1>1, <1>2, <1>3, <2>1
<1> DEFINE t == q \o b
           none == SubSeq(t, 1, 1 - 1)
<1>7. /\ From(x \o t, Len(x) + 1) = From(t, 1)
      /\ SubSeq(x \o t, 1, Len(x) + 1 - 1) = x \o none
  <2> HIDE DEF t
  <2>1. QED
    BY <1>2, <1>6, GluedTail DEF t
<1>8. From(t, 1) = t /\ none = <<>>
  <2> HIDE DEF t
  <2>1. t \in Seq(S)
    BY <1>6 DEF t
  <2>2. QED
    BY <2>1 DEF From
<1>9. x \o none = x
  BY <1>2, <1>8
<1> HIDE DEF none
<1>10. From(a \o b, m) = t /\ SubSeq(a \o b, 1, m - 1) = x
  BY <1>5, <1>6, <1>7, <1>8, <1>9
<1>11. QED
  BY <1>10 DEF t, x, q

LEMMA TagGlued ==
    ASSUME NEW S, NEW x \in Seq(S), NEW q \in Seq(S), NEW tag
    PROVE  /\ \A j : TagAt(q, tag, j) => TagAt(x \o q, tag, Len(x) + j)
           /\ \A j : TagAt(x \o q, tag, j) /\ j > Len(x) => TagAt(q, tag, j - Len(x))
           /\ \A j : TagAt(x, tag, j) => TagAt(x \o q, tag, j)
           /\ \A j : TagAt(x \o q, tag, j) /\ j <= Len(x) - 2 => TagAt(x, tag, j)
<1> DEFINE w == x \o q
<1>1. Len(x) \in Nat /\ Len(q) \in Nat
  OBVIOUS
<1>2. /\ Len(w) = Len(x) + Len(q)
      /\ \A i \in 1 .. Len(x) : w[i] = x[i]
      /\ \A i \in 1 .. Len(q) : w[Len(x) + i] = q[i]
  BY Glued
<1> HIDE DEF w
<1>3. ASSUME NEW j \in Int, j >= 1
      PROVE  TagAt(q, tag, j) <=> TagAt(w, tag, Len(x) + j)
  <2>1. Len(x) + j \in 1 .. Len(w) - 2 <=> j \in 1 .. Len(q) - 2
    BY <1>1, <1>2, <1>3
  <2>2. ASSUME j \in 1 .. Len(q) - 2
        PROVE  /\ w[Len(x) + j] = q[j] /\ w[Len(x) + j + 1] = q[j + 1]
               /\ w[Len(x) + j + 2] = q[j + 2]
    <3>1. /\ j \in 1 .. Len(q) /\ j + 1 \in 1 .. Len(q) /\ j + 2 \in 1 .. Len(q)
          /\ Len(x) + j + 1 = Len(x) + (j + 1) /\ Len(x) + j + 2 = Len(x) + (j + 2)
      BY <1>1, <2>2
    <3>2. /\ w[Len(x) + j] = q[j] /\ w[Len(x) + (j + 1)] = q[j + 1]
          /\ w[Len(x) + (j + 2)] = q[j + 2]
      <4>1. QED
        BY <1>2, <3>1, Zenon
    <3>3. QED
      BY <3>1, <3>2, Zenon
  <2>3. QED
    BY <2>1, <2>2 DEF TagAt
<1>4. ASSUME NEW j \in Int, j <= Len(x) - 2
      PROVE  TagAt(x, tag, j) <=> TagAt(w, tag, j)
  <2>1. j \in 1 .. Len(w) - 2 <=> j \in 1 .. Len(x) - 2
    BY <1>1, <1>2, <1>4
  <2>2. ASSUME j \in 1 .. Len(x) - 2
        PROVE  w[j] = x[j] /\ w[j + 1] = x[j + 1] /\ w[j + 2] = x[j + 2]
    <3>1. j \in 1 .. Len(x) /\ j + 1 \in 1 .. Len(x) /\ j + 2 \in 1 .. Len(x)
      BY <1>1, <2>2
    <3>2. QED
      BY <1>2, <3>1
  <2>3. QED
    BY <2>1, <2>2 DEF TagAt
<1>5. \A j : TagAt(q, tag, j) => j \in Int /\ j >= 1
  BY <1>1 DEF TagAt
<1>6. \A j : TagAt(x, tag, j) => j \in Int /\ j <= Len(x) - 2
  BY <1>1 DEF TagAt
<1>7. \A j : TagAt(w, tag, j) => j \in Int
  BY DEF TagAt
<1>8. ASSUME NEW j, TagAt(w, tag, j), j > Len(x)
      PROVE  TagAt(q, tag, j - Len(x))
  <2>1. j - Len(x) \in Int /\ j - Len(x) >= 1 /\ Len(x) + (j - Len(x)) = j
    BY <1>1, <1>7, <1>8
  <2>2. QED
    BY <1>3, <1>8, <2>1
<1>9. QED
  BY <1>3, <1>4, <1>5, <1>6, <1>7, <1>8 DEF w

LEMMA EndsGlued ==
    ASSUME NEW S, NEW x \in Seq(S), NEW q \in Seq(S), NEW tag, NEW n, n <= Len(q)
    PROVE  TagEnds(x \o q, tag, n) <=> TagEnds(q, tag, n)
<1> DEFINE w == x \o q
<1>1. Len(x) \in Nat /\ Len(q) \in Nat
  OBVIOUS
<1>2. /\ Len(w) = Len(x) + Len(q)
      /\ \A i \in 1 .. Len(q) : w[Len(x) + i] = q[i]
  BY Glued
<1> HIDE DEF w
<1>3. CASE n \in 0 .. 2
  <2>1. n <= Len(w)
    BY <1>1, <1>2, <1>3
  <2>2. n >= 1 => w[Len(w)] = q[Len(q)]
    <3>1. n >= 1 => Len(q) \in 1 .. Len(q)
      BY <1>1, <1>3
    <3>2. QED
      BY <1>2, <3>1
  <2>3. n = 2 => w[Len(w) - 1] = q[Len(q) - 1]
    <3>1. n = 2 => Len(q) - 1 \in 1 .. Len(q) /\ Len(w) - 1 = Len(x) + (Len(q) - 1)
      BY <1>1, <1>2, <1>3
    <3>2. QED
      BY <1>2, <3>1
  <2>4. QED
    BY <1>3, <2>1, <2>2, <2>3 DEF TagEnds
<1>4. CASE n \notin 0 .. 2
  BY <1>4 DEF TagEnds
<1>5. QED
  BY <1>3, <1>4 DEF w

-----------------------------------------------------------------------------
(* The same is read of a text in pieces.                                     *)

Like(r, s) ==
    /\ r.inside = s.inside /\ r.pending = s.pending
    /\ r.content = s.content /\ r.reasoning = s.reasoning

\* What no tag begins in is read through.
LEMMA ReadThrough ==
    ASSUME NEW S, NEW x \in Seq(S), NEW q \in Seq(S), NEW thinking \in BOOLEAN,
           \A j : TagAt(x \o q, TagOf(thinking), j) => j > Len(x),
           \A n : TagEnds(x \o q, TagOf(thinking), n) => n <= Len(q)
    PROVE  Like(Split(thinking, x \o q), Joined(thinking, x, Split(thinking, q)))
<1> DEFINE w == x \o q
<1>1. Len(x) \in Nat /\ Len(q) \in Nat /\ w \in Seq(S) /\ Len(w) = Len(x) + Len(q)
  BY Glued
<1>2. ASSUME NEW y \in Seq(S), NEW r \in SplitResult(S)
      PROVE  Like(Joined(thinking, x \o y, r), Joined(thinking, x, Joined(thinking, y, r)))
  <2> DEFINE j == Joined(thinking, y, r)
             k == Joined(thinking, x, j)
             z == x \o y
             l == Joined(thinking, z, r)
             c == r.content
             d == r.reasoning
  <2>1. j \in SplitResult(S) /\ Follows(j, thinking, y, r)
    BY JoinedIs
  <2> HIDE DEF j
  <2>2. Follows(k, thinking, x, j)
    BY <2>1, JoinedIs
  <2>3. z \in Seq(S)
    BY Glued
  <2> HIDE DEF z
  <2>4. Follows(l, thinking, z, r)
    BY <2>3, JoinedIs
  <2>5. c \in Seq(S) /\ d \in Seq(S)
    BY DEF SplitResult
  <2> HIDE DEF c, d, k, l
  <2>6. z \o c = x \o (y \o c) /\ z \o d = x \o (y \o d)
    <3>1. (x \o y) \o c = x \o (y \o c)
      BY <2>5
    <3>2. (x \o y) \o d = x \o (y \o d)
      BY <2>5
    <3>3. QED
      BY <3>1, <3>2 DEF z
  <2>7. Like(l, k)
    BY <2>1, <2>2, <2>4, <2>6 DEF Like, Follows, c, d
  <2>8. QED
    BY <2>7 DEF j, k, l, z
<1>3. ASSUME NEW i, FirstAt(thinking, q, i)
      PROVE  Like(Split(thinking, w), Joined(thinking, x, Split(thinking, q)))
  <2>1. /\ i \in 1 .. Len(q) - 2
        /\ SubSeq(q, 1, i - 1) \in Seq(S) /\ From(q, i + 3) \in Seq(S)
    BY <1>3, AroundTag
  <2>2. FirstAt(thinking, w, Len(x) + i)
    <3>1. TagAt(w, TagOf(thinking), Len(x) + i)
      BY <1>3, TagGlued DEF FirstAt
    <3>2. ASSUME NEW j, TagAt(w, TagOf(thinking), j)
          PROVE  Len(x) + i <= j
      <4>1. j > Len(x)
        BY <3>2
      <4>2. TagAt(q, TagOf(thinking), j - Len(x))
        BY <3>2, <4>1, TagGlued
      <4>3. i <= j - Len(x)
        BY <1>3, <4>2 DEF FirstAt
      <4>4. j \in Int
        BY <3>2 DEF TagAt
      <4>5. QED
        BY <1>1, <2>1, <4>3, <4>4
    <3> HIDE DEF w
    <3>3. QED
      BY <3>1, <3>2 DEF FirstAt
  <2>3. i \in 1 .. Len(q) + 1 /\ i + 3 \in 1 .. Len(q) + 1 /\ Len(x) + i + 3 = Len(x) + (i + 3)
    BY <1>1, <2>1
  <2> DEFINE r == Split(~thinking, From(q, i + 3))
             y == SubSeq(q, 1, i - 1)
  <2>4. /\ SubSeq(w, 1, Len(x) + i - 1) = x \o y
        /\ From(w, Len(x) + i + 3) = From(q, i + 3)
    BY <2>3, GluedTail
  <2>5. r \in SplitResult(S)
    BY <2>1, SplitType
  <2>6. Split(thinking, q) = Joined(thinking, y, r)
    BY <1>3, SplitAtTag
  <2>7. Split(thinking, w) = Joined(thinking, x \o y, r)
    <3> DEFINE n == Len(x) + i
               z == x \o y
    <3>1. SubSeq(w, 1, Len(x) + i - 1) = z
      BY <2>4
    <3> HIDE DEF w, y, z
    <3>2. FirstAt(thinking, w, n) /\ SubSeq(w, 1, n - 1) = z /\ From(w, n + 3) = From(q, i + 3)
      <4>1. FirstAt(thinking, w, n)
        BY <2>2
      <4>2. SubSeq(w, 1, n - 1) = z
        <5>1. n - 1 = Len(x) + i - 1
          BY <1>1, <2>1
        <5> HIDE DEF n
        <5>2. QED
          BY <3>1, <5>1
      <4>3. From(w, n + 3) = From(q, i + 3)
        BY <2>4, Zenon
      <4>4. QED
        BY <4>1, <4>2, <4>3
    <3> HIDE DEF n
    <3>3. Split(thinking, w)
            = Joined(thinking, SubSeq(w, 1, n - 1), Split(~thinking, From(w, n + 3)))
      BY <1>1, <3>2, SplitAtTag
    <3>4. Split(thinking, w) = Joined(thinking, z, r)
      BY <3>2, <3>3
    <3>5. QED
      BY <3>4 DEF z
  <2> HIDE DEF w, r, y
  <2>8. y \in Seq(S)
    BY <2>1 DEF y
  <2>9. QED
    BY <1>2, <2>5, <2>6, <2>7, <2>8
<1>4. ASSUME NEW k, NoTag(thinking, q, k)
      PROVE  Like(Split(thinking, w), Joined(thinking, x, Split(thinking, q)))
  <2>1. /\ k \in 0 .. 2 /\ k <= Len(q)
        /\ SubSeq(q, 1, Len(q) - k) \in Seq(S) /\ From(q, Len(q) - k + 1) \in Seq(S)
    BY <1>4, AroundHeld
  <2>2. NoTag(thinking, w, k)
    <3>1. ASSUME NEW j, TagAt(w, TagOf(thinking), j)
          PROVE  FALSE
      <4>1. j > Len(x)
        BY <3>1
      <4>2. TagAt(q, TagOf(thinking), j - Len(x))
        BY <3>1, <4>1, TagGlued
      <4>3. QED
        BY <1>4, <4>2 DEF NoTag
    <3>2. TagEnds(w, TagOf(thinking), k)
      BY <1>4, <2>1, EndsGlued DEF NoTag
    <3>3. \A n : TagEnds(w, TagOf(thinking), n) => n <= k
      BY <1>4, EndsGlued DEF NoTag
    <3> HIDE DEF w
    <3>4. QED
      BY <3>1, <3>2, <3>3 DEF NoTag
  <2>3. Len(q) - k + 1 \in 1 .. Len(q) + 1
        /\ Len(x) + (Len(q) - k + 1) = Len(w) - k + 1
        /\ Len(x) + (Len(q) - k + 1) - 1 = Len(w) - k
        /\ Len(q) - k + 1 - 1 = Len(q) - k
    BY <1>1, <2>1
  <2>4. /\ SubSeq(w, 1, Len(w) - k) = x \o SubSeq(q, 1, Len(q) - k)
        /\ From(w, Len(w) - k + 1) = From(q, Len(q) - k + 1)
    <3> DEFINE m == Len(q) - k + 1
    <3>1. m \in 1 .. Len(q) + 1
      BY <2>3
    <3> HIDE DEF m
    <3>2. /\ From(w, Len(x) + m) = From(q, m)
          /\ SubSeq(w, 1, Len(x) + m - 1) = x \o SubSeq(q, 1, m - 1)
      BY <3>1, GluedTail
    <3>3. m = Len(q) - k + 1 /\ Len(x) + m = Len(w) - k + 1 /\ Len(x) + m - 1 = Len(w) - k
          /\ m - 1 = Len(q) - k
      <4> HIDE DEF w
      <4>1. QED
        BY <1>1, <2>1 DEF m
    <3> HIDE DEF w
    <3>4. QED
      BY <3>2, <3>3
  <2> DEFINE r == Ended(thinking, From(q, Len(q) - k + 1))
             y == SubSeq(q, 1, Len(q) - k)
  <2>5. r \in SplitResult(S)
    BY <2>1, EndedIs
  <2>6. Split(thinking, q) = Joined(thinking, y, r)
    BY <1>4, SplitNoTag
  <2>7. Split(thinking, w) = Joined(thinking, x \o y, r)
    <3> HIDE DEF w
    <3>1. QED
      BY <1>1, <2>2, <2>4, SplitNoTag
  <2> HIDE DEF w, r, y
  <2>8. y \in Seq(S)
    BY <2>1 DEF y
  <2>9. QED
    BY <1>2, <2>5, <2>6, <2>7, <2>8
<1>5. QED
  BY <1>3, <1>4, TagOrNone

\* w is what s gave and, after it, r.
Continued(w, s, r) ==
    /\ w.inside = r.inside /\ w.pending = r.pending
    /\ w.content = s.content \o r.content
    /\ w.reasoning = s.reasoning \o r.reasoning

Continues(thinking, a, b) ==
    LET s == Split(thinking, a)
    IN  Continued(Split(thinking, a \o b), s, Split(s.inside, s.pending \o b))

LEMMA JoinedContinued ==
    ASSUME NEW S, NEW thinking \in BOOLEAN, NEW x \in Seq(S), NEW s \in SplitResult(S),
           NEW w \in SplitResult(S), NEW r \in SplitResult(S), Continued(w, s, r)
    PROVE  Continued(Joined(thinking, x, w), Joined(thinking, x, s), r)
<1> DEFINE u == Joined(thinking, x, w)
           v == Joined(thinking, x, s)
           a == s.content
           b == r.content
           c == s.reasoning
           d == r.reasoning
<1>1. Follows(u, thinking, x, w) /\ Follows(v, thinking, x, s)
  BY JoinedIs
<1>2. a \in Seq(S) /\ b \in Seq(S) /\ c \in Seq(S) /\ d \in Seq(S)
  BY DEF SplitResult
<1>3. (x \o a) \o b = x \o (a \o b) /\ (x \o c) \o d = x \o (c \o d)
  <2> HIDE DEF a, b, c, d, u, v
  <2>1. (x \o a) \o b = x \o (a \o b)
    BY <1>2
  <2>2. (x \o c) \o d = x \o (c \o d)
    BY <1>2
  <2>3. QED
    BY <2>1, <2>2
<1> HIDE DEF u, v
<1>4. Continued(u, v, r)
  <2>1. CASE thinking
    BY <1>1, <1>3, <2>1 DEF Continued, Follows
  <2>2. CASE ~thinking
    BY <1>1, <1>3, <2>2 DEF Continued, Follows
  <2>3. QED
    BY <2>1, <2>2
<1>5. QED
  BY <1>4 DEF u, v

\* The first tag of a piece is the first tag of the whole.
LEMMA ContinuesAfterTag ==
    ASSUME NEW S, NEW a \in Seq(S), NEW b \in Seq(S), NEW thinking \in BOOLEAN,
           NEW i, FirstAt(thinking, a, i), Continues(~thinking, From(a, i + 3), b)
    PROVE  Continues(thinking, a, b)
<1> DEFINE w == a \o b
           x == SubSeq(a, 1, i - 1)
           rest == From(a, i + 3)
<1>1. Len(a) \in Nat /\ w \in Seq(S) /\ i \in 1 .. Len(a) - 2 /\ x \in Seq(S) /\ rest \in Seq(S)
  BY AroundTag, Glued
<1>2. FirstAt(thinking, w, i)
  <2>1. TagAt(w, TagOf(thinking), i)
    BY TagGlued DEF FirstAt
  <2>2. ASSUME NEW j, TagAt(w, TagOf(thinking), j)
        PROVE  i <= j
    <3>1. j \in Int
      BY <2>2 DEF TagAt
    <3>2. CASE j <= Len(a) - 2
      <4>1. TagAt(a, TagOf(thinking), j)
        BY <2>2, <3>2, TagGlued
      <4>2. QED
        BY <4>1 DEF FirstAt
    <3>3. CASE ~(j <= Len(a) - 2)
      BY <1>1, <3>1, <3>3
    <3>4. QED
      BY <3>2, <3>3
  <2> HIDE DEF w
  <2>3. QED
    BY <2>1, <2>2 DEF FirstAt
<1>3. SubSeq(w, 1, i - 1) = x /\ From(w, i + 3) = rest \o b
  <2>1. i \in 1 .. Len(a) + 1 /\ i + 3 \in 1 .. Len(a) + 1
    BY <1>1
  <2>2. QED
    BY <2>1, GluedHead
<1> HIDE DEF w, x, rest
<1> DEFINE all == rest \o b
           s1 == Split(~thinking, rest)
           s == Split(thinking, a)
           w1 == Split(~thinking, all)
           r == Split(s1.inside, s1.pending \o b)
           u == Split(thinking, w)
<1>4. all \in Seq(S)
  BY <1>1
<1>5. Continued(w1, s1, r)
  BY Zenon DEF Continues, rest
<1>6. s = Joined(thinking, x, s1)
  <2>1. s = Joined(thinking, SubSeq(a, 1, i - 1), Split(~thinking, From(a, i + 3)))
    <3> HIDE DEF s
    <3>1. QED
      BY SplitAtTag DEF s
  <2>2. QED
    BY <2>1 DEF x, rest
<1> HIDE DEF all
<1>7. u = Joined(thinking, x, w1)
  <2>1. u = Joined(thinking, SubSeq(w, 1, i - 1), Split(~thinking, From(w, i + 3)))
    BY <1>1, <1>2, SplitAtTag
  <2>2. QED
    BY <1>3, <2>1 DEF all
<1>8. s1 \in SplitResult(S) /\ w1 \in SplitResult(S)
  <2>1. s1 \in SplitResult(S)
    BY <1>1, SplitType
  <2>2. w1 \in SplitResult(S)
    BY <1>4, SplitType
  <2>3. QED
    BY <2>1, <2>2
<1> HIDE DEF s1, w1
<1>9. s1.inside \in BOOLEAN /\ s1.pending \in Seq(S)
  BY <1>8 DEF SplitResult
<1>10. r \in SplitResult(S)
  <2> DEFINE p == s1.pending
             t == s1.inside
  <2>1. t \in BOOLEAN /\ p \in Seq(S)
    BY <1>9
  <2> HIDE DEF p, t
  <2>2. p \o b \in Seq(S)
    BY <2>1, Glued
  <2>3. Split(t, p \o b) \in SplitResult(S)
    BY <2>1, <2>2, SplitType
  <2>4. QED
    BY <2>3 DEF p, t
<1>11. s.inside = s1.inside /\ s.pending = s1.pending
  <2> HIDE DEF s
  <2>1. Follows(s, thinking, x, s1)
    BY <1>1, <1>6, <1>8, JoinedIs
  <2>2. QED
    BY <2>1 DEF Follows
<1>12. Continued(u, s, r)
  <2> HIDE DEF r, u, s
  <2>1. QED
    BY <1>1, <1>5, <1>6, <1>7, <1>8, <1>10, JoinedContinued
<1>13. Split(s.inside, s.pending \o b) = r
  <2> HIDE DEF s
  <2>1. QED
    BY <1>11
<1> HIDE DEF r
<1>14. QED
  BY <1>12, <1>13, Zenon DEF Continues, s, u, w

\* What may begin a tag waits for the next piece.
LEMMA ContinuesHeld ==
    ASSUME NEW S, NEW a \in Seq(S), NEW b \in Seq(S), NEW thinking \in BOOLEAN,
           NEW k, NoTag(thinking, a, k)
    PROVE  Continues(thinking, a, b)
<1> DEFINE p == From(a, Len(a) - k + 1)
           x == SubSeq(a, 1, Len(a) - k)
           q == p \o b
<1>1. /\ Len(a) \in Nat /\ Len(b) \in Nat /\ k \in 0 .. 2 /\ k <= Len(a)
      /\ x \in Seq(S) /\ Len(x) = Len(a) - k /\ p \in Seq(S) /\ Len(p) = k
  <2>1. Len(a) \in Nat /\ Len(b) \in Nat
    OBVIOUS
  <2>2. QED
    BY <2>1, AroundHeld
<1>2. a = x \o p
  <2>1. OfParts(a, x, p)
    BY AroundHeld
  <2>2. QED
    BY <2>1 DEF OfParts
<1> HIDE DEF p, x
<1>3. q \in Seq(S) /\ Len(q) = k + Len(b) /\ a \o b = x \o q
  <2>1. a \o b = x \o (p \o b)
    BY <1>1, <1>2, GluedThree
  <2>2. QED
    BY <1>1, <2>1, Glued
<1> DEFINE w == a \o b
<1>4. /\ w \in Seq(S) /\ Len(w) = Len(a) + Len(b)
      /\ \A i \in 1 .. Len(a) : w[i] = a[i]
  BY Glued
<1>5. \A n : TagEnds(a, TagOf(thinking), n) => n <= k
  BY DEF NoTag
<1>6. ASSUME NEW j, TagAt(w, TagOf(thinking), j)
      PROVE  j > Len(x)
  <2>1. j \in Int /\ j >= 1
    BY <1>4, <1>6 DEF TagAt
  <2>2. ~(j <= Len(a) - 2)
    BY <1>6, TagGlued DEF NoTag
  <2>3. CASE j = Len(a) - 1
    <3> HIDE DEF w
    <3>1. TagEnds(a, TagOf(thinking), 2)
      <4>1. j \in 1 .. Len(a) /\ j + 1 \in 1 .. Len(a) /\ Len(a) = j + 1 /\ 2 \in 0 .. 2 /\ 2 <= Len(a)
        BY <1>1, <2>1, <2>3
      <4>2. a[j] = TagOf(thinking)[1] /\ a[j + 1] = TagOf(thinking)[2]
        BY <1>4, <1>6, <4>1 DEF TagAt
      <4>3. QED
        BY <2>3, <4>1, <4>2 DEF TagEnds
    <3>2. QED
      BY <1>1, <1>5, <2>3, <3>1
  <2>4. CASE j = Len(a)
    <3> HIDE DEF w
    <3>1. TagEnds(a, TagOf(thinking), 1)
      <4>1. j \in 1 .. Len(a) /\ 1 \in 0 .. 2 /\ 1 <= Len(a)
        BY <1>1, <2>1, <2>4
      <4>2. a[j] = TagOf(thinking)[1]
        BY <1>4, <1>6, <4>1 DEF TagAt
      <4>3. QED
        BY <2>4, <4>1, <4>2 DEF TagEnds
    <3>2. QED
      BY <1>1, <1>5, <2>4, <3>1
  <2>5. CASE j > Len(a)
    BY <1>1, <2>1, <2>5
  <2>6. QED
    BY <1>1, <2>1, <2>2, <2>3, <2>4, <2>5
<1>7. ASSUME NEW n, TagEnds(w, TagOf(thinking), n)
      PROVE  n <= Len(q)
  <2>1. n \in 0 .. 2
    BY <1>7 DEF TagEnds
  <2>2. CASE n <= Len(b)
    BY <1>1, <1>3, <2>1, <2>2
  <2>3. CASE Len(b) = 0
    <3>1. w = a
      BY <2>3
    <3>2. QED
      BY <1>1, <1>3, <1>5, <1>7, <2>3, <3>1
  <2>4. CASE Len(b) = 1 /\ n = 2
    <3> HIDE DEF w
    <3>1. Len(w) - 1 = Len(a) /\ (Len(a) # 0 => Len(a) \in 1 .. Len(a))
      BY <1>1, <1>4, <2>4
    <3>2. w[Len(a)] = TagOf(thinking)[1] /\ n <= Len(w)
      BY <1>7, <2>4, <3>1 DEF TagEnds
    <3>3. Len(a) # 0
      BY <1>1, <1>4, <2>4, <3>2
    <3>4. a[Len(a)] = TagOf(thinking)[1] /\ 1 <= Len(a)
      BY <1>1, <1>4, <3>1, <3>2, <3>3
    <3>5. TagEnds(a, TagOf(thinking), 1)
      BY <3>4 DEF TagEnds
    <3>6. QED
      BY <1>1, <1>3, <1>5, <2>4, <3>5
  <2>5. n <= Len(b) \/ Len(b) = 0 \/ (Len(b) = 1 /\ n = 2)
    <3>1. ASSUME NEW m \in Nat, NEW l \in 0 .. 2
          PROVE  l <= m \/ m = 0 \/ (m = 1 /\ l = 2)
      OBVIOUS
    <3>2. Len(b) \in Nat
      OBVIOUS
    <3>3. QED
      BY <2>1, <3>1, <3>2
  <2>6. QED
    BY <2>2, <2>3, <2>4, <2>5
<1> DEFINE r == Split(thinking, q)
           s == Split(thinking, a)
           u == Split(thinking, w)
           e == Ended(thinking, p)
<1>8. Like(u, Joined(thinking, x, r))
  <2> HIDE DEF q
  <2>1. QED
    BY <1>1, <1>3, <1>6, <1>7, ReadThrough
<1>9. r \in SplitResult(S)
  BY <1>3, SplitType
<1>10. s = Joined(thinking, x, e)
  BY SplitNoTag DEF x, p
<1>11. e \in SplitResult(S) /\ e.inside = thinking /\ e.pending = p
       /\ e.content = <<>> /\ e.reasoning = <<>>
  BY <1>1, EndedIs
<1> HIDE DEF r, e, w
<1> DEFINE l == Joined(thinking, x, r)
<1>12. Follows(l, thinking, x, r)
  BY <1>1, <1>9, JoinedIs
<1>13. /\ s.inside = thinking /\ s.pending = p
       /\ s.content = (IF thinking THEN <<>> ELSE x)
       /\ s.reasoning = (IF thinking THEN x ELSE <<>>)
  <2> HIDE DEF s
  <2>1. Follows(s, thinking, x, e)
    BY <1>1, <1>10, <1>11, JoinedIs
  <2>2. x \o <<>> = x
    BY <1>1
  <2>3. QED
    BY <1>11, <2>1, <2>2 DEF Follows
<1>14. r.content \in Seq(S) /\ r.reasoning \in Seq(S)
  BY <1>9 DEF SplitResult
<1>15. <<>> \o r.content = r.content /\ <<>> \o r.reasoning = r.reasoning
  BY <1>14
<1> HIDE DEF s, u, l, q
<1>16. Continued(u, s, r)
  <2>1. /\ u.inside = l.inside /\ u.pending = l.pending
        /\ u.content = l.content /\ u.reasoning = l.reasoning
    BY <1>8 DEF Like, l
  <2>2. CASE thinking
    BY <1>12, <1>13, <1>15, <2>1, <2>2 DEF Continued, Follows
  <2>3. CASE ~thinking
    BY <1>12, <1>13, <1>15, <2>1, <2>3 DEF Continued, Follows
  <2>4. QED
    BY <2>2, <2>3
<1>17. Split(s.inside, s.pending \o b) = r
  BY <1>13 DEF r, q
<1>18. QED
  BY <1>16, <1>17, Zenon DEF Continues, s, u, w

\* A text read in two pieces gives what it gives as one.
LEMMA SplitContinues ==
    ASSUME NEW S, NEW a \in Seq(S), NEW b \in Seq(S), NEW thinking \in BOOLEAN
    PROVE  Continues(thinking, a, b)
<1> DEFINE B == {c \in Seq(S) : \E t \in BOOLEAN : ~Continues(t, c, b)}
<1>1. SUFFICES ASSUME B # {}
               PROVE  FALSE
  OBVIOUS
<1>2. PICK c \in B : \A d \in B : Len(c) <= Len(d)
  <2>1. B \subseteq Seq(S)
    OBVIOUS
  <2> HIDE DEF B
  <2>2. QED
    BY <1>1, <2>1, LeastText
<1>3. c \in Seq(S) /\ \A d \in Seq(S) : Len(d) < Len(c) =>
          \A t \in BOOLEAN : Continues(t, d, b)
  <2>1. \A d \in Seq(S) : Len(d) \in Nat
    OBVIOUS
  <2>2. QED
    BY <1>2, <2>1
<1>4. PICK t \in BOOLEAN : ~Continues(t, c, b)
  BY <1>2
<1> HIDE DEF B
<1>5. ASSUME NEW i, FirstAt(t, c, i)
      PROVE  Continues(t, c, b)
  <2>1. From(c, i + 3) \in Seq(S) /\ Len(From(c, i + 3)) < Len(c)
    BY <1>3, <1>5, AroundTag
  <2>2. Continues(~t, From(c, i + 3), b)
    BY <1>3, <2>1
  <2>3. QED
    BY <1>3, <1>5, <2>2, ContinuesAfterTag
<1>6. ASSUME NEW k, NoTag(t, c, k)
      PROVE  Continues(t, c, b)
  BY <1>3, <1>6, ContinuesHeld
<1>7. QED
  BY <1>3, <1>4, <1>5, <1>6, TagOrNone

-----------------------------------------------------------------------------
(* strip_think, one pair of tags at a time.                                  *)

AfterOpen(left) == After(left, Min(Places(left, OpenTag)), OpenTag)
AfterClose(left) ==
    After(AfterOpen(left), Min(Places(AfterOpen(left), CloseTag)), CloseTag)

Paired(left) == Places(left, OpenTag) # {} /\ Places(AfterOpen(left), CloseTag) # {}

\* What stripping left gives, if stripping what follows its first pair gives r.
StripOne(left, r) ==
    LET opens  == Places(left, OpenTag)
        after  == After(left, Min(opens), OpenTag)
        closes == Places(after, CloseTag)
        rest   == IF closes = {} THEN [content |-> <<>>, reasoning |-> <<>>] ELSE r
        inner  == IF closes = {} THEN after ELSE Before(after, Min(closes))
    IN  IF opens = {} THEN [content |-> left, reasoning |-> <<>>]
        ELSE [content |-> Before(left, Min(opens)) \o rest.content,
              reasoning |-> inner \o rest.reasoning]

NextPair(text, from) == Len(text) - Len(AfterClose(From(text, from))) + 1

Strips(text, m, f) ==
    f = [from \in m .. Len(text) + 1 |-> StripOne(From(text, from), f[NextPair(text, from)])]

LEMMA StripIs ==
    ASSUME NEW text
    PROVE  strip_think(text) = (CHOOSE f : Strips(text, 1, f))[1]
  BY Zenon DEF strip_think, Strips, StripOne, NextPair, AfterClose, AfterOpen, From

LEMMA StripSame ==
    ASSUME NEW left, NEW r, NEW q, Paired(left) => r = q
    PROVE  StripOne(left, r) = StripOne(left, q)
<1>1. CASE Places(left, OpenTag) = {}
  BY <1>1, Zenon DEF StripOne
<1>2. CASE Places(AfterOpen(left), CloseTag) = {}
  BY <1>2, Zenon DEF StripOne, AfterOpen
<1>3. QED
  BY <1>1, <1>2 DEF Paired

\* The two tags of a first pair, and what follows them.
LEMMA PairAt ==
    ASSUME NEW S, NEW left \in Seq(S), Places(left, OpenTag) # {}
    PROVE  LET i == Min(Places(left, OpenTag))
               j == Min(Places(AfterOpen(left), CloseTag))
           IN  /\ FirstAt(FALSE, left, i) /\ AfterOpen(left) = From(left, i + 3)
               /\ Places(AfterOpen(left), CloseTag) # {} =>
                      /\ FirstAt(TRUE, AfterOpen(left), j)
                      /\ AfterClose(left) = From(AfterOpen(left), j + 3)
<1> DEFINE i == Min(Places(left, OpenTag))
           j == Min(Places(AfterOpen(left), CloseTag))
           after == AfterOpen(left)
<1>1. OpenTag = TagOf(FALSE) /\ CloseTag = TagOf(TRUE) /\ Len(OpenTag) = 3 /\ Len(CloseTag) = 3
  BY Tags DEF TagOf
<1>2. FirstAt(FALSE, left, i)
  BY <1>1, FirstPlace DEF FirstAt
<1>3. after = From(left, i + 3)
  BY <1>1 DEF AfterOpen, After, From
<1>4. after \in Seq(S)
  <2> HIDE DEF i, after
  <2>1. QED
    BY <1>2, <1>3, AroundTag
<1>5. AfterClose(left) = From(after, j + 3)
  BY <1>1, Zenon DEF AfterClose, After, From
<1>6. Places(after, CloseTag) # {} => FirstAt(TRUE, after, j)
  <2> HIDE DEF after
  <2>1. Places(after, TagOf(TRUE)) # {} =>
            FirstAt(TRUE, after, Min(Places(after, TagOf(TRUE))))
    BY <1>4, FirstPlace DEF FirstAt
  <2>2. QED
    BY <1>1, <2>1, Zenon DEF after
<1>7. QED
  BY <1>2, <1>3, <1>5, <1>6

LEMMA BeyondPair ==
    ASSUME NEW S, NEW text \in Seq(S), NEW n \in 1 .. Len(text) + 1, Paired(From(text, n))
    PROVE  /\ NextPair(text, n) \in n + 1 .. Len(text) + 1
           /\ From(text, NextPair(text, n)) = AfterClose(From(text, n))
<1> DEFINE left == From(text, n)
           i == Min(Places(left, OpenTag))
           after == AfterOpen(left)
           j == Min(Places(after, CloseTag))
           rest == AfterClose(left)
           next == NextPair(text, n)
<1>1. Len(text) \in Nat /\ Len(text) \in n - 1 .. Len(text)
  OBVIOUS
<1>2. left \in Seq(S) /\ Len(left) = Len(text) - n + 1
  BY <1>1, Sub DEF From
<1> HIDE DEF left
<1>3. /\ FirstAt(FALSE, left, i) /\ after = From(left, i + 3)
      /\ FirstAt(TRUE, after, j) /\ rest = From(after, j + 3)
  BY <1>2, PairAt DEF Paired, left
<1>4. next = Len(text) - Len(rest) + 1
  BY DEF NextPair, left
<1> HIDE DEF i, after, j, rest, next
<1>5. i \in 1 .. Len(left) - 2 /\ after \in Seq(S) /\ Len(after) = Len(left) - i - 2
  BY <1>2, <1>3, AroundTag
<1>6. j \in 1 .. Len(after) - 2 /\ rest \in Seq(S) /\ Len(rest) = Len(after) - j - 2
  BY <1>3, <1>5, AroundTag
<1>7. next = n + i + j + 4 /\ next \in n + 1 .. Len(text) + 1
  BY <1>1, <1>2, <1>4, <1>5, <1>6
<1>8. after = From(text, n + (i + 3) - 1)
  <2> DEFINE k == i + 3
  <2>1. k \in 1 .. Len(text) - n + 2
    BY <1>1, <1>2, <1>5
  <2> HIDE DEF k
  <2>2. From(left, k) = From(text, n + k - 1)
    BY <2>1, RestOfRest DEF From, left
  <2>3. QED
    BY <1>3, <2>2 DEF k
<1>9. rest = From(text, (n + (i + 3) - 1) + (j + 3) - 1)
  <2> DEFINE m == n + (i + 3) - 1
             k == j + 3
  <2>1. m \in 1 .. Len(text) + 1 /\ k \in 1 .. Len(text) - m + 2
    BY <1>1, <1>2, <1>5, <1>6
  <2> HIDE DEF m, k
  <2>2. From(From(text, m), k) = From(text, m + k - 1)
    BY <2>1, RestOfRest DEF From
  <2>3. QED
    BY <1>3, <1>8, <2>2 DEF m, k
<1>10. (n + (i + 3) - 1) + (j + 3) - 1 = next
  BY <1>1, <1>5, <1>6, <1>7
<1>11. QED
  BY <1>7, <1>9, <1>10 DEF next, rest, left

LEMMA StripsExtend ==
    ASSUME NEW S, NEW text \in Seq(S), NEW m \in 1 .. Len(text) + 1, NEW f, Strips(text, m + 1, f)
    PROVE  \E g : Strips(text, m, g)
<1> DEFINE Row(h, n) == StripOne(From(text, n), h[NextPair(text, n)])
           g == [n \in m .. Len(text) + 1 |-> IF n = m THEN Row(f, m) ELSE f[n]]
<1>1. \A h, k : Strips(text, k, h) <=> h = [n \in k .. Len(text) + 1 |-> Row(h, n)]
  BY Zenon DEF Strips
<1>2. Len(text) \in Nat
  OBVIOUS
<1>3. ASSUME NEW n \in m .. Len(text) + 1
      PROVE  Row(f, n) = Row(g, n)
  <2> DEFINE next == NextPair(text, n)
  <2>1. Paired(From(text, n)) => f[next] = g[next]
    <3>1. Paired(From(text, n)) => next \in n + 1 .. Len(text) + 1
      BY <1>2, BeyondPair
    <3> HIDE DEF next, Row
    <3>2. Paired(From(text, n)) => next \in m .. Len(text) + 1 /\ next # m
      BY <1>2, <3>1
    <3>3. QED
      BY <3>2
  <2> HIDE DEF next, g
  <2>2. StripOne(From(text, n), f[next]) = StripOne(From(text, n), g[next])
    BY <2>1, StripSame
  <2>3. QED
    BY <2>2 DEF next
<1>4. ASSUME NEW n \in m .. Len(text) + 1
      PROVE  g[n] = Row(f, n)
  <2>1. CASE n = m
    <3> HIDE DEF Row
    <3>1. QED
      BY <2>1
  <2>2. CASE n # m
    <3>1. n \in m + 1 .. Len(text) + 1
      BY <1>2, <2>2
    <3>2. f = [k \in m + 1 .. Len(text) + 1 |-> Row(f, k)]
      <4> HIDE DEF Row
      <4>1. QED
        BY <1>1
    <3> HIDE DEF Row
    <3>3. f[n] = Row(f, n)
      BY <3>1, <3>2
    <3>4. QED
      BY <2>2, <3>3
  <2>3. QED
    BY <2>1, <2>2
<1> DEFINE h == [n \in m .. Len(text) + 1 |-> Row(g, n)]
<1>5. g = h
  <2> HIDE DEF Row
  <2>1. DOMAIN g = m .. Len(text) + 1 /\ DOMAIN h = m .. Len(text) + 1
    OBVIOUS
  <2>2. \A n \in m .. Len(text) + 1 : g[n] = h[n]
    <3>1. \A n \in m .. Len(text) + 1 : h[n] = Row(g, n)
      OBVIOUS
    <3> HIDE DEF g, h
    <3>2. QED
      BY <1>3, <1>4, <3>1
  <2>3. g = [n \in DOMAIN g |-> g[n]] /\ h = [n \in DOMAIN h |-> h[n]]
    OBVIOUS
  <2> HIDE DEF g, h
  <2>4. QED
    BY <2>1, <2>2, <2>3
<1>6. Strips(text, m, g)
  <2> HIDE DEF Row, g
  <2>1. QED
    BY <1>1, <1>5 DEF h
<1> HIDE DEF g
<1>7. QED
  BY <1>6

LEMMA StripsExist ==
    ASSUME NEW S, NEW text \in Seq(S)
    PROVE  \E f : Strips(text, 1, f)
<1>1. Len(text) \in Nat
  OBVIOUS
<1> DEFINE Good(n) == \E f : Strips(text, Len(text) + 2 - n, f)
           Bad == {n \in 0 .. Len(text) + 1 : ~Good(n)}
<1>2. SUFFICES ASSUME Bad # {}
               PROVE  FALSE
  <2>1. Bad = {} => Good(Len(text) + 1)
    <3> HIDE DEF Good
    <3>1. QED
      BY <1>1
  <2>2. Len(text) + 2 - (Len(text) + 1) = 1
    BY <1>1
  <2>3. QED
    BY <1>2, <2>1, <2>2
<1>3. Min(Bad) \in Bad /\ \A k \in Bad : Min(Bad) <= k
  <2> HIDE DEF Good
  <2>1. Bad \subseteq Nat
    BY <1>1
  <2> HIDE DEF Bad
  <2>2. QED
    BY <1>2, <2>1, LeastOf
<1> DEFINE n == Min(Bad)
<1>4. n \in 0 .. Len(text) + 1 /\ ~Good(n) /\ \A k \in 0 .. Len(text) + 1 : k < n => Good(k)
  <2> HIDE DEF Good
  <2>1. n \in 0 .. Len(text) + 1 /\ ~Good(n)
    BY <1>3
  <2>2. \A k \in 0 .. Len(text) + 1 : k \in Bad => n <= k
    BY <1>3
  <2> HIDE DEF n
  <2>3. \A k \in 0 .. Len(text) + 1 : k < n => k \notin Bad
    BY <1>1, <2>1, <2>2
  <2>4. QED
    BY <2>1, <2>3
<1> HIDE DEF n
<1>5. CASE n = 0
  <2>1. Len(text) + 2 .. Len(text) + 1 = {}
    BY <1>1
  <2> DEFINE Row(h, k) == StripOne(From(text, k), h[NextPair(text, k)])
             none == [k \in Len(text) + 2 .. Len(text) + 1 |-> 0]
             h == [k \in Len(text) + 2 .. Len(text) + 1 |-> Row(none, k)]
  <2>2. Strips(text, Len(text) + 2, none) <=> none = h
    BY Zenon DEF Strips
  <2> HIDE DEF Row
  <2>3. none = h
    <3>1. DOMAIN none = {} /\ DOMAIN h = {}
      BY <2>1
    <3>2. none = [k \in DOMAIN none |-> none[k]] /\ h = [k \in DOMAIN h |-> h[k]]
      OBVIOUS
    <3> HIDE DEF none, h
    <3>3. QED
      BY <3>1, <3>2
  <2>4. Strips(text, Len(text) + 2, none)
    BY <2>2, <2>3
  <2> HIDE DEF none
  <2>5. Len(text) + 2 - 0 = Len(text) + 2
    BY <1>1
  <2>6. QED
    BY <1>4, <1>5, <2>4, <2>5
<1>6. CASE n # 0
  <2> DEFINE m == Len(text) + 2 - n
  <2>1. n - 1 \in 0 .. Len(text) + 1 /\ n - 1 < n /\ m \in 1 .. Len(text) + 1
        /\ Len(text) + 2 - (n - 1) = m + 1
    BY <1>1, <1>4, <1>6
  <2>2. Good(n - 1)
    <3> HIDE DEF Good
    <3>1. QED
      BY <1>4, <2>1
  <2>3. PICK f : Strips(text, m + 1, f)
    BY <2>1, <2>2
  <2>4. \E g : Strips(text, m, g)
    BY <2>1, <2>3, StripsExtend
  <2>5. QED
    BY <1>4, <2>4
<1>7. QED
  BY <1>5, <1>6

StripAt(text, from) == (CHOOSE f : Strips(text, 1, f))[from]

LEMMA StripAtStep ==
    ASSUME NEW S, NEW text \in Seq(S), NEW from \in 1 .. Len(text) + 1
    PROVE  StripAt(text, from)
             = StripOne(From(text, from), StripAt(text, NextPair(text, from)))
<1> DEFINE f == CHOOSE f : Strips(text, 1, f)
           Row(h, n) == StripOne(From(text, n), h[NextPair(text, n)])
<1>1. Strips(text, 1, f)
  BY StripsExist
<1>2. \A k : StripAt(text, k) = f[k]
  BY Zenon DEF StripAt
<1> HIDE DEF f
<1>3. f = [n \in 1 .. Len(text) + 1 |-> Row(f, n)]
  BY <1>1, Zenon DEF Strips
<1>4. f[from] = Row(f, from)
  <2> HIDE DEF Row
  <2>1. QED
    BY <1>3
<1>5. QED
  BY <1>2, <1>4

\* The filter has what stripping gives, but for what it holds back.
Agrees(whole, s) ==
    IF s.inside
    THEN /\ whole.content = s.content
         /\ whole.reasoning = s.reasoning \o s.pending
    ELSE /\ whole.content = s.content \o s.pending
         /\ whole.reasoning = s.reasoning

LEMMA AgreesNoTag ==
    ASSUME NEW S, NEW left \in Seq(S), NEW r, NEW k, NoTag(FALSE, left, k)
    PROVE  Agrees(StripOne(left, r), Split(FALSE, left))
<1> DEFINE x == SubSeq(left, 1, Len(left) - k)
           p == From(left, Len(left) - k + 1)
           e == Ended(FALSE, p)
           s == Joined(FALSE, x, e)
<1>1. k \in 0 .. 2 /\ k <= Len(left) /\ x \in Seq(S) /\ p \in Seq(S)
  BY AroundHeld
<1>2. left = x \o p
  <2>1. OfParts(left, x, p)
    BY AroundHeld
  <2>2. QED
    BY <2>1 DEF OfParts
<1>3. Split(FALSE, left) = s
  BY SplitNoTag
<1> HIDE DEF x, p
<1>4. e \in SplitResult(S) /\ e.inside = FALSE /\ e.pending = p
      /\ e.content = <<>> /\ e.reasoning = <<>>
  BY <1>1, EndedIs
<1> HIDE DEF e
<1>5. s.inside = FALSE /\ s.pending = p /\ s.content = x /\ s.reasoning = <<>>
  <2>1. Follows(s, FALSE, x, e)
    BY <1>1, <1>4, JoinedIs
  <2>2. x \o <<>> = x
    BY <1>1
  <2> HIDE DEF s
  <2>3. QED
    BY <1>4, <2>1, <2>2 DEF Follows
<1>6. StripOne(left, r) = [content |-> left, reasoning |-> <<>>]
  <2>1. Places(left, OpenTag) = {}
    BY Tags, PlacesAt DEF NoTag, TagOf
  <2>2. QED
    BY <2>1, Zenon DEF StripOne
<1> HIDE DEF s
<1> DEFINE w == StripOne(left, r)
<1>7. w.content = left /\ w.reasoning = <<>>
  BY <1>6
<1> HIDE DEF w
<1>8. Agrees(w, s)
  BY <1>2, <1>5, <1>7 DEF Agrees
<1>9. QED
  BY <1>3, <1>8 DEF w

LEMMA AgreesOpen ==
    ASSUME NEW S, NEW left \in Seq(S), NEW r, Places(left, OpenTag) # {},
           Places(AfterOpen(left), CloseTag) = {}
    PROVE  Agrees(StripOne(left, r), Split(FALSE, left))
<1> DEFINE i == Min(Places(left, OpenTag))
           x == SubSeq(left, 1, i - 1)
           after == AfterOpen(left)
<1>1. FirstAt(FALSE, left, i) /\ after = From(left, i + 3)
  BY PairAt
<1>2. x \in Seq(S) /\ after \in Seq(S)
  <2> HIDE DEF i, after
  <2>1. QED
    BY <1>1, AroundTag
<1>3. PICK k : NoTag(TRUE, after, k)
  <2>1. \A j : ~TagAt(after, TagOf(TRUE), j)
    BY <1>2, Tags, PlacesAt DEF TagOf
  <2> HIDE DEF after
  <2>2. QED
    BY <1>2, <2>1, TagOrNone DEF FirstAt
<1>4. StripOne(left, r) = [content |-> x \o <<>>, reasoning |-> after \o <<>>]
  <2> DEFINE none == [content |-> <<>>, reasoning |-> <<>>]
  <2>1. StripOne(left, r) = [content |-> x \o none.content, reasoning |-> after \o none.reasoning]
    BY Zenon DEF StripOne, AfterOpen, Before
  <2>2. none.content = <<>> /\ none.reasoning = <<>>
    OBVIOUS
  <2> HIDE DEF none, x, after
  <2>3. QED
    BY <2>1, <2>2
<1>5. Split(FALSE, left) = Joined(FALSE, x, Split(TRUE, after))
  <2>1. Split(FALSE, left) = Joined(FALSE, x, Split(~FALSE, after))
    <3> HIDE DEF i, after
    <3>1. QED
      BY <1>1, SplitAtTag
  <2>2. QED
    BY <2>1
<1> DEFINE y == SubSeq(after, 1, Len(after) - k)
           p == From(after, Len(after) - k + 1)
           e == Ended(TRUE, p)
           t == Joined(TRUE, y, e)
           s == Joined(FALSE, x, t)
<1> HIDE DEF x, after
<1>6. y \in Seq(S) /\ p \in Seq(S)
  BY <1>2, <1>3, AroundHeld
<1>7. after = y \o p
  <2>1. OfParts(after, y, p)
    BY <1>2, <1>3, AroundHeld
  <2>2. QED
    BY <2>1 DEF OfParts
<1>8. Split(TRUE, after) = t
  BY <1>2, <1>3, SplitNoTag
<1> HIDE DEF y, p
<1>9. e \in SplitResult(S) /\ e.inside = TRUE /\ e.pending = p
      /\ e.content = <<>> /\ e.reasoning = <<>>
  BY <1>6, EndedIs
<1> HIDE DEF e
<1>10. t \in SplitResult(S) /\ t.inside = TRUE /\ t.pending = p /\ t.content = <<>> /\ t.reasoning = y
  <2>1. t \in SplitResult(S) /\ Follows(t, TRUE, y, e)
    BY <1>6, <1>9, JoinedIs
  <2>2. y \o <<>> = y
    BY <1>6
  <2> HIDE DEF t
  <2>3. QED
    BY <1>9, <2>1, <2>2 DEF Follows
<1> HIDE DEF t
<1>11. s.inside = TRUE /\ s.pending = p /\ s.content = x /\ s.reasoning = y
  <2>1. Follows(s, FALSE, x, t)
    BY <1>2, <1>10, JoinedIs
  <2>2. x \o <<>> = x
    BY <1>2
  <2> HIDE DEF s
  <2>3. QED
    BY <1>10, <2>1, <2>2 DEF Follows
<1>12. StripOne(left, r) = [content |-> x, reasoning |-> after]
  BY <1>2, <1>4
<1>13. Split(FALSE, left) = s
  BY <1>5, <1>8
<1> HIDE DEF s
<1> DEFINE w == StripOne(left, r)
<1>14. w.content = x /\ w.reasoning = after
  BY <1>12
<1> HIDE DEF w
<1>15. Agrees(w, s)
  BY <1>7, <1>11, <1>14 DEF Agrees
<1>16. QED
  BY <1>13, <1>15 DEF w

LEMMA AgreesPaired ==
    ASSUME NEW S, NEW left \in Seq(S), NEW r, Paired(left),
           Agrees(r, Split(FALSE, AfterClose(left)))
    PROVE  Agrees(StripOne(left, r), Split(FALSE, left))
<1> DEFINE i == Min(Places(left, OpenTag))
           x == SubSeq(left, 1, i - 1)
           after == AfterOpen(left)
           j == Min(Places(after, CloseTag))
           y == SubSeq(after, 1, j - 1)
           rest == AfterClose(left)
<1>1. /\ FirstAt(FALSE, left, i) /\ after = From(left, i + 3)
      /\ FirstAt(TRUE, after, j) /\ rest = From(after, j + 3)
  BY PairAt DEF Paired
<1>2. StripOne(left, r) = [content |-> x \o r.content, reasoning |-> y \o r.reasoning]
  BY Zenon DEF StripOne, AfterOpen, Before, Paired
<1> HIDE DEF i, after, j, rest
<1>3. x \in Seq(S) /\ after \in Seq(S)
  BY <1>1, AroundTag
<1>4. y \in Seq(S) /\ rest \in Seq(S)
  BY <1>1, <1>3, AroundTag
<1>5. Split(FALSE, left) = Joined(FALSE, x, Split(TRUE, after))
  <2>1. Split(FALSE, left) = Joined(FALSE, x, Split(~FALSE, after))
    BY <1>1, SplitAtTag
  <2>2. QED
    BY <2>1
<1>6. Split(TRUE, after) = Joined(TRUE, y, Split(FALSE, rest))
  <2>1. Split(TRUE, after) = Joined(TRUE, y, Split(~TRUE, rest))
    BY <1>1, <1>3, SplitAtTag
  <2>2. QED
    BY <2>1
<1> DEFINE q == Split(FALSE, rest)
           t == Joined(TRUE, y, q)
           s == Joined(FALSE, x, t)
<1> HIDE DEF x, y
<1>7. q \in SplitResult(S) /\ Agrees(r, q)
  BY <1>4, SplitType DEF rest
<1>8. Split(FALSE, left) = s
  BY <1>5, <1>6
<1> HIDE DEF q
<1>9. t \in SplitResult(S) /\ Follows(t, TRUE, y, q)
  BY <1>4, <1>7, JoinedIs
<1> HIDE DEF t
<1>10. Follows(s, FALSE, x, t)
  BY <1>3, <1>9, JoinedIs
<1> DEFINE p == q.pending
           c == q.content
           d == q.reasoning
<1>11. p \in Seq(S) /\ c \in Seq(S) /\ d \in Seq(S)
  BY <1>7 DEF SplitResult
<1>12. x \o (c \o p) = (x \o c) \o p /\ y \o (d \o p) = (y \o d) \o p
  <2> HIDE DEF x, y, p, c, d, s
  <2>1. x \o (c \o p) = (x \o c) \o p
    BY <1>3, <1>11
  <2>2. y \o (d \o p) = (y \o d) \o p
    BY <1>4, <1>11
  <2>3. QED
    BY <2>1, <2>2
<1> HIDE DEF s
<1> DEFINE w == StripOne(left, r)
<1>13. w.content = x \o r.content /\ w.reasoning = y \o r.reasoning
  BY <1>2
<1> HIDE DEF w
<1>14. Agrees(w, s)
  <2>1. CASE q.inside
    BY <1>7, <1>9, <1>10, <1>12, <1>13, <2>1 DEF Agrees, Follows
  <2>2. CASE ~q.inside
    BY <1>7, <1>9, <1>10, <1>12, <1>13, <2>2 DEF Agrees, Follows
  <2>3. QED
    BY <2>1, <2>2
<1>15. QED
  BY <1>8, <1>14 DEF w

LEMMA StripAgrees ==
    ASSUME NEW S, NEW text \in Seq(S)
    PROVE  Agrees(strip_think(text), Split(FALSE, text))
<1> DEFINE Good(from) == Agrees(StripAt(text, from), Split(FALSE, From(text, from)))
           Bad == {n \in 1 .. Len(text) + 1 : ~Good(Len(text) + 2 - n)}
<1>1. Len(text) \in Nat
  OBVIOUS
<1>2. ASSUME NEW from \in 1 .. Len(text) + 1, \A k \in from + 1 .. Len(text) + 1 : Good(k)
      PROVE  Good(from)
  <2> DEFINE left == From(text, from)
             next == NextPair(text, from)
             r == StripAt(text, next)
  <2>1. left \in Seq(S)
    BY <1>1, Sub DEF From
  <2>2. StripAt(text, from) = StripOne(left, r)
    BY StripAtStep
  <2>3. Paired(left) => Agrees(r, Split(FALSE, AfterClose(left)))
    <3>1. Paired(left) => next \in from + 1 .. Len(text) + 1 /\ From(text, next) = AfterClose(left)
      BY BeyondPair
    <3> HIDE DEF left, next
    <3>2. Paired(left) => Good(next)
      <4> HIDE DEF Good
      <4>1. QED
        BY <1>2, <3>1
    <3>3. QED
      BY <3>1, <3>2
  <2> HIDE DEF left, r, next
  <2>4. CASE Paired(left)
    <3>1. Agrees(StripOne(left, r), Split(FALSE, left))
      BY <2>1, <2>3, <2>4, AgreesPaired
    <3>2. QED
      BY <2>2, <3>1 DEF left
  <2>5. CASE Places(left, OpenTag) # {} /\ Places(AfterOpen(left), CloseTag) = {}
    <3>1. Agrees(StripOne(left, r), Split(FALSE, left))
      BY <2>1, <2>5, AgreesOpen
    <3>2. QED
      BY <2>2, <3>1 DEF left
  <2>6. CASE Places(left, OpenTag) = {}
    <3>1. \A j : ~TagAt(left, TagOf(FALSE), j)
      BY <2>1, <2>6, Tags, PlacesAt DEF TagOf
    <3>2. PICK k : NoTag(FALSE, left, k)
      BY <2>1, <3>1, TagOrNone DEF FirstAt
    <3>3. Agrees(StripOne(left, r), Split(FALSE, left))
      BY <2>1, <3>2, AgreesNoTag
    <3>4. QED
      BY <2>2, <3>3 DEF left
  <2>7. QED
    BY <2>4, <2>5, <2>6 DEF Paired
<1>3. Bad = {}
  <2>1. SUFFICES ASSUME Bad # {}
                 PROVE  FALSE
    OBVIOUS
  <2> DEFINE n == Min(Bad)
             from == Len(text) + 2 - n
  <2>2. n \in Bad /\ \A k \in Bad : n <= k
    <3> HIDE DEF Good
    <3>1. Bad \subseteq Nat
      OBVIOUS
    <3> HIDE DEF Bad
    <3>2. QED
      BY <2>1, <3>1, LeastOf
  <2> HIDE DEF Good
  <2>3. n \in 1 .. Len(text) + 1 /\ ~Good(from)
    BY <2>2
  <2>4. \A k \in 1 .. Len(text) + 1 : k < n => Good(Len(text) + 2 - k)
    <3>1. \A k \in 1 .. Len(text) + 1 : k \in Bad => n <= k
      BY <2>2
    <3> HIDE DEF n
    <3>2. QED
      BY <1>1, <2>3, <3>1
  <2> HIDE DEF n, Bad
  <2>5. from \in 1 .. Len(text) + 1
    BY <1>1, <2>3
  <2>6. ASSUME NEW k \in from + 1 .. Len(text) + 1
        PROVE  Good(k)
    <3> DEFINE m == Len(text) + 2 - k
    <3>1. m \in 1 .. Len(text) + 1 /\ m < n /\ Len(text) + 2 - m = k
      BY <1>1, <2>3
    <3> HIDE DEF m
    <3>2. Good(Len(text) + 2 - m)
      BY <2>4, <3>1
    <3>3. QED
      BY <3>1, <3>2
  <2> HIDE DEF from
  <2>7. Good(from)
    BY <1>2, <2>5, <2>6
  <2>8. QED
    BY <2>3, <2>7
<1>4. Good(1)
  <2> HIDE DEF Good
  <2>1. Len(text) + 1 \in 1 .. Len(text) + 1 /\ Len(text) + 2 - (Len(text) + 1) = 1
    BY <1>1
  <2>2. Good(Len(text) + 2 - (Len(text) + 1))
    BY <1>3, <2>1
  <2>3. QED
    BY <2>1, <2>2
<1>5. From(text, 1) = text
  BY <1>1 DEF From
<1>6. strip_think(text) = StripAt(text, 1)
  BY StripIs, Zenon DEF StripAt
<1>7. QED
  BY <1>4, <1>5, <1>6

-----------------------------------------------------------------------------
(* The filter of a text that arrives in pieces.                              *)

\* Less than a tag is held back.
LEMMA SplitHolds ==
    ASSUME NEW S, NEW text \in Seq(S), NEW thinking \in BOOLEAN
    PROVE  Len(Split(thinking, text).pending) \in 0 .. 2
<1> DEFINE Holds(t, c) == Len(Split(t, c).pending) \in 0 .. 2
           B == {c \in Seq(S) : \E t \in BOOLEAN : ~Holds(t, c)}
<1>1. SUFFICES ASSUME B # {}
               PROVE  FALSE
  OBVIOUS
<1>2. PICK a \in B : \A c \in B : Len(a) <= Len(c)
  <2>1. B \subseteq Seq(S)
    OBVIOUS
  <2> HIDE DEF B
  <2>2. QED
    BY <1>1, <2>1, LeastText
<1>3. a \in Seq(S) /\ \A c \in Seq(S) : Len(c) < Len(a) => \A t \in BOOLEAN : Holds(t, c)
  <2>1. \A c \in Seq(S) : Len(c) \in Nat
    OBVIOUS
  <2> HIDE DEF Holds
  <2>2. QED
    BY <1>2, <2>1
<1>4. PICK t \in BOOLEAN : ~Holds(t, a)
  BY <1>2
<1> HIDE DEF B
<1>5. ASSUME NEW i, FirstAt(t, a, i)
      PROVE  Holds(t, a)
  <2> DEFINE r == Split(~t, From(a, i + 3))
             before == SubSeq(a, 1, i - 1)
  <2>1. before \in Seq(S) /\ From(a, i + 3) \in Seq(S) /\ Len(From(a, i + 3)) < Len(a)
    BY <1>3, <1>5, AroundTag
  <2>2. Holds(~t, From(a, i + 3)) /\ r \in SplitResult(S)
    BY <1>3, <2>1, SplitType
  <2>3. Split(t, a) = Joined(t, before, r)
    BY <1>3, <1>5, SplitAtTag
  <2>4. Len(r.pending) \in 0 .. 2
    BY <2>2
  <2> HIDE DEF r, before
  <2>5. Joined(t, before, r).pending = r.pending
    BY <2>1, <2>2, JoinedIs DEF Follows
  <2>6. QED
    BY <2>3, <2>4, <2>5
<1>6. ASSUME NEW k, NoTag(t, a, k)
      PROVE  Holds(t, a)
  <2> DEFINE held == From(a, Len(a) - k + 1)
             before == SubSeq(a, 1, Len(a) - k)
  <2>1. before \in Seq(S) /\ held \in Seq(S) /\ Len(held) = k /\ k \in 0 .. 2
    BY <1>3, <1>6, AroundHeld
  <2>2. Split(t, a) = Joined(t, before, Ended(t, held))
    BY <1>3, <1>6, SplitNoTag
  <2> HIDE DEF held, before
  <2>3. Ended(t, held) \in SplitResult(S) /\ Ended(t, held).pending = held
    BY <2>1, EndedIs
  <2>4. Joined(t, before, Ended(t, held)).pending = held
    BY <2>1, <2>3, JoinedIs DEF Follows
  <2>5. QED
    BY <2>1, <2>2, <2>4
<1>7. QED
  BY <1>3, <1>4, <1>5, <1>6, TagOrNone

\* The inductive invariant: the filter is where it would be, and gave out what
\* it would have, if all the text had come at once.
FilterInv ==
    /\ fed \in Seq(Letters) /\ Len(fed) <= MaxText
    /\ filter.reasoning = passed.reasoning
    /\ LET s == Split(FALSE, fed)
       IN  /\ filter.inside = s.inside /\ filter.pending = s.pending
           /\ passed.content = s.content /\ passed.reasoning = s.reasoning

\* An empty text.
LEMMA SplitEmpty ==
    ASSUME NEW thinking \in BOOLEAN
    PROVE  LET s == Split(thinking, <<>>)
           IN  /\ s.inside = thinking /\ s.pending = <<>>
               /\ s.content = <<>> /\ s.reasoning = <<>>
<1> DEFINE none == <<>>
           s == Split(thinking, none)
<1>1. none \in Seq(Letters) /\ Len(none) = 0
  OBVIOUS
<1>2. \A x \in Seq(Letters) : Len(x) = 0 => x = none
  OBVIOUS
<1> HIDE DEF none
<1>3. ~(\E i : FirstAt(thinking, none, i))
  BY <1>1 DEF FirstAt, TagAt
<1>4. PICK k : NoTag(thinking, none, k)
  BY <1>1, <1>3, TagOrNone
<1> DEFINE before == SubSeq(none, 1, Len(none) - k)
           held == From(none, Len(none) - k + 1)
<1>5. /\ before \in Seq(Letters) /\ Len(before) = 0 /\ held \in Seq(Letters) /\ Len(held) = 0
  <2>0. none \in Seq(Letters)
    BY <1>1
  <2>1. /\ k \in 0 .. 2 /\ k <= Len(none) /\ before \in Seq(Letters) /\ held \in Seq(Letters)
        /\ Len(before) = Len(none) - k /\ Len(held) = k
    BY <1>4, <2>0, AroundHeld
  <2> HIDE DEF before, held
  <2>2. QED
    BY <1>1, <2>1
<1>6. s = Joined(thinking, before, Ended(thinking, held))
  BY <1>1, <1>4, SplitNoTag
<1> HIDE DEF before, held, s
<1>7. before = none /\ held = none
  BY <1>2, <1>5
<1>8. /\ Ended(thinking, none) \in SplitResult(Letters)
      /\ Ended(thinking, none).inside = thinking /\ Ended(thinking, none).pending = none
      /\ Ended(thinking, none).content = none /\ Ended(thinking, none).reasoning = none
  BY <1>1, EndedIs DEF none
<1>9. Follows(s, thinking, none, Ended(thinking, none))
  BY <1>1, <1>6, <1>7, <1>8, JoinedIs
<1>10. none \o none = none
  BY DEF none
<1>11. s.inside = thinking /\ s.pending = none
  BY <1>8, <1>9, Zenon DEF Follows
<1>12. s.content = none /\ s.reasoning = none
  BY <1>8, <1>9, <1>10 DEF Follows
<1>13. QED
  BY <1>11, <1>12 DEF none, s

LEMMA FilterInvInit == FilterInit => FilterInv
<1> SUFFICES ASSUME FilterInit
             PROVE  FilterInv
  OBVIOUS
<1>1. fed = <<>> /\ filter.inside = FALSE /\ filter.pending = <<>> /\ filter.reasoning = <<>>
      /\ passed.content = <<>> /\ passed.reasoning = <<>>
  BY DEF FilterInit, NewFilter
<1>2. fed \in Seq(Letters) /\ Len(fed) <= MaxText
  BY <1>1, FilteredTextAssumption
<1>3. QED
  <2>1. FALSE \in BOOLEAN
    OBVIOUS
  <2>2. Split(FALSE, fed) = Split(FALSE, <<>>)
    BY <1>1
  <2>3. QED
    BY <1>1, <1>2, <2>1, <2>2, SplitEmpty DEF FilterInv

LEMMA FilterInvStep == FilterInv /\ [FilterNext]_filterVars => FilterInv'
<1> SUFFICES ASSUME FilterInv, [FilterNext]_filterVars
             PROVE  FilterInv'
  OBVIOUS
<1>1. CASE UNCHANGED filterVars
  BY <1>1 DEF FilterInv, filterVars
<1>2. ASSUME NEW piece \in Pieces(Letters), Observe(piece)
      PROVE  FilterInv'
  <2> DEFINE s == Split(FALSE, fed)
             t == Split(s.inside, s.pending \o piece)
             w == Split(FALSE, fed \o piece)
  <2>1. piece \in Seq(Letters)
    BY FilteredTextAssumption DEF Pieces
  <2>2. /\ fed \in Seq(Letters) /\ filter.reasoning = passed.reasoning
        /\ filter.inside = s.inside /\ filter.pending = s.pending
        /\ passed.content = s.content /\ passed.reasoning = s.reasoning
    BY DEF FilterInv
  <2>3. Continued(w, s, t)
    BY <2>1, <2>2, SplitContinues DEF Continues
  <2>4. fed' = fed \o piece
    BY <1>2 DEF Observe
  <2>5. fed' \in Seq(Letters) /\ Len(fed') <= MaxText
    <3>1. Len(fed \o piece) = Len(fed) + Len(piece) /\ fed \o piece \in Seq(Letters)
      BY <2>1, <2>2, Glued
    <3>2. Len(fed) + Len(piece) <= MaxText
      BY <1>2 DEF Observe
    <3>3. QED
      BY <2>4, <3>1, <3>2
  <2>6. Split(filter.inside, filter.pending \o piece) = t
    BY <2>2
  <2>7. /\ filter' = [inside |-> t.inside, pending |-> t.pending,
                      reasoning |-> filter.reasoning \o t.reasoning]
        /\ passed' = [content |-> passed.content \o t.content,
                      reasoning |-> passed.reasoning \o t.reasoning]
    BY <1>2, <2>6 DEF Observe, process_chunk
  <2>8. Split(FALSE, fed)' = w
    BY <2>4
  <2> HIDE DEF s, t, w
  <2>9. /\ filter'.inside = w.inside /\ filter'.pending = w.pending
        /\ passed'.content = w.content /\ passed'.reasoning = w.reasoning
        /\ filter'.reasoning = passed'.reasoning
    BY <2>2, <2>3, <2>7 DEF Continued
  <2>10. QED
    BY <2>5, <2>8, <2>9 DEF FilterInv
<1>3. QED
  BY <1>1, <1>2 DEF FilterNext

LEMMA FilterInvAlways == FilterSpec => []FilterInv
  BY FilterInvInit, FilterInvStep, PTL DEF FilterSpec

\* Whatever a text is and wherever it is cut, the filter holds back less than
\* a tag, and the log has the reasoning that was taken out
\* (plugin/thinking.rs:72-108).
THEOREM FilterTypeHolds == FilterSpec => []FilterTypeOK
<1>1. FilterInv => FilterTypeOK
  <2> SUFFICES ASSUME FilterInv
               PROVE  FilterTypeOK
    OBVIOUS
  <2> DEFINE s == Split(FALSE, fed)
  <2>1. /\ fed \in Seq(Letters) /\ Len(fed) <= MaxText /\ filter.reasoning = passed.reasoning
        /\ filter.inside = s.inside /\ filter.pending = s.pending
    BY DEF FilterInv
  <2>2. s \in SplitResult(Letters) /\ Len(s.pending) \in 0 .. 2
    BY <2>1, SplitType, SplitHolds
  <2>3. Len(OpenTag) = 3
    BY DEF OpenTag
  <2> HIDE DEF s
  <2>4. s.inside \in BOOLEAN /\ s.pending \in Seq(Letters)
    BY <2>2 DEF SplitResult
  <2> DEFINE n == Len(s.pending)
  <2>5. n < Len(OpenTag)
    <3>1. n \in 0 .. 2
      BY <2>2
    <3> HIDE DEF n
    <3>2. QED
      BY <2>3, <3>1
  <2>6. filter.inside \in BOOLEAN
    BY <2>1, <2>4, Zenon
  <2>7. filter.pending \in Seq(Letters) /\ Len(filter.pending) < Len(OpenTag)
    BY <2>1, <2>4, <2>5, Zenon
  <2>8. QED
    BY <2>1, <2>6, <2>7, Zenon DEF FilterTypeOK
<1>2. QED
  BY <1>1, FilterInvAlways, PTL

\* Whatever a text is and wherever it is cut, the pieces together give what
\* strip_think gives for the whole (plugin/thinking.rs:72-184).
THEOREM CutsDoNotMatterHolds == FilterSpec => []CutsDoNotMatter
<1>1. FilterInv => CutsDoNotMatter
  <2> SUFFICES ASSUME FilterInv
               PROVE  CutsDoNotMatter
    OBVIOUS
  <2>1. Agrees(strip_think(fed), Split(FALSE, fed))
    BY StripAgrees DEF FilterInv
  <2>2. QED
    BY <2>1, Zenon DEF FilterInv, Agrees, CutsDoNotMatter
<1>2. QED
  BY <1>1, FilterInvAlways, PTL
=============================================================================
