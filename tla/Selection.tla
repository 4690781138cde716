------------------------------- MODULE Selection -------------------------------
(* What the order of Ranking is drawn from, as it changes: the runtime       *)
(* averages (src/llm/scheduler/runtime.rs), the blacklist, the slots of the  *)
(* channels, which of them can be used, and the table of sticky sessions     *)
(* (sticky.rs). The averages are kept in whole percent and milliseconds, and *)
(* health in tenths. The averages of one list are taken to be read at one    *)
(* time; the code reads each channel's under its own lock.                   *)
EXTENDS Ranking

CONSTANTS
    Limited,      \* the channels with a limit, whose slots are counted
    Managed,      \* the channels that administrators change
    Latency,      \* Latency[c]: how long an answer of c takes
    MaxSamples    \* bounds the answers and probes that are counted

\* What the configuration has to see to (MCServices assumes it).
SelectionAssumption ==
    /\ Limited \subseteq ChannelIds /\ Managed \subseteq ChannelIds
    /\ Latency \in [ChannelIds -> Nat \ {0}]
    /\ MaxSamples \in Nat

VARIABLE
    samples   \* answers and probes so far

vars == <<stats, listed, active, usable, sticky, samples>>

NewStats == [error |-> 0, latency |-> 0, ttft |-> 0, health |-> 10]
Session(c) == [channel |-> c, age |-> 0]

TypeOK ==
    /\ \A c \in ChannelIds : /\ stats[c].error \in 0 .. 100
                           /\ stats[c].latency \in 0 .. Latency[c]
                           /\ stats[c].ttft \in 0 .. Latency[c]
                           /\ stats[c].health \in 0 .. 10
    /\ listed \subseteq ChannelIds
    /\ active \in [ChannelIds -> 0 .. 1]
    /\ usable \subseteq ChannelIds
    /\ DOMAIN sticky \subseteq Sessions
    /\ \A s \in DOMAIN sticky : sticky[s] \in [channel : ChannelIds, age : 0 .. SessionTTL]
    /\ samples \in 0 .. MaxSamples

Init ==
    /\ stats = [c \in ChannelIds |-> NewStats]
    /\ listed = {}
    /\ active = [c \in ChannelIds |-> 0]
    /\ usable = ChannelIds
    /\ sticky = [s \in {} |-> Absent]
    /\ samples = 0

-----------------------------------------------------------------------------
(* The averages.                                                             *)

Average(old, sample) == IF old = 0 THEN sample ELSE (sample + 4 * old) \div 5

AfterSuccess(st, latency, stream) ==
    [st EXCEPT !.error = (7 * @) \div 10,
               !.latency = Average(@, latency),
               !.ttft = IF stream THEN Average(@, (latency + 1) \div 2) ELSE @]
AfterFailure(st) == [st EXCEPT !.error = (300 + 7 * @) \div 10]

SmallerOf(a, b) == IF a < b THEN a ELSE b

Sampled == samples < MaxSamples /\ samples' = samples + 1

\* A probe by the scheduler also counts as an answer without a first token.
AfterProbe(st, latency) ==
    LET answered == AfterSuccess(st, latency, FALSE)
    IN  [answered EXCEPT !.health = SmallerOf(st.health + 2, 10)]
AfterFailedProbe(st) == [AfterFailure(st) EXCEPT !.health = LargerOf(st.health - 3, 0)]

ProbeSucceeds(c) ==
    /\ Sampled
    /\ stats' = [stats EXCEPT ![c] = AfterProbe(@, Latency[c])]
    /\ UNCHANGED <<listed, active, usable, sticky>>

ProbeFails(c) ==
    /\ Sampled
    /\ stats' = [stats EXCEPT ![c] = AfterFailedProbe(@)]
    /\ UNCHANGED <<listed, active, usable, sticky>>

\* The blacklist is the subject of Relay: here channels come and go.
Blacklist(c) ==
    /\ listed' = IF c \in listed THEN listed \ {c} ELSE listed \cup {c}
    /\ UNCHANGED <<stats, active, usable, sticky, samples>>

\* Only the slots of a channel with a limit are counted.
TakeOrFree(c) ==
    /\ c \in Limited
    /\ active' = [active EXCEPT ![c] = 1 - @]
    /\ UNCHANGED <<stats, listed, usable, sticky, samples>>

\* An administrator disables or deletes a channel, turns its last endpoint
\* off, or brings it back; or the row that get_channel has cached goes. How
\* its cache follows the database is the subject of ProxyCache.
Administer(c) ==
    /\ c \in Managed
    /\ usable' = IF c \in usable THEN usable \ {c} ELSE usable \cup {c}
    /\ UNCHANGED <<stats, listed, active, sticky, samples>>

-----------------------------------------------------------------------------
(* The table of sessions.                                                    *)

Expired(table) == {s \in DOMAIN table : table[s].age >= SessionTTL}
Dropped(table, gone) == [s \in DOMAIN table \ gone |-> table[s]]

\* Mutant: a full table of live sessions takes another one.
MutRemembered(s, c) ==
    LET table == IF Cardinality(DOMAIN sticky) >= MaxSessions
                 THEN Dropped(sticky, Expired(sticky)) ELSE sticky
    IN  [t \in DOMAIN table \cup {s} |-> IF t = s THEN Session(c) ELSE table[t]]

\* StickySessionManager::set: at the limit the expired sessions go first. A
\* table that is still full takes none, the session that is in it included.
Remembered(s, c) ==
    LET table == IF Cardinality(DOMAIN sticky) >= MaxSessions
                 THEN Dropped(sticky, Expired(sticky)) ELSE sticky
    IN  IF Cardinality(DOMAIN table) >= MaxSessions
        THEN table
        ELSE [t \in DOMAIN table \cup {s} |-> IF t = s THEN Session(c) ELSE table[t]]

\* A candidate answers: its averages are updated, and it becomes the session's.
\* The list of the request may be old by now: any channel of it may answer.
Succeed(s, c, stream) ==
    /\ Sampled
    /\ stats' = [stats EXCEPT ![c] = AfterSuccess(@, Latency[c], stream)]
    /\ sticky' = IF s # Absent THEN Remembered(s, c) ELSE sticky
    /\ UNCHANGED <<listed, active, usable>>

Fail(c) ==
    /\ Sampled
    /\ stats' = [stats EXCEPT ![c] = AfterFailure(@)]
    /\ UNCHANGED <<listed, active, usable, sticky>>

CleanupSessions ==
    /\ sticky' = Dropped(sticky, Expired(sticky))
    /\ UNCHANGED <<stats, listed, active, usable, samples>>

Tick ==
    /\ sticky' = [s \in DOMAIN sticky |-> [sticky[s] EXCEPT !.age = SmallerOf(@ + 1, SessionTTL)]]
    /\ UNCHANGED <<stats, listed, active, usable, samples>>

Next ==
    \/ \E c \in ChannelIds : ProbeSucceeds(c) \/ ProbeFails(c)
                          \/ Blacklist(c) \/ TakeOrFree(c) \/ Administer(c)
    \/ \E c \in ChannelIds : \/ Fail(c)
                          \/ \E s \in Sessions \cup {Absent}, stream \in BOOLEAN : Succeed(s, c, stream)
    \/ CleanupSessions
    \/ Tick

Spec == Init /\ [][Next]_vars

=============================================================================
