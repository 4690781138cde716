-------------------------------- MODULE Ranking --------------------------------
(* In which order the channels of a route are tried, and which sessions stick *)
(* to a channel (src/llm/relay/candidates.rs, src/llm/scheduler/scoring.rs,   *)
(* sticky.rs): what the scheduler keeps of its channels, the list that a      *)
(* request gets from it, and what that list promises. How the state changes   *)
(* is in Selection.                                                           *)
EXTENDS Integers, Sequences, FiniteSets

CONSTANTS
    ChannelIds,     \* numbers, in the order of the channels' identifiers
    Items,        \* the items of the route, best priority first
    Sessions,     \* values of x-session-hash
    SessionTTL, MaxSessions,
    Absent

ASSUME RankingAssumption ==
    /\ ChannelIds \subseteq Nat
    /\ Items \in Seq([channel : ChannelIds, priority : Nat, model : STRING])
    /\ \A i, j \in DOMAIN Items : i < j => Items[i].priority <= Items[j].priority
    /\ Absent \notin Sessions
    /\ SessionTTL \in Nat /\ MaxSessions \in Nat \ {0}

VARIABLES
    stats,    \* stats[c]: the averages of channel c
    listed,   \* the blacklisted channels
    active,   \* active[c]: slots of c that are taken
    usable,   \* the channels that get_channel finds, with an endpoint that is on
    sticky    \* the table of sticky sessions

Candidate(c, m, s) == [channel |-> c, model |-> m, sticky |-> s]

LargerOf(a, b) == IF a < b THEN b ELSE a

-----------------------------------------------------------------------------
(* Sorting: the elements of a finite set in the order of a relation, and the *)
(* elements of a list at the places in K, in their order.                    *)

Rank(S, R, x) == Cardinality({y \in S : <<y, x>> \in R})
Listed(S, R)  == [i \in 1 .. Cardinality(S) |-> CHOOSE x \in S : Rank(S, R, x) = i - 1]

Pairs(S) == {<<x, y>> : x \in S, y \in S}
Less(K)  == {x \in Pairs(K) : x[1] < x[2]}

PlacesOf(list, K) ==
    LET places == Listed(K, Less(K)) IN [i \in DOMAIN places |-> list[places[i]]]

-----------------------------------------------------------------------------
(* score_candidates and calculate_candidate_score. A score is a sum of       *)
(* fractions; all scores of a tier are taken times the same denominators.    *)

\* The time to the first token, or else the latency, or nothing yet.
Speed(c) == IF stats[c].ttft > 0 THEN stats[c].ttft ELSE stats[c].latency

Health(c) == IF c \in listed THEN 0 ELSE stats[c].health

Greatest(S) == CHOOSE x \in S : \A y \in S : y <= x
Smallest(S) == CHOOSE x \in S : \A y \in S : x <= y
Spread(S)   == IF S = {} THEN 0 ELSE Greatest(S) - Smallest(S)

Score(c, tier) ==
    LET speeds == {Speed(d) : d \in tier} \ {0}
        slots  == {active[d] : d \in tier}
        L == LargerOf(Spread(speeds), 1)
        A == LargerOf(Spread(slots), 1)
        latency == CASE Speed(c) = 0       -> 8 * L
                     [] Spread(speeds) = 0 -> 10 * L
                     [] OTHER              -> 10 * (Greatest(speeds) - Speed(c))
        least_conn == IF Spread(slots) = 0 THEN A ELSE Greatest(slots) - active[c]
    IN  20 * A * latency + 200 * L * least_conn
        + (3 * (100 - stats[c].error) + 20 * Health(c)) * L * A

\* The channels of a tier, the higher score first, then the smaller identifier.
Outranks(c, d, tier) ==
    LET ours == Score(c, tier)  theirs == Score(d, tier)
    IN  ours > theirs \/ (ours = theirs /\ c < d)

-----------------------------------------------------------------------------
(* build_relay_candidates.                                                   *)

ChannelsOf(is) == {Items[i].channel : i \in is}

\* The channels that are left, each with the priorities it has items of.
Entries(left) ==
    {<<Items[i].priority, Items[i].channel>> :
        i \in {j \in DOMAIN Items : Items[j].channel \in left}}

Tier(p, left) == {e[2] : e \in {f \in Entries(left) : f[1] = p}}

\* The tiers one after the other, the smallest priority first.
Precedes(left) ==
    {x \in Pairs(Entries(left)) :
        \/ x[1][1] < x[2][1]
        \/ x[1][1] = x[2][1] /\ Outranks(x[1][2], x[2][2], Tier(x[1][1], left))}

Tiers(left) ==
    LET entries == Listed(Entries(left), Precedes(left))
    IN  [i \in DOMAIN entries |-> entries[i][2]]

FirstModel(c) ==
    LET i == Smallest({j \in DOMAIN Items : Items[j].channel = c}) IN Items[i].model

\* Each channel where it comes first: a channel can have items in two tiers.
Once(list) ==
    PlacesOf(list, {i \in DOMAIN list : \A j \in DOMAIN list : j < i => list[j] # list[i]})

\* Mutant: the healthy channels of all tiers are not put before the sick ones.
MutTierAndDemote(list) == list

\* tier_and_demote: the tiers in their order, and channels without health last.
TierAndDemote(list) ==
    PlacesOf(list, {i \in DOMAIN list : Health(list[i]) > 0})
        \o PlacesOf(list, {i \in DOMAIN list : ~(Health(list[i]) > 0)})

Ordered(left) == Once(TierAndDemote(Tiers(left)))

LiveSession(s) == s \in DOMAIN sticky /\ sticky[s].age < SessionTTL

\* Mutant: the session's channel comes first whether or not it can be used.
MutGoesBack(s) == LiveSession(s)

\* A session goes back to its channel unless that one has been disabled or
\* deleted, or has no endpoint left.
GoesBack(s) == LiveSession(s) /\ sticky[s].channel \in usable

\* The channel of the session comes first, with the model as it was asked for
\* (Absent), and the others after it. A channel of the route that cannot be
\* used is still a candidate: the relay finds out.
Candidates(s) ==
    LET first == IF GoesBack(s) THEN {sticky[s].channel} ELSE {}
        list  == Ordered(ChannelIds \ first)
    IN  (IF GoesBack(s) THEN <<Candidate(sticky[s].channel, Absent, TRUE)>> ELSE <<>>)
        \o [i \in DOMAIN list |-> Candidate(list[i], FirstModel(list[i]), FALSE)]

-----------------------------------------------------------------------------
(* What a list of candidates promises to the request that tries them.        *)

\* Each channel of the route is tried once: none is left out, none comes twice,
\* though one may have items in two tiers or be the session's.
EveryChannelOnce(list) ==
    LET tried == {list[i].channel : i \in DOMAIN list}
    IN  Len(list) = Cardinality(tried) /\ ChannelsOf(DOMAIN Items) \subseteq tried

\* A live session whose channel can be used has it first; one whose channel is
\* gone or has no endpoint is served like a request without a session.
SessionFirst(s, list) ==
    \A i \in DOMAIN list :
        /\ list[i].sticky <=> i = 1 /\ LiveSession(s) /\ sticky[s].channel \in usable
        /\ list[i].sticky => list[i].channel = sticky[s].channel

TopPriority(c) ==
    Smallest({Items[i].priority : i \in {j \in DOMAIN Items : Items[j].channel = c}})

\* c is in no way worse than d, and better in one.
Better(c, d) ==
    /\ Speed(c) > 0 /\ Speed(d) > 0
    /\ Speed(c) <= Speed(d) /\ active[c] <= active[d]
    /\ stats[c].error <= stats[d].error /\ Health(c) >= Health(d)
    /\ <<Speed(c), active[c], stats[c].error, Health(c)>>
          # <<Speed(d), active[d], stats[d].error, Health(d)>>

\* A channel without health comes after all others, then a better priority
\* comes first, and among equals no channel comes before one that is better or
\* equal in speed, load, errors and health and better in one.
BetterFirst(list) ==
    \A i, j \in DOMAIN list : i < j /\ ~list[i].sticky =>
        LET c == list[i].channel  d == list[j].channel IN
        /\ Health(c) = 0 => Health(d) = 0
        /\ (Health(c) = 0 <=> Health(d) = 0) => TopPriority(c) <= TopPriority(d)
        /\ TopPriority(c) = TopPriority(d) => ~Better(d, c)

(* Whatever the state, a request tries each channel of its route once, its   *)
(* session's first if that can be used, and the others as priorities and     *)
(* measurements say: normalising each measure over the tier must not turn    *)
(* the order, with the session's channel in the tier or out of it. A request *)
(* has a session of the table, or as good as none (candidates.rs:80-208,     *)
(* scoring.rs:54-80).                                                        *)
CandidatesInOrder ==
    \A s \in DOMAIN sticky \cup {Absent} :
        LET list == Candidates(s)
        IN  EveryChannelOnce(list) /\ SessionFirst(s, list) /\ BetterFirst(list)

(* The table never outgrows its limit, and no session in it is forgotten     *)
(* before its time (sticky.rs:48-75).                                        *)
KeepsSessions ==
    /\ Cardinality(DOMAIN sticky') <= MaxSessions
    /\ \A s \in DOMAIN sticky : sticky[s].age < SessionTTL => s \in DOMAIN sticky'

(* What happens to the table of sessions, step by step.                      *)
SessionsKept == [][KeepsSessions]_sticky
=============================================================================
