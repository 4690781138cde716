------------------------------- MODULE MCServices -------------------------------
(* The services around the relay for TLC. They share no state: a behaviour   *)
(* of this module is one of exactly one service, the one in focus, and the   *)
(* variables of the others are parked. The states to explore are the sum of  *)
(* those of the services, not their product.                                 *)
(*                                                                           *)
(* KeyCache is extended, and so is the state that a service with theorems    *)
(* makes its promises about; the services themselves are instances.  Where   *)
(* a variable of one has a name another has already, it is given one here.   *)
EXTENDS KeyCache, SwitchCopy, UsageTables, GateLimits, Outcome, Dialogue,
        FilteredText

CONSTANTS
    cch, master_switch,
    Models, Prices, Torn, Start, Timer, MaxUpdates, MaxFaults,
    Retentions, MaxTime,
    Bytes, MaxBytes,
    Streams, Cap,
    MaxTurns,
    MaxChannels, MaxKeys

VARIABLES
    focus,
    checked,
    table, memory, file, fetch, change, updates, faults,
    step, keep,
    raw, buffer, events,
    client, tools, turn,
    streamed, channel, key, pass, tally, keyError, attempts

switchVars  == <<stored, enabled, master, task, checked, lost>>
pricingVars == <<table, memory, file, fetch, change, updates, faults>>
usageVars   == <<now, log, payload, step, keep, billed, swept>>
textVars    == <<filterVars, raw, buffer, events>>
gateVars    == <<limits, windows, spent, at, tokens, recent>>
talkVars    == <<client, tools, history, turn, request>>
errorVars   == <<streamed, channel, key, pass, tally, keyError, error, attempts,
                 phase, told, saved>>
allVars     == <<focus, vars, switchVars, pricingVars, usageVars, textVars,
                 gateVars, talkVars, errorVars>>

Order == <<cch, master_switch>>

\* One API key for all workers, with requests and tokens limited, one or the
\* other, and both kinds of budget.
OneKey == [w \in Workers |-> CHOOSE k \in ApiKeys : TRUE]
SomeLimits == {[rpm |-> 2, tpm |-> 1, budget |-> [daily |-> 0, monthly |-> 0]],
               [rpm |-> 0, tpm |-> 2, budget |-> [daily |-> 0, monthly |-> 0]],
               [rpm |-> 1, tpm |-> 0, budget |-> [daily |-> 1, monthly |-> 2]]}

Switches == INSTANCE PluginSwitches
PriceList == INSTANCE Pricing
Usage == INSTANCE UsageLog
Stream == INSTANCE StreamText
Door == INSTANCE Gate
Talk == INSTANCE Transcript
Errors == INSTANCE ErrorPath

ASSUME ServicesAssumption ==
    /\ Switches!PluginSwitchesAssumption
    /\ PriceList!PricingAssumption
    /\ Usage!UsageLogAssumption
    /\ Stream!StreamTextAssumption
    /\ Door!GateAssumption
    /\ Talk!ConversationAssumption
    /\ Errors!ErrorPathAssumption

-----------------------------------------------------------------------------
\* KeyCache has a single initial state and stays in it.  The services with
\* state that is extended stay in one of theirs.
ParkSwitches == /\ Switches!Init /\ \A s \in Settings : ~Value(s)
                /\ task[CHOOSE t \in Tasks : TRUE] # Free
ParkUsage    == Usage!Init /\ ~keep
ParkErrors   == Errors!Init /\ ~streamed
ParkGate     == Door!Init /\ \A k \in ApiKeys : limits[k] = CHOOSE l \in Limits : TRUE

ParkFilter   == FilterInit

\* The others have no values.
ParkPricing == table = None /\ memory = None /\ file = None /\ fetch = None
               /\ change = None /\ updates = None /\ faults = None
ParkStream == ParkFilter /\ raw = None /\ buffer = None /\ events = None
ParkTalk == client = None /\ tools = None /\ turn = None
            /\ history = <<>> /\ request = Nothing

OneService ==
    /\ focus \in {"keys", "switches", "pricing", "usage", "stream", "gate",
                  "talk", "errors"}
    /\ Init
    /\ IF focus = "switches" THEN Switches!Init ELSE ParkSwitches
    /\ IF focus = "pricing" THEN PriceList!Init ELSE ParkPricing
    /\ IF focus = "usage" THEN Usage!Init ELSE ParkUsage
    /\ IF focus = "stream" THEN Stream!Init ELSE ParkStream
    /\ IF focus = "gate" THEN Door!Init ELSE ParkGate
    /\ IF focus = "talk" THEN Talk!Init ELSE ParkTalk
    /\ IF focus = "errors" THEN Errors!Init ELSE ParkErrors

KeysStep ==
    /\ focus = "keys" /\ Next
    /\ UNCHANGED <<focus, switchVars, pricingVars, usageVars, textVars,
                   gateVars, talkVars, errorVars>>
SwitchesStep ==
    /\ focus = "switches" /\ Switches!Next
    /\ UNCHANGED <<focus, vars, pricingVars, usageVars, textVars,
                   gateVars, talkVars, errorVars>>
PricingStep ==
    /\ focus = "pricing" /\ PriceList!Next
    /\ UNCHANGED <<focus, vars, switchVars, usageVars, textVars,
                   gateVars, talkVars, errorVars>>
UsageStep ==
    /\ focus = "usage" /\ Usage!Next
    /\ UNCHANGED <<focus, vars, switchVars, pricingVars, textVars,
                   gateVars, talkVars, errorVars>>
StreamStep ==
    /\ focus = "stream" /\ Stream!Next
    /\ UNCHANGED <<focus, vars, switchVars, pricingVars, usageVars,
                   gateVars, talkVars, errorVars>>
GateStep ==
    /\ focus = "gate" /\ Door!Next
    /\ UNCHANGED <<focus, vars, switchVars, pricingVars, usageVars,
                   textVars, talkVars, errorVars>>
TalkStep ==
    /\ focus = "talk" /\ Talk!Next
    /\ UNCHANGED <<focus, vars, switchVars, pricingVars, usageVars,
                   textVars, gateVars, errorVars>>
ErrorsStep ==
    /\ focus = "errors" /\ Errors!Next
    /\ UNCHANGED <<focus, vars, switchVars, pricingVars, usageVars,
                   textVars, gateVars, talkVars>>

ServiceStep == KeysStep \/ SwitchesStep \/ PricingStep \/ UsageStep
               \/ StreamStep \/ GateStep \/ TalkStep \/ ErrorsStep

\* The fairness of Pricing, while it is in focus.
PricingFairness ==
    /\ \A f \in {Start, Timer} : WF_pricingVars(focus = "pricing" /\ PriceList!FetchStep(f))
    /\ WF_pricingVars(focus = "pricing" /\ PriceList!TimerFires)
    /\ \A a \in Admins : WF_pricingVars(focus = "pricing" /\ PriceList!ChangeStep(a))

\* That of Gate: time passes, whatever requests do.
GateFairness == WF_gateVars(focus = "gate" /\ Door!Tick)

Services == OneService /\ [][ServiceStep]_allVars /\ PricingFairness /\ GateFairness

-----------------------------------------------------------------------------
(* Every service keeps its variables in their types; that the thinking       *)
(* filter holds back less than a tag, and the log all its reasoning, is part *)
(* of it (plugin/thinking.rs:72-108).                                        *)
ServicesTypeOK ==
    /\ TypeOK
    /\ CASE focus = "keys"     -> TRUE
         [] focus = "switches" -> Switches!TypeOK
         [] focus = "pricing"  -> PriceList!TypeOK
         [] focus = "usage"    -> Usage!TypeOK
         [] focus = "stream"   -> Stream!TypeOK
         [] focus = "gate"     -> Door!TypeOK
         [] focus = "talk"     -> Talk!TypeOK
         [] focus = "errors"   -> Errors!TypeOK

(* Whatever fetches and administrators do between each other's queries, the  *)
(* prices in memory are those of the table again and again, unless the timer *)
(* waits for ever for an answer, which no timeout ends                       *)
(* (pricing/model.rs:81-92, 120-128, refresher.rs:37-55).                    *)
PricesReturn == \/ []<>(focus = "pricing" => memory = table)
                \/ <>[](focus = "pricing" /\ fetch[Timer] = PriceList!Asked)

(* Every byte of an upstream's events is handled once and in order; in a     *)
(* stream with one line ending every event is cut out alone, and none that   *)
(* is complete waits (relay/stream_loop.rs:68-88, protocol/sse/parsing.rs:6-17). *)
EventsWhole == focus = "stream" => Stream!NothingLost /\ Stream!EventsSeparated

(* However often a key is refused, the rate limits open again for it         *)
(* (relay/ratelimit.rs:57-80).                                               *)
LimitsReopen ==
    []<>(focus = "gate" => \A k \in ApiKeys :
            /\ Door!RpmOpen(windows[k], limits[k].rpm)
            /\ Door!TpmOpen(windows[k], limits[k].tpm))

(* Whichever upstream a turn goes to, it reads what was said, once, in order *)
(* and under the right speaker (protocol/inbound, protocol/outbound).        *)
TextsArrive == focus = "talk" => Talk!TextsArrive
=============================================================================
