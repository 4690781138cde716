------------------------------ MODULE StreamDecode ------------------------------
(* From an event of an upstream to the unified delta (LlmStreamResponse), by *)
(* the three protocols an upstream may speak (protocol/outbound), and what   *)
(* the log collects on the way (protocol/sse, relay/stream_loop.rs).         *)
(*                                                                           *)
(* An event is its kind, the text it carries and the tool call it is about.  *)
(* The arguments of a call are modelled by the call they belong to: a piece  *)
(* of the arguments of call 2 is 2, so that it shows where it ends up.       *)
EXTENDS ThinkFilter

OpenAiChat     == "chat"
OpenAiResponse == "responses"
Anthropic      == "anthropic"
Endpoints      == {OpenAiChat, OpenAiResponse, Anthropic}

Event(kind, piece, call) == [kind |-> kind, piece |-> piece, call |-> call]

NoId == 0

\* A delta without anything in it; NoDelta is no delta at all.
EmptyDelta == [choice |-> TRUE, text |-> <<>>, reasoning |-> <<>>, tools |-> <<>>,
               finish |-> FALSE, usage |-> FALSE]
NoDelta == [EmptyDelta EXCEPT !.choice = FALSE]

ToolDelta(index, id, args) ==
    [EmptyDelta EXCEPT !.tools = <<[index |-> index, id |-> id, args |-> args]>>]

TextDelta(e) == IF e.kind = "text" THEN [EmptyDelta EXCEPT !.text = e.piece]
                ELSE [EmptyDelta EXCEPT !.reasoning = e.piece]

\* A chunk of chat completions is already a delta; usage comes in a chunk
\* without a choice.  What is no such chunk fails to parse and is skipped.
DecodeChat(e) ==
    CASE e.kind \in {"text", "reasoning"} -> TextDelta(e)
      [] e.kind = "toolStart" -> ToolDelta(e.call, e.call, <<>>)
      [] e.kind = "toolArgs"  -> ToolDelta(e.call, NoId, <<e.call>>)
      [] e.kind = "finish"    -> [EmptyDelta EXCEPT !.finish = TRUE]
      [] e.kind = "usage"     -> [NoDelta EXCEPT !.usage = TRUE]
      [] OTHER                -> NoDelta

\* message_start is a delta without content; the id of a call is in the start
\* of its block only; the usage of message_delta is not carried over.
DecodeAnthropic(e) ==
    CASE e.kind = "begin" -> EmptyDelta
      [] e.kind \in {"text", "reasoning"} -> TextDelta(e)
      [] e.kind = "toolStart" -> ToolDelta(e.call, e.call, <<>>)
      [] e.kind = "toolArgs"  -> ToolDelta(e.call, NoId, <<e.call>>)
      [] e.kind = "finish"    -> [EmptyDelta EXCEPT !.finish = TRUE]
      [] OTHER                -> NoDelta

\* Every piece of arguments names its call; usage comes with the end.
DecodeResponses(e) ==
    CASE e.kind \in {"text", "reasoning"} -> TextDelta(e)
      [] e.kind = "toolArgs" -> ToolDelta(0, e.call, <<e.call>>)
      [] e.kind = "finish"   -> [EmptyDelta EXCEPT !.finish = TRUE, !.usage = TRUE]
      [] OTHER               -> NoDelta

Decode(up, e) == CASE up = OpenAiChat     -> DecodeChat(e)
                   [] up = Anthropic      -> DecodeAnthropic(e)
                   [] up = OpenAiResponse -> DecodeResponses(e)

\* What an event says about usage: Anthropic has it in two halves.
UsageOf(up, e) ==
    CASE up = OpenAiChat /\ e.kind = "usage"      -> {"last"}
      [] up = OpenAiResponse /\ e.kind = "finish" -> {"last"}
      [] up = Anthropic /\ e.kind = "begin"       -> {"input"}
      [] up = Anthropic /\ e.kind = "finish"      -> {"last"}
      [] OTHER -> {}

\* The events extract_error_from_sse takes for errors.
IsError(e) == e.kind = "error"

-------------------------------------------------------------------------------
\* observe: the filter takes the text of a delta and gives back what passes and
\* the reasoning it found, after the delta's own.
ObserveDelta(f, d) ==
    LET own  == [f EXCEPT !.reasoning = @ \o d.reasoning]
        step == process_chunk(own, d.text)
    IN  IF ~d.choice THEN [filter |-> f, delta |-> d]
        ELSE IF d.text = <<>> THEN [filter |-> own, delta |-> d]
        ELSE [filter |-> step.filter,
              delta  |-> [d EXCEPT !.text = step.content, !.reasoning = @ \o step.reasoning]]

-------------------------------------------------------------------------------
(* The tool calls of the log: a sequence of [id, args].                      *)

NoCall == [id |-> NoId, args |-> <<>>]

\* While converting: a delta with an id is a new call, one without belongs to
\* the last.
AddConverted(calls, t) ==
    IF t.id # NoId THEN Append(calls, [id |-> t.id, args |-> t.args])
    ELSE IF calls = <<>> THEN calls
    ELSE [calls EXCEPT ![Len(calls)].args = @ \o t.args]

\* While passing chat completions through: by the delta's index.
AddChat(calls, t) ==
    LET long == IF Len(calls) >= t.index THEN calls
                ELSE calls \o [i \in 1 .. t.index - Len(calls) |-> NoCall]
    IN  [long EXCEPT ![t.index] =
            [id |-> IF t.id # NoId THEN t.id ELSE @.id, args |-> @.args \o t.args]]

\* While passing responses through: by the call's id.
AddResponses(calls, t) ==
    LET at == {i \in DOMAIN calls : calls[i].id = t.id}
    IN  IF at = {} THEN Append(calls, [id |-> t.id, args |-> t.args])
        ELSE [calls EXCEPT ![Min(at)].args = @ \o t.args]

CollectConverted(calls, d) == FoldLeft(AddConverted, calls, d.tools)

\* Mutant: a piece without an id belongs to the last call.
MutCollectChat(calls, d) == CollectConverted(calls, d)

CollectChat(calls, d) == FoldLeft(AddChat, calls, d.tools)

CollectResponses(calls, d) == FoldLeft(AddResponses, calls, d.tools)

\* collect_sse_content: Anthropic's tool calls are not collected.
CollectCalls(up, calls, e) ==
    CASE up = OpenAiChat     -> CollectChat(calls, DecodeChat(e))
      [] up = OpenAiResponse -> CollectResponses(calls, DecodeResponses(e))
      [] up = Anthropic      -> calls
=============================================================================
