------------------------------- MODULE StreamLoop -------------------------------
(* The task that reads an upstream's stream and writes the client's          *)
(* (relay/stream_loop.rs): run_conversion_loop when the two speak different  *)
(* protocols, run_passthrough_loop when they speak the same.                 *)
(*                                                                           *)
(* A chunk holds one event (StreamText has the framing).  The converter may  *)
(* make several events of one; each is sent on its own, and the client may   *)
(* leave before any of them.                                                 *)
EXTENDS ResponsesConverter

CONSTANTS
    Pieces,       \* The texts an event may carry.
    MaxEvents,    \* How many events an upstream sends.
    MaxCalls      \* How many tool calls it makes.

ASSUME StreamLoopAssumption ==
    /\ Pieces \subseteq Seq({"<", "t", "/", ">", "x"}) \ {<<>>}
    /\ MaxEvents \in Nat /\ MaxCalls \in Nat

VARIABLES
    up, client,   \* upstream_endpoint, client_endpoint
    thinking,     \* Whether there is a thinking_processor.
    sent,         \* The events of the upstream.
    whole,        \* How many of them were ended by a blank line.
    filter,       \* The thinking_processor.
    conv,         \* The converter.
    out,          \* Converted events that wait to be sent.
    seen,         \* The events the client has received.
    connected,    \* The client reads.
    failed,       \* stream_error is set.
    usage,        \* Which of last_usage and input_usage are set.
    calls,        \* collected_tool_calls
    phase

vars == <<up, client, thinking, sent, whole, filter, conv, out, seen, connected,
          failed, usage, calls, phase>>
endpoints == <<up, client, thinking>>

Converts == up # client
\* thinking_pt_rewrite
Rewrites == ~Converts /\ thinking /\ up = OpenAiChat

TypeOK ==
    /\ up \in Endpoints /\ client \in Endpoints /\ thinking \in BOOLEAN
    /\ Len(sent) <= MaxEvents /\ whole \in {Len(sent), Len(sent) - 1}
    /\ filter.inside \in BOOLEAN /\ Len(filter.pending) < Len(OpenTag)
    /\ connected \in BOOLEAN /\ failed \in BOOLEAN
    /\ ~connected => out = <<>>
    /\ usage \subseteq {"last", "input"}
    /\ phase \in {"reading", "finishing", "done"}

NewConverter(endpoint) == CASE endpoint = Anthropic      -> NewAnthropic
                            [] endpoint = OpenAiResponse -> NewResponses
                            [] OTHER                     -> EmptyDelta

Init ==
    /\ up \in Endpoints /\ client \in Endpoints /\ thinking \in BOOLEAN
    /\ sent = <<>> /\ whole = 0
    /\ filter = NewFilter /\ conv = NewConverter(client)
    /\ out = <<>> /\ seen = <<>>
    /\ connected = TRUE /\ failed = FALSE
    /\ usage = {} /\ calls = <<>> /\ phase = "reading"

-------------------------------------------------------------------------------
(* The upstream: it keeps to its protocol, and may report an error at any    *)
(* time.                                                                     *)

Count(kind) == Cardinality({i \in DOMAIN sent : sent[i].kind = kind})
Ended == Count("finish") > 0

Begins == IF up = Anthropic THEN {Event("begin", <<>>, 0)} ELSE {}
Contents == {Event(kind, piece, 0) : kind \in {"text"}, piece \in Pieces}
            \cup {Event("reasoning", <<"x">>, 0)}
ToolStarts == {Event("toolStart", <<>>, k) : k \in 1 .. MaxCalls}
ToolArgs == {Event("toolArgs", <<>>, k) : k \in 1 .. MaxCalls}
Rest == {Event(kind, <<>>, 0) : kind \in {"finish", "usage", "error"}}

\* What the upstream may send next.  Anthropic opens with message_start and
\* finishes one block before the next; the pieces of parallel calls in a stream
\* of chat completions come in any order, and so do those of Responses, where a
\* call is known by its first piece.  Nothing new is said after a finish, but
\* it may be repeated, and usage comes as often as the upstream likes.
Follows(e) ==
    /\ Len(sent) < MaxEvents
    /\ e.kind = "error" => Count("error") < 2
    /\ e.kind = "begin" => sent = <<>>
    /\ up = Anthropic /\ sent = <<>> => e.kind \in {"begin", "error"}
    /\ up = Anthropic /\ e.kind \notin {"begin", "error"} => Count("begin") = 1
    /\ Ended => e.kind \in {"finish", "usage", "error"}
    /\ e.kind = "usage" => up = OpenAiChat
    /\ e.kind = "toolStart" => up # OpenAiResponse /\ e.call = Count("toolStart") + 1
    /\ e.kind = "toolArgs" =>
          CASE up = OpenAiChat -> e.call <= Count("toolStart")
            [] up = Anthropic  -> sent # <<>> /\ Last(sent).kind \in {"toolStart", "toolArgs"}
                                  /\ Last(sent).call = e.call
            [] OTHER -> \A k \in 1 .. e.call - 1 :
                           \E i \in DOMAIN sent : sent[i].kind = "toolArgs" /\ sent[i].call = k

UpstreamEvents == {e \in Begins \cup Contents \cup ToolStarts \cup ToolArgs \cup Rest : Follows(e)}

-------------------------------------------------------------------------------
(* What the loops do with an event.                                          *)

Convert(c, d) ==
    CASE client = Anthropic      -> ConvertAnthropic(c, d)
      [] client = OpenAiResponse -> ConvertResponses(c, d)
      [] OTHER                   -> Did(c, <<Message("chunk", 0, "none", d)>>)

\* format_stream_error_event
ErrorEvent == Message("error", 0, "none", <<>>)

\* Nothing can be sent to a client that has left.
Sent(events) == IF connected THEN events ELSE <<>>

\* The first error goes to the client instead of the event; later ones are
\* decoded like any event, which yields nothing.
FirstError(e) == IsError(e) /\ ~failed

\* Mutant: the text is converted before the filter sees it.
MutConvertEvent(e, observe) ==
    LET d    == Decode(up, e)
        seenBy == IF observe /\ thinking THEN ObserveDelta(filter, d)
                  ELSE [filter |-> filter, delta |-> d]
        step == Convert(conv, d)
    IN  IF FirstError(e) THEN /\ out' = Sent(<<ErrorEvent>>)
                              /\ UNCHANGED <<filter, conv, calls>>
        ELSE IF d = NoDelta THEN out' = <<>> /\ UNCHANGED <<filter, conv, calls>>
        ELSE /\ filter' = seenBy.filter
             /\ conv' = step.conv
             /\ out' = Sent(step.out)
             /\ calls' = IF observe THEN CollectConverted(calls, d) ELSE calls

\* The conversion loop: decode, collect, filter, convert, send.  The event left
\* in the buffer at the end is neither collected nor filtered.
ConvertEvent(e, observe) ==
    LET d    == Decode(up, e)
        seenBy == IF observe /\ thinking THEN ObserveDelta(filter, d)
                  ELSE [filter |-> filter, delta |-> d]
        step == Convert(conv, seenBy.delta)
    IN  IF FirstError(e) THEN /\ out' = Sent(<<ErrorEvent>>)
                              /\ UNCHANGED <<filter, conv, calls>>
        ELSE IF d = NoDelta THEN out' = <<>> /\ UNCHANGED <<filter, conv, calls>>
        ELSE /\ filter' = seenBy.filter
             /\ conv' = step.conv
             /\ out' = Sent(step.out)
             /\ calls' = IF observe THEN CollectConverted(calls, d) ELSE calls

\* rewrite_thinking_passthrough: what is no delta goes through as it is.
Rewritten(e) == IF Decode(up, e) = NoDelta THEN Message("raw", 0, "none", Decode(up, e))
                ELSE Message("chunk", 0, "none", ObserveDelta(filter, Decode(up, e)).delta)

\* The passthrough loop: collect and forward, an error like any other event.
PassEvent(e) ==
    /\ calls' = CollectCalls(up, calls, e)
    /\ out' = Sent(<<IF Rewrites THEN Rewritten(e) ELSE Message("raw", 0, "none", Decode(up, e))>>)
    /\ filter' = IF Rewrites THEN ObserveDelta(filter, Decode(up, e)).filter ELSE filter
    /\ UNCHANGED conv

\* The event left in the buffer is collected.
PassResidual(e) == calls' = CollectCalls(up, calls, e) /\ UNCHANGED <<filter, conv, out>>

Extracted(e) == /\ usage' = usage \cup UsageOf(up, e)
                /\ failed' = (failed \/ IsError(e))

\* An event of the upstream is handled.  A passthrough whose client has left
\* notices with this event, and reads no further.
HandleEvent(e) ==
    /\ phase = "reading" /\ out = <<>>
    /\ e \in UpstreamEvents
    /\ sent' = Append(sent, e) /\ whole' = Len(sent) + 1
    /\ Extracted(e)
    /\ IF Converts THEN ConvertEvent(e, TRUE) ELSE PassEvent(e)
    /\ phase' = IF Converts \/ connected THEN "reading" ELSE "finishing"
    /\ UNCHANGED <<endpoints, seen, connected>>

\* stream_send: the next event reaches the client.
Deliver ==
    /\ out # <<>>
    /\ seen' = Append(seen, Head(out)) /\ out' = Tail(out)
    /\ UNCHANGED <<endpoints, sent, whole, filter, conv, connected, failed, usage, calls, phase>>

\* Mutant: what is on its way is kept for a client that has left.
MutClientLeaves ==
    /\ connected /\ phase # "done"
    /\ connected' = FALSE
    /\ phase' = IF ~Converts /\ out # <<>> THEN "finishing" ELSE phase
    /\ UNCHANGED <<endpoints, sent, whole, filter, conv, out, seen, failed, usage, calls>>

\* The client leaves, with or without events on their way: what is left of them
\* is dropped.  A passthrough that is sending reads no further.
ClientLeaves ==
    /\ connected /\ phase # "done"
    /\ connected' = FALSE /\ out' = <<>>
    /\ phase' = IF ~Converts /\ out # <<>> THEN "finishing" ELSE phase
    /\ UNCHANGED <<endpoints, sent, whole, filter, conv, seen, failed, usage, calls>>

\* The upstream ends or breaks off after a blank line.
StreamEnds ==
    /\ phase = "reading" /\ out = <<>>
    /\ phase' = "finishing"
    /\ UNCHANGED <<endpoints, sent, whole, filter, conv, out, seen, connected, failed, usage, calls>>

\* The upstream ends with an event that no blank line follows: it is read from
\* the buffer, and a passthrough does not forward it.
StreamEndsWith(e) ==
    /\ phase = "reading" /\ out = <<>>
    /\ e \in UpstreamEvents
    /\ sent' = Append(sent, e)
    /\ Extracted(e)
    /\ IF Converts THEN ConvertEvent(e, FALSE) ELSE PassResidual(e)
    /\ phase' = "finishing"
    /\ UNCHANGED <<endpoints, whole, seen, connected>>

Finished(c) == CASE client = Anthropic      -> FinishAnthropic(c)
                 [] client = OpenAiResponse -> FinishResponses(c)
                 [] OTHER                   -> Did(c, <<>>)

\* converter.finish, and the end of the task.
Finish ==
    /\ phase = "finishing" /\ out = <<>>
    /\ phase' = "done"
    /\ IF Converts THEN /\ conv' = Finished(conv).conv
                        /\ out' = Sent(Finished(conv).out)
       ELSE UNCHANGED <<conv, out>>
    /\ UNCHANGED <<endpoints, sent, whole, filter, seen, connected, failed, usage, calls>>

Next ==
    \/ \E e \in UpstreamEvents : HandleEvent(e) \/ StreamEndsWith(e)
    \/ Deliver \/ ClientLeaves \/ StreamEnds \/ Finish

Spec == Init /\ [][Next]_vars

-------------------------------------------------------------------------------
(* Properties *)

\* What a client receives of a converted stream is what every client may rely
\* on: ClientStream, for any upstream and any moment the client leaves.
Promise == INSTANCE ClientStream

ClientPromise == Promise!Spec

\* All the text of some events of the upstream, all that the client received.
TextOf(events) == FlattenSeq([i \in DOMAIN events |-> IF events[i].kind = "text"
                                                      THEN events[i].piece ELSE <<>>])
ThoughtOf(events) == FlattenSeq([i \in DOMAIN events |-> IF events[i].kind = "reasoning"
                                                         THEN events[i].piece ELSE <<>>])
Received(sort) ==
    FlattenSeq([i \in DOMAIN seen |->
        IF seen[i].ev \in {"chunk", "raw"}
        THEN IF sort = "text" THEN seen[i].data.text ELSE seen[i].data.reasoning
        ELSE IF Promise!Role(seen[i]) = "delta" /\ seen[i].sort = sort
        THEN seen[i].data ELSE <<>>])

Filters == thinking /\ (Converts \/ Rewrites)
Residue == IF Converts THEN SubSeq(sent, whole + 1, Len(sent)) ELSE <<>>

\* A client that stays has all the text of the upstream, in order and once:
\* what strip_think takes out of it arrives as thinking, and only the letters
\* that may begin a tag are missing.  An event that the stream ends with in the
\* middle of its line is not filtered (stream_loop.rs:195-209).
TextArrives ==
    out = <<>> /\ connected =>
        LET text  == TextOf(SubSeq(sent, 1, whole))
            strip == IF Filters THEN strip_think(text)
                     ELSE [content |-> text, reasoning |-> <<>>]
            held  == Len(filter.pending)
            content == IF filter.inside THEN strip.content
                       ELSE SubSeq(strip.content, 1, Len(strip.content) - held)
            thoughts == Len(strip.reasoning) - (IF filter.inside THEN held ELSE 0)
                        + Len(ThoughtOf(SubSeq(sent, 1, whole) \o Residue))
        IN  /\ Received("text") = content \o TextOf(Residue)
            /\ Len(Received("thinking")) = thoughts

Has(role) == Cardinality({i \in DOMAIN seen : Promise!Role(seen[i]) = role})

\* A converted stream that is over has told a client that stayed so exactly
\* when the upstream had: one end for the first finish, however often usage or
\* another finish follows it, and one error for the first of the upstream's
\* errors (anthropic_converter.rs:346-380, openai_responses_converter.rs:512-530,
\* stream_loop.rs:81-100).
EndAndErrorOnce ==
    Converts /\ phase = "done" /\ out = <<>> /\ connected =>
        /\ client # OpenAiChat => Has("end") = Min({1, Count("finish")})
        /\ Has("error") = Min({1, Count("error")})

\* The calls the upstream made in events, in the order of their numbers.
CallsOf(events) ==
    LET About(k, kinds) == {i \in DOMAIN events : events[i].kind \in kinds /\ events[i].call = k}
        made == {k \in 1 .. MaxCalls : About(k, {"toolStart", "toolArgs"}) # {}}
    IN  [k \in 1 .. Cardinality(made) |->
            [id |-> k, args |-> [i \in 1 .. Cardinality(About(k, {"toolArgs"})) |-> k]]]

\* No call goes on after a later one has begun.
OneByOne(events) ==
    \A i, j \in DOMAIN events :
        i < j /\ events[i].kind \in {"toolStart", "toolArgs"} /\ events[j].kind = "toolArgs"
            => events[i].call <= events[j].call

\* Each call has all its arguments in one event.
InOnePiece(events) ==
    \A i, j \in DOMAIN events :
        i < j /\ events[i].kind = "toolArgs" /\ events[j].kind = "toolArgs"
            => events[i].call # events[j].call

\* When the conversion loop can tell calls apart: it takes a delta with an id
\* for a new call, and one without for a piece of the last.
ToldApart(events) == /\ up = OpenAiChat     => OneByOne(events)
                     /\ up = OpenAiResponse => InOnePiece(events)

\* The log has every tool call once, with all its arguments and no others.  When
\* chat completions or Responses are passed through, that is so whatever the
\* order the pieces of parallel calls arrive in.  When they are converted, it is
\* so for Anthropic, whose blocks come one after the other, for chat completions
\* that send one call after the other, and for Responses that send each call in
\* one event: other pieces are filed with the last call, or as calls of their
\* own (stream_loop.rs:118-147, sse/parsing.rs:55-130).
LoggedCallsComplete ==
    IF Converts THEN LET events == SubSeq(sent, 1, whole)
                     IN  ToldApart(events) => calls = CallsOf(events)
    ELSE up # Anthropic => calls = CallsOf(sent)

\* A client that is told that the message is over has been told so of each of
\* its blocks (anthropic_converter.rs:3-4).
BlocksAreStopped ==
    client = Anthropic /\ Converts /\ Has("end") > 0 => Has("open") = Has("close")
=============================================================================
