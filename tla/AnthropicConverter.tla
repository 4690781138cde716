--------------------------- MODULE AnthropicConverter ---------------------------
(* The stateful converter for clients that speak Anthropic's protocol        *)
(* (protocol/inbound/anthropic_converter.rs): deltas in, events out.  An     *)
(* operation gives the converter after it and the events it sends.           *)
EXTENDS StreamDecode, FiniteSets

Message(ev, index, sort, data) == [ev |-> ev, index |-> index, sort |-> sort, data |-> data]

Did(c, out) == [conv |-> c, out |-> out]

\* One operation after the other; the events of both.
Then(step, Op(_)) == LET next == Op(step.conv)
                     IN  Did(next.conv, step.out \o next.out)

\* The same for each element of a list.
ForEach(step, list, Op(_, _)) ==
    LET after[k \in 0 .. Len(list)] ==
            IF k = 0 THEN step ELSE Then(after[k - 1], LAMBDA c : Op(c, list[k]))
    IN  after[Len(list)]

\* open has the block sorts whose flag is set, tools the keys of tool_calls;
\* stopSeen says that last_event_type is content_block_stop.
NewAnthropic ==
    [started |-> FALSE, open |-> {}, finished |-> FALSE, stopped |-> FALSE,
     index |-> 0, toolIndex |-> 0, tools |-> {}, stopSeen |-> FALSE]

emit_message_start(c) ==
    IF c.started THEN Did(c, <<>>)
    ELSE Did([c EXCEPT !.started = TRUE], <<Message("message_start", 0, "none", <<>>)>>)

\* Mutant: the next block gets the index of the one that was closed.
MutCloseBlock(c, sort) ==
    IF sort \notin c.open THEN Did(c, <<>>)
    ELSE Did([c EXCEPT !.open = @ \ {sort}, !.stopSeen = TRUE],
                IF c.stopSeen THEN <<>>
                ELSE <<Message("content_block_stop", c.index, "none", <<>>)>>)

\* close_thinking_block, close_text_block, close_tool_block.  should_emit
\* compares with the last event it was asked about, and is asked about nothing
\* but stops: it lets the first of them through.
CloseBlock(c, sort) ==
    IF sort \notin c.open THEN Did(c, <<>>)
    ELSE Did([c EXCEPT !.open = @ \ {sort}, !.index = @ + 1, !.stopSeen = TRUE],
                IF c.stopSeen THEN <<>>
                ELSE <<Message("content_block_stop", c.index, "none", <<>>)>>)

\* A delta of text or thinking, in a block that is opened for it if need be.
BlockDelta(c, sort, data) ==
    Did([c EXCEPT !.open = @ \cup {sort}],
           (IF sort \in c.open THEN <<>>
            ELSE <<Message("content_block_start", c.index, sort, <<>>)>>)
           \o <<Message("content_block_delta", c.index, sort, data)>>)

handle_thinking(c, thinking) ==
    Then(Then(CloseBlock(c, "tool"), LAMBDA d : CloseBlock(d, "text")),
         LAMBDA d : BlockDelta(d, "thinking", thinking))

handle_text(c, text) ==
    Then(Then(CloseBlock(c, "thinking"), LAMBDA d : CloseBlock(d, "tool")),
         LAMBDA d : BlockDelta(d, "text", text))

ArgsDelta(c, args) ==
    IF args = <<>> THEN <<>> ELSE <<Message("content_block_delta", c.index, "tool", args)>>

\* A call is looked up under the number of calls so far, whatever the delta's
\* id and index: each delta opens a block of its own.
ToolDeltaStep(c, t) ==
    IF c.toolIndex \in c.tools THEN Did(c, ArgsDelta(c, t.args))
    ELSE Then(CloseBlock(c, "tool"),
              LAMBDA d : Did([d EXCEPT !.open = @ \cup {"tool"}, !.tools = @ \cup {d.toolIndex},
                                          !.toolIndex = @ + 1],
                                <<Message("content_block_start", d.index, "tool", <<t.id>>)>>
                                \o ArgsDelta(d, t.args)))

handle_tool_calls(c, tools) ==
    ForEach(Then(CloseBlock(c, "thinking"), LAMBDA d : CloseBlock(d, "text")), tools,
            ToolDeltaStep)

CloseContent(c) == IF "tool" \in c.open THEN CloseBlock(c, "tool") ELSE CloseBlock(c, "text")

handle_finish(c) ==
    IF c.finished THEN Did(c, <<>>)
    ELSE Then(Then(CloseBlock([c EXCEPT !.finished = TRUE], "thinking"), CloseContent),
              LAMBDA d : Did([d EXCEPT !.stopped = TRUE],
                                IF d.stopped THEN <<>>
                                ELSE <<Message("message_delta", 0, "none", <<>>),
                                       Message("message_stop", 0, "none", <<>>)>>))

\* The parts of a delta, in the order convert takes them.
When(condition, step, Op(_)) == IF condition THEN Then(step, Op) ELSE step

ConvertAnthropic(c, d) ==
    LET s1 == emit_message_start(c)
        s2 == When(d.choice /\ d.reasoning # <<>>, s1, LAMBDA x : handle_thinking(x, d.reasoning))
        s3 == When(d.choice /\ d.text # <<>>, s2, LAMBDA x : handle_text(x, d.text))
        s4 == When(d.choice /\ d.tools # <<>>, s3, LAMBDA x : handle_tool_calls(x, d.tools))
        s5 == When(d.choice /\ d.finish, s4, handle_finish)
    IN  When(d.usage /\ s5.conv.finished /\ ~s5.conv.stopped, s5, handle_finish)

\* finish: nothing, whether or not the message was stopped.
FinishAnthropic(c) == Did(c, <<>>)
=============================================================================
