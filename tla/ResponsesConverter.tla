--------------------------- MODULE ResponsesConverter ---------------------------
(* The stateful converter for clients that speak the Responses protocol      *)
(* (protocol/inbound/openai_responses_converter.rs).  Message, Did, Then and *)
(* When are those of the other converter; the index of a message is its      *)
(* output_index.  The texts that .done events repeat are left out.           *)
EXTENDS AnthropicConverter

\* The flags of the converter; output is output_index, tools are the entries of
\* the map tool_calls.
NewResponses ==
    [created |-> FALSE, message |-> FALSE, reasoning |-> FALSE, summaryPart |-> FALSE,
     contentPart |-> FALSE, finished |-> FALSE, completed |-> FALSE,
     output |-> 0, tools |-> <<>>]

ensure_response_created(c) ==
    IF c.created THEN Did(c, <<>>)
    ELSE Did([c EXCEPT !.created = TRUE],
             <<Message("response.created", 0, "none", <<>>),
               Message("response.in_progress", 0, "none", <<>>)>>)

close_current_content_part(c) ==
    IF ~c.contentPart THEN Did(c, <<>>)
    ELSE Did([c EXCEPT !.contentPart = FALSE],
             <<Message("response.output_text.done", c.output, "text", <<>>),
               Message("response.content_part.done", c.output, "text", <<>>)>>)

close_message_item(c) ==
    IF ~c.message THEN Did(c, <<>>)
    ELSE Then(close_current_content_part([c EXCEPT !.message = FALSE]),
              LAMBDA d : Did([d EXCEPT !.output = @ + 1],
                             <<Message("response.output_item.done", d.output, "text", <<>>)>>))

close_reasoning_item(c) ==
    IF ~c.reasoning THEN Did(c, <<>>)
    ELSE Did([c EXCEPT !.reasoning = FALSE, !.summaryPart = FALSE, !.output = @ + 1],
             (IF ~c.summaryPart THEN <<>>
              ELSE <<Message("response.reasoning_summary_text.done", c.output, "thinking", <<>>),
                     Message("response.reasoning_summary_part.done", c.output, "thinking", <<>>)>>)
             \o <<Message("response.output_item.done", c.output, "thinking", <<>>)>>)

\* The calls still open are closed, here in the order of their items; the map
\* has them in any order.
CloseTool(c, k) ==
    LET t == c.tools[k]
    IN  Did([c EXCEPT !.tools[k].started = FALSE],
            IF ~t.started THEN <<>>
            ELSE <<Message("response.function_call_arguments.done", t.output, "tool", <<t.id>>),
                   Message("response.output_item.done", t.output, "tool", <<t.id>>)>>)

CloseTools(c) == ForEach(Did(c, <<>>), [k \in DOMAIN c.tools |-> k], CloseTool)

close_current_output_item(c) ==
    Then(Then(close_message_item(c), close_reasoning_item), CloseTools)

ensure_reasoning_item_started(c) ==
    IF c.reasoning THEN Did(c, <<>>)
    ELSE Then(close_current_output_item(c),
              LAMBDA d : Did([d EXCEPT !.reasoning = TRUE, !.summaryPart = FALSE],
                             <<Message("response.output_item.added", d.output, "thinking", <<>>)>>))

handle_reasoning_content(c, reasoning) ==
    Then(ensure_reasoning_item_started(c),
         LAMBDA d : Did([d EXCEPT !.summaryPart = TRUE],
                        (IF d.summaryPart THEN <<>>
                         ELSE <<Message("response.reasoning_summary_part.added", d.output, "thinking", <<>>)>>)
                        \o <<Message("response.reasoning.delta", d.output, "thinking", reasoning)>>))

handle_text_content(c, text) ==
    Then(close_reasoning_item(c),
         LAMBDA d : Did([d EXCEPT !.message = TRUE, !.contentPart = TRUE],
                        (IF d.message THEN <<>>
                         ELSE <<Message("response.output_item.added", d.output, "text", <<>>)>>)
                        \o (IF d.contentPart THEN <<>>
                            ELSE <<Message("response.content_part.added", d.output, "text", <<>>)>>)
                        \o <<Message("response.output_text.delta", d.output, "text", text)>>))

\* A delta with an id is a call of its own, under the size of the map; one
\* without goes to the first call.  The key k of the map is tools[k + 1].
CallStep(c, t) ==
    LET key == IF t.id = NoId THEN 1 ELSE Len(c.tools) + 1
        opened == IF key \in DOMAIN c.tools THEN Did(c, <<>>)
                  ELSE Then(close_current_content_part(c),
                            LAMBDA d : Did([d EXCEPT !.tools = Append(@, [id |-> t.id, output |-> d.output, started |-> TRUE]),
                                                     !.output = @ + 1],
                                           <<Message("response.output_item.added", d.output, "tool", <<t.id>>)>>))
    IN  Then(opened,
             LAMBDA d : Did(d, IF t.args = <<>> THEN <<>>
                               ELSE <<Message("response.function_call_arguments.delta",
                                              d.tools[key].output, "tool", t.args)>>))

HandleCalls(c, tools) ==
    ForEach(Then(close_message_item(c), close_reasoning_item), tools, CallStep)

Completed(c) == Did([c EXCEPT !.completed = TRUE],
                    IF c.completed THEN <<>>
                    ELSE <<Message("response.completed", 0, "none", <<>>)>>)

HandleFinish(c) ==
    IF c.finished THEN Did(c, <<>>)
    ELSE Then(close_current_output_item([c EXCEPT !.finished = TRUE]), Completed)

\* Mutant: usage that comes with the end completes the response once more.
MutConvertResponses(c, d) ==
    LET s1 == ensure_response_created(c)
        s2 == When(d.choice /\ d.reasoning # <<>>, s1, LAMBDA x : handle_reasoning_content(x, d.reasoning))
        s3 == When(d.choice /\ d.text # <<>>, s2, LAMBDA x : handle_text_content(x, d.text))
        s4 == When(d.choice /\ d.tools # <<>>, s3, LAMBDA x : HandleCalls(x, d.tools))
        s5 == When(d.choice /\ d.finish, s4, HandleFinish)
    IN  When(d.usage /\ s5.conv.finished, s5,
             LAMBDA x : Did(x, <<Message("response.completed", 0, "none", <<>>)>>))

ConvertResponses(c, d) ==
    LET s1 == ensure_response_created(c)
        s2 == When(d.choice /\ d.reasoning # <<>>, s1, LAMBDA x : handle_reasoning_content(x, d.reasoning))
        s3 == When(d.choice /\ d.text # <<>>, s2, LAMBDA x : handle_text_content(x, d.text))
        s4 == When(d.choice /\ d.tools # <<>>, s3, LAMBDA x : HandleCalls(x, d.tools))
        s5 == When(d.choice /\ d.finish, s4, HandleFinish)
    IN  When(d.usage /\ s5.conv.finished /\ ~s5.conv.completed, s5, HandleFinish)

\* finish: completes a response that has finished and was not completed.
FinishResponses(c) == IF c.finished /\ ~c.completed THEN Completed(c) ELSE Did(c, <<>>)
=============================================================================
