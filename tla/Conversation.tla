----------------------------- MODULE Conversation -----------------------------
(* A conversation of several turns between a client of one protocol and      *)
(* upstreams of any: what the router makes of each request                   *)
(* (protocol/inbound, protocol/outbound) and of each plain answer            *)
(* (relay/converter.rs). The client keeps the history and sends all of it    *)
(* every time; a retry sends it to another upstream.                         *)
EXTENDS Dialogue

CONSTANT MaxTurns    \* bound of the exploration: turns of the client

VARIABLES
    client,     \* the client's protocol
    tools,      \* does the client offer tools?
    turn        \* texts and results the client has added

talkVars == <<client, tools, history, turn, request>>

ConversationAssumption == MaxTurns \in Nat \ {0}

Protocols == {"chat", "anthropic", "responses"}

\* The elements of s at the places in K, in their order.
Chosen(s, K) ==
    LET kept[n \in 0 .. Len(s)] ==
            IF n = 0 THEN <<>>
            ELSE IF n \in K THEN Append(kept[n - 1], s[n]) ELSE kept[n - 1]
    IN  kept[Len(s)]

Text(t) == Part("text", t)
Texts(ts) == [i \in DOMAIN ts |-> Text(ts[i])]
Only(kinds, parts) == Chosen(parts, {i \in DOMAIN parts : parts[i].kind \in kinds})
EachMessage(F(_), messages) == [i \in DOMAIN messages |-> F(messages[i])]

-----------------------------------------------------------------------------
(* Inbound: from the client's notation to the common one.                    *)

FromChat(messages) ==
    LET Role(r) == IF r \in {"system", "assistant", "tool", "developer"} THEN r ELSE "user"
        Read(m) == [m EXCEPT !.role = Role(m.role), !.parts = Only({"text"}, m.parts)]
    IN  EachMessage(Read, messages)

\* Mutant: of a message that calls a tool only the call is read.
MutFromAnthropicCalls(messages) ==
    LET Calls(m) == \E i \in DOMAIN m.parts : m.parts[i].kind = "tool_use"
        Read(m) == [m EXCEPT !.parts = Only(IF Calls(m) THEN {"tool_use"}
                                            ELSE {"text", "tool_use", "tool_result"}, m.parts)]
    IN  EachMessage(Read, messages)

\* Mutant: calls are not read, their results are.
MutFromAnthropicResults(messages) ==
    LET Read(m) == [m EXCEPT !.parts = Only({"text", "tool_result"}, m.parts)]
    IN  EachMessage(Read, messages)

FromAnthropic(messages) ==
    LET Read(m) == [m EXCEPT !.role = IF m.role \in {"system", "assistant"} THEN m.role ELSE "user",
                             !.parts = Only({"text", "tool_use", "tool_result"}, m.parts)]
    IN  EachMessage(Read, messages)

\* Items without a role (calls, results, reasoning) are left out, and of the
\* parts those named "output_text", which is what this protocol calls the
\* assistant's.
FromResponses(messages) ==
    LET Role(r) == IF r \in {"system", "assistant"} THEN r ELSE "user"
        Read(m) == Message(Role(m.role), Only({"text"}, m.parts), <<>>, 0)
    IN  EachMessage(Read, Chosen(messages, {i \in DOMAIN messages : messages[i].role # "none"}))

FromClient(messages) ==
    CASE client = "chat"      -> FromChat(messages)
      [] client = "anthropic" -> FromAnthropic(messages)
      [] client = "responses" -> FromResponses(messages)

\* Tools of this protocol have their name beside their type; they are looked
\* for in an object "function" and not found.
OffersTools == tools /\ client # "responses"

-----------------------------------------------------------------------------
(* Outbound: from the common notation to the upstream's.                     *)

\* Parts that belong to another protocol are written as they are.
ToChat(messages) == messages

\* The first system message becomes the field "system", others are lost; what
\* calls or replies beside the parts is lost, and the text of a reply is the
\* user's.
ToAnthropic(messages) ==
    LET Systems == {i \in DOMAIN messages : messages[i].role = "system"}
        System == Chosen(messages, Systems)
        Rest == Chosen(messages, DOMAIN messages \ Systems)
        Write(m) == Message(IF m.role = "assistant" THEN "assistant" ELSE "user", m.parts, <<>>, 0)
    IN  (IF System = <<>> THEN <<>> ELSE <<Head(System)>>) \o EachMessage(Write, Rest)

ToResponses(messages) ==
    LET Role(r) == IF r \in {"system", "assistant"} THEN r ELSE "user"
        Write(m) == Message(Role(m.role), Only({"text"}, m.parts), <<>>, 0)
    IN  EachMessage(Write, messages)

ToUpstream(u, messages) ==
    CASE u = "chat"      -> ToChat(messages)
      [] u = "anthropic" -> ToAnthropic(messages)
      [] u = "responses" -> ToResponses(messages)

\* A request between two sides of one protocol is passed on as it is.
Prepared(u) ==
    IF u = client THEN [to |-> u, tools |-> tools, messages |-> history]
    ELSE [to |-> u, tools |-> OffersTools, messages |-> ToUpstream(u, FromClient(history))]

-----------------------------------------------------------------------------
(* Answers. What an upstream says is some texts, each an output item of its  *)
(* own under "responses", and some calls.                                    *)

ChatChoices(texts, calls) == <<[parts |-> Texts(texts), calls |-> calls]>>
Uses(calls) == [i \in DOMAIN calls |-> Part("tool_use", calls[i])]
AnthropicChoices(texts, calls) == <<[parts |-> Texts(texts) \o Uses(calls), calls |-> <<>>]>>
\* Every message is a choice of its own, and calls are not read.
ResponsesChoices(texts) == [i \in DOMAIN texts |-> [parts |-> <<Text(texts[i])>>, calls |-> <<>>]]

ChoicesOf(u, texts, calls) ==
    CASE u = "chat"      -> ChatChoices(texts, calls)
      [] u = "anthropic" -> AnthropicChoices(texts, calls)
      [] u = "responses" -> ResponsesChoices(texts)

Output(parts) == [i \in DOMAIN parts |-> Part("output_text", parts[i].of)]
Items(parts, calls) ==
    (IF parts = <<>> THEN <<>> ELSE <<Message("assistant", Output(parts), <<>>, 0)>>)
    \o [i \in DOMAIN calls |-> Message("none", <<>>, <<calls[i]>>, 0)]

\* A client takes the first choice. One of Chat Completions is given all of it.
ShownChat(choice) == <<Message("assistant", choice.parts, choice.calls, 0)>>
\* Calls beside the parts are not shown.
ShownAnthropic(choice) == <<Message("assistant", Only({"text", "tool_use"}, choice.parts), <<>>, 0)>>
\* Calls among the parts are not shown.
ShownResponses(choice) == Items(Only({"text"}, choice.parts), choice.calls)

Shown(choice) ==
    CASE client = "chat"      -> ShownChat(choice)
      [] client = "anthropic" -> ShownAnthropic(choice)
      [] client = "responses" -> ShownResponses(choice)

\* The native answer, when both sides have one protocol.
Native(texts, calls) ==
    IF client = "responses"
    THEN [i \in DOMAIN texts |-> Message("assistant", Output(<<Text(texts[i])>>), <<>>, 0)]
         \o Items(<<>>, calls)
    ELSE Shown(ChoicesOf(client, texts, calls)[1])

Finalized(u, texts, calls) ==
    LET choices == ChoicesOf(u, texts, calls)
    IN  IF u = client THEN Native(texts, calls)
        ELSE IF choices = <<>> THEN <<>> ELSE Shown(choices[1])

-----------------------------------------------------------------------------
(* The client and the upstreams around the router.                           *)

\* Calls the client can see in its own notation and has not answered.
Open == LET Seen == IF client = "anthropic" THEN CallsIn(history)
                    ELSE UNION {Beside(history[i]) : i \in DOMAIN history}
        IN  Seen \ RepliesIn(history)

\* System prompts: none, the protocol's own, and the developer's of Chat Completions.
Prompts(c) ==
    LET With(role) == <<Message(role, <<Text(<<"system", 0>>)>>, <<>>, 0)>>
    IN  {<<>>, With("system")} \cup (IF c = "anthropic" THEN {} ELSE {With("developer")})

Init ==
    /\ client \in Protocols
    /\ tools \in BOOLEAN
    /\ history \in Prompts(client)
    /\ turn = 0
    /\ request = Nothing

Say ==
    /\ request = Nothing /\ turn < MaxTurns /\ Open = {}
    /\ turn' = turn + 1
    /\ history' = Append(history, Message("user", <<Text(<<"user", turn + 1>>)>>, <<>>, 0))
    /\ UNCHANGED <<client, tools, request>>

\* The results of tools, each in the notation of the protocol; an Anthropic
\* client may say something in the same message.
Reply(id) ==
    LET result == <<"tool", id>>
    IN  CASE client = "chat"      -> {Message("tool", <<Text(result)>>, <<>>, id)}
          [] client = "responses" -> {Message("none", <<Text(result)>>, <<>>, id)}
          [] client = "anthropic" ->
               {Message("user", <<Part("tool_result", id)>> \o more, <<>>, 0) :
                    more \in {<<>>, <<Text(<<"user", turn + 1>>)>>}}

RunTool ==
    /\ request = Nothing /\ turn < MaxTurns
    /\ \E id \in Open : \E m \in Reply(id) : history' = Append(history, m)
    /\ turn' = turn + 1
    /\ UNCHANGED <<client, tools, request>>

\* To the first channel, or to the next after one that failed. The client has
\* replied to every call.
Send(u) ==
    /\ turn > 0 /\ Open = {} /\ history[Len(history)].role # "assistant"
    /\ u # request.to
    /\ request' = Prepared(u)
    /\ UNCHANGED <<client, tools, history, turn>>

\* A text or a call or both; calls only of tools that were offered. Under
\* Chat Completions an answer has one text.
Answers ==
    LET said == <<"assistant", turn>>
        more == <<"assistant", turn + MaxTurns>>
        texts == {<<>>, <<said>>} \cup (IF request.to = "chat" THEN {} ELSE {<<said, more>>})
        calls == {<<>>} \cup (IF request.tools THEN {<<turn>>} ELSE {})
    IN  (texts \X calls) \ {<< <<>>, <<>> >>}

Answered ==
    /\ request # Nothing
    /\ \E a \in Answers : history' = history \o Finalized(request.to, a[1], a[2])
    /\ request' = Nothing
    /\ UNCHANGED <<client, tools, turn>>

Next == Say \/ RunTool \/ (\E u \in Protocols : Send(u)) \/ Answered

Spec == Init /\ [][Next]_talkVars

-----------------------------------------------------------------------------
(* The history has every turn, and an upstream is sent only roles it knows   *)
(* (outbound/anthropic.rs:96-100, outbound/openai_responses.rs:19-24).       *)
TypeOK ==
    /\ client \in Protocols /\ tools \in BOOLEAN /\ turn \in 0 .. MaxTurns
    /\ request.to \in {client, "nobody", "chat"}
       \/ \A i \in DOMAIN request.messages :
             \/ request.messages[i].role \in {"user", "assistant"}
             \/ request.messages[i].role = "system" /\ i = 1
=============================================================================
