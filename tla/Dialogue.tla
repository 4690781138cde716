------------------------------- MODULE Dialogue -------------------------------
(* What clients and upstreams say to each other: the messages of a client,   *)
(* the request made of them, and which tool calls they make and answer. How  *)
(* the router translates them is in Conversation.                            *)
(*                                                                           *)
(* A message is a record of its role, its parts, the ids of the tool calls   *)
(* it makes beside its parts, and the id of the call it replies to (0 for    *)
(* none). A text is the pair of its speaker and its turn. Images, audio,     *)
(* reasoning and the numeric options of a request are left out: they are     *)
(* copied or dropped field by field and decide nothing.                      *)
EXTENDS Integers, Sequences

VARIABLES
    history,    \* the messages of the client, in its own notation
    request     \* what the last upstream was sent, Nothing before

Nothing == [to |-> "nobody", tools |-> FALSE, messages |-> <<>>]

Part(kind, of) == [kind |-> kind, of |-> of]
Message(role, parts, calls, reply) ==
    [role |-> role, parts |-> parts, calls |-> calls, reply |-> reply]

\* The calls a message makes, beside its parts and among them, and the calls
\* it has the results of.
Beside(m) == {m.calls[i] : i \in DOMAIN m.calls}
Among(m, kind) == {m.parts[i].of : i \in {k \in DOMAIN m.parts : m.parts[k].kind = kind}}
CallsOf(m) == Beside(m) \cup Among(m, "tool_use")
RepliesOf(m) == ({m.reply} \ {0}) \cup Among(m, "tool_result")
CallsIn(messages) == UNION {CallsOf(messages[i]) : i \in DOMAIN messages}
RepliesIn(messages) == UNION {RepliesOf(messages[i]) : i \in DOMAIN messages}

(* No upstream is sent the result of a call it cannot find earlier in the    *)
(* same request; upstreams refuse such requests (inbound/anthropic.rs:121,   *)
(* outbound/openai_chat.rs:31-45).                                           *)
ResultsFollowCalls ==
    \A i \in DOMAIN request.messages :
        RepliesOf(request.messages[i]) \subseteq CallsIn(SubSeq(request.messages, 1, i - 1))
=============================================================================
