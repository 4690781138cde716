------------------------------- MODULE Transcript ------------------------------
(* What is said in a Conversation: the texts of its speakers in order, which  *)
(* every upstream and every later turn is to read.                            *)
EXTENDS Conversation, SequencesExt

\* The texts of some speakers, in the order of the messages.
Said(messages, who) ==
    LET Spoken(m) == SelectSeq(Only({"text", "output_text"}, m.parts), LAMBDA p : p.of[1] \in who)
        OfOne(m) == [i \in DOMAIN Spoken(m) |-> Spoken(m)[i].of]
    IN  FlattenSeq(EachMessage(OfOne, messages))

(* Whatever upstream a turn goes to, and whichever answered the turns before *)
(* it, the upstream reads what was said: once, in order, and the assistant's *)
(* words as the assistant's and nobody else's. (A client of Responses is the *)
(* exception AnswersComeBack shows.) Holds over the six pairs of inbound     *)
(* and outbound, and what the one made of earlier answers.                   *)
TextsArrive ==
    request # Nothing =>
        LET lost == IF client = "responses" /\ request.to # client THEN {"assistant"} ELSE {}
            who == {"system", "user", "assistant"} \ lost
        IN  /\ Said(request.messages, who) = Said(history, who)
            /\ \A i \in DOMAIN request.messages :
                  LET m == request.messages[i]
                  IN  \A p \in ToSet(Only({"text", "output_text"}, m.parts)) :
                        (p.of[1] = "assistant") <=> (m.role = "assistant")

(* What the assistant has said and the client sends back is part of the next *)
(* request, for every client (inbound/openai_responses.rs:75-79).            *)
AnswersComeBack ==
    request # Nothing => Said(request.messages, {"assistant"}) = Said(history, {"assistant"})
=============================================================================
