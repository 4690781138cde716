------------------------------ MODULE ClientStream ------------------------------
(* What a client may rely on when it reads a converted stream, whichever     *)
(* protocol it speaks: the stream is started once, items are numbered in the *)
(* order they are opened, text and thinking arrive in the newest item and    *)
(* never in one that is closed, and nothing but an error follows the end.    *)
(*                                                                           *)
(* Two things that a strict client expects are not promised, because the     *)
(* converters do not do them: that every item is closed, and that the        *)
(* arguments of a tool call arrive in an item of that call that is open.     *)
EXTENDS Integers, Sequences, SequencesExt, FiniteSets

VARIABLE seen       \* The events the client has received.

Role(e) ==
    CASE e.ev \in {"message_start", "response.created"} -> "start"
      [] e.ev \in {"content_block_start", "response.output_item.added"} -> "open"
      [] e.ev \in {"content_block_delta", "response.output_text.delta",
                   "response.reasoning.delta",
                   "response.function_call_arguments.delta"} -> "delta"
      [] e.ev \in {"content_block_stop", "response.output_item.done"} -> "close"
      [] e.ev \in {"message_stop", "response.completed"} -> "end"
      [] e.ev = "error" -> "error"
      [] OTHER -> "detail"

Had(role) == {i \in DOMAIN seen : Role(seen[i]) = role}

Items == Cardinality(Had("open"))
IsOpenedAs(index, sort) ==
    \E i \in Had("open") : seen[i].index = index /\ seen[i].sort = sort
IsClosed(index) == \E i \in Had("close") : seen[i].index = index

Legal(e) ==
    LET role == Role(e) IN
    /\ role # "error" => Had("end") = {}
    /\ role = "start" => Had("start") = {}
    /\ role \in {"open", "delta", "close", "end"} => Had("start") # {}
    /\ role = "open" => e.index = Items
    /\ role = "delta" => IsOpenedAs(e.index, e.sort)
    /\ role = "delta" /\ e.sort # "tool" => e.index = Items - 1 /\ ~IsClosed(e.index)
    /\ role = "close" => e.index < Items /\ ~IsClosed(e.index)

Init == seen = <<>>

\* One more event arrives.
Arrive ==
    /\ Len(seen') = Len(seen) + 1
    /\ IsPrefix(seen, seen')
    /\ Legal(Last(seen'))

Spec == Init /\ [][Arrive]_seen
=============================================================================
