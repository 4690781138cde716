---------------------------- MODULE StreamLoopProofs ----------------------------
(***************************************************************************)
(* Machine-checked proofs about StreamLoop, for any texts, any number of   *)
(* events and of tool calls: what a client is sent implements ClientStream,*)
(* it is told of the end and of an error exactly once, and the log has the *)
(* upstream's tool calls.                                                  *)
(*                                                                         *)
(* What a client may be sent next depends on a few counts and sets of what *)
(* it has received, View.  A list of events Leads from one view to another *)
(* when each of its events is allowed where it stands.  FitsA and FitsR    *)
(* relate the state of a converter to the view of a client that has all of *)
(* its events; each operation of a converter leads from a view that fits   *)
(* to one that fits again.  The loop keeps what is received and what is on *)
(* its way together allowed, so that a client may leave at any point.      *)
(*                                                                         *)
(* For the log, Numbered says how an upstream numbers its calls, NextCall  *)
(* what one more event makes of them, and each way of collecting is shown  *)
(* to do just that.                                                        *)
(***************************************************************************)
EXTENDS StreamLoop, SequenceTheorems, FiniteSetTheorems, WellFoundedInduction, TLAPS

-----------------------------------------------------------------------------
(* What the client may rely on, in terms of what it has received.          *)

IsSeq(s) == \E S : s \in Seq(S)

\* Where the events of a role are (ClientStream!Had, of any list).
At(s, role) == {i \in DOMAIN s : Promise!Role(s[i]) = role}

\* What a client may rely on depends on this much of what it has received.
View(s) ==
    [start  |-> Cardinality(At(s, "start")),
     ends   |-> Cardinality(At(s, "end")),
     opens  |-> Cardinality(At(s, "open")),
     errors |-> Cardinality(At(s, "error")),
     opened |-> {<<s[i].index, s[i].sort>> : i \in At(s, "open")},
     shut   |-> {s[i].index : i \in At(s, "close")}]

\* ClientStream!Legal, of a view.
Allowed(v, e) ==
    LET role == Promise!Role(e) IN
    /\ role # "error" => v.ends = 0
    /\ role = "start" => v.start = 0
    /\ role \in {"open", "delta", "close", "end"} => v.start # 0
    /\ role = "open" => e.index = v.opens
    /\ role = "delta" => <<e.index, e.sort>> \in v.opened
    /\ role = "delta" /\ e.sort # "tool" => e.index = v.opens - 1 /\ e.index \notin v.shut
    /\ role = "close" => e.index < v.opens /\ e.index \notin v.shut

\* The instance has a Cardinality of its own.
LEMMA SameCardinality ==
    ASSUME NEW S
    PROVE  Promise!Cardinality(S) = Cardinality(S)
  BY DEF Promise!Cardinality, Cardinality

LEMMA AllowedIsLegal ==
    ASSUME IsSeq(seen), NEW e, Allowed(View(seen), e)
    PROVE  Promise!Legal(e)
<1> DEFINE role == Promise!Role(e)
           v == View(seen)
<1>1. /\ IsFiniteSet(At(seen, "start")) /\ IsFiniteSet(At(seen, "end"))
  <2>1. Len(seen) \in Nat /\ DOMAIN seen = 1 .. Len(seen)
    BY DEF IsSeq
  <2>2. IsFiniteSet(DOMAIN seen)
    BY <2>1, FS_Interval
  <2>3. QED
    BY <2>2, FS_Subset DEF At
<1>2. /\ (v.ends = 0 <=> At(seen, "end") = {})
      /\ (v.start = 0 <=> At(seen, "start") = {})
  BY <1>1, FS_EmptySet DEF View
<1>3. At(seen, "start") = Promise!Had("start") /\ At(seen, "end") = Promise!Had("end")
      /\ At(seen, "open") = Promise!Had("open") /\ At(seen, "close") = Promise!Had("close")
  BY Zenon DEF At, Promise!Had
<1>4. v.opens = Promise!Items
  BY <1>3, SameCardinality DEF View, Promise!Items
<1>5. \A index, sort : <<index, sort>> \in v.opened <=> Promise!IsOpenedAs(index, sort)
  BY <1>3 DEF View, Promise!IsOpenedAs
<1>6. \A index : index \in v.shut <=> Promise!IsClosed(index)
  BY <1>3 DEF View, Promise!IsClosed
<1>7. QED
  <2> HIDE DEF v
  <2>1. Allowed(v, e)
    BY DEF v
  <2>2. QED
    BY <2>1, <1>2, <1>3, <1>4, <1>5, <1>6 DEF Allowed, Promise!Legal

\* One more event: only the entry of its role changes.
Starting(v) == [v EXCEPT !.start = @ + 1]
Ending(v)   == [v EXCEPT !.ends = @ + 1]
Failing(v)  == [v EXCEPT !.errors = @ + 1]
Opening(v, i, sort) == [v EXCEPT !.opens = @ + 1, !.opened = @ \cup {<<i, sort>>}]
Closing(v, i) == [v EXCEPT !.shut = @ \cup {i}]

After1(v, e) ==
    LET role == Promise!Role(e) IN
    CASE role = "start" -> Starting(v)
      [] role = "end"   -> Ending(v)
      [] role = "open"  -> Opening(v, e.index, e.sort)
      [] role = "error" -> Failing(v)
      [] role = "close" -> Closing(v, e.index)
      [] OTHER          -> v

LEMMA Roles ==
    ASSUME NEW e
    PROVE  Promise!Role(e) \in {"start", "open", "delta", "close", "end", "error", "detail"}
  BY DEF Promise!Role

LEMMA ViewGrows ==
    ASSUME NEW s, IsSeq(s), NEW e
    PROVE  View(Append(s, e)) = After1(View(s), e)
<1> DEFINE t == Append(s, e)
           n == Len(s) + 1
<1>1. /\ Len(s) \in Nat /\ DOMAIN s = 1 .. Len(s)
      /\ DOMAIN t = 1 .. n /\ t[n] = e
      /\ \A i \in 1 .. Len(s) : t[i] = s[i]
  BY DEF IsSeq
<1>2. \A i \in DOMAIN s : i # n
  BY <1>1
<1>3. DOMAIN t = DOMAIN s \cup {n}
  BY <1>1
<1>4. \A i \in DOMAIN s : t[i] = s[i]
  BY <1>1
<1> HIDE DEF t, n
<1>5. IsFiniteSet(DOMAIN s)
  BY <1>1, FS_Interval
<1>6. ASSUME NEW role
      PROVE  At(t, role) = IF Promise!Role(e) = role THEN At(s, role) \cup {n} ELSE At(s, role)
  BY <1>1, <1>2, <1>3, <1>4 DEF At
<1>7. ASSUME NEW role
      PROVE  /\ IsFiniteSet(At(s, role)) /\ n \notin At(s, role)
             /\ Cardinality(At(s, role)) \in Nat
  BY <1>2, <1>5, FS_Subset, FS_CardinalityType DEF At
<1>8. ASSUME NEW role
      PROVE  Cardinality(At(t, role)) = IF Promise!Role(e) = role
                                        THEN Cardinality(At(s, role)) + 1
                                        ELSE Cardinality(At(s, role))
  BY <1>6, <1>7, FS_AddElement
<1>9. {<<t[i].index, t[i].sort>> : i \in At(t, "open")}
      = {<<s[i].index, s[i].sort>> : i \in At(s, "open")}
        \cup (IF Promise!Role(e) = "open" THEN {<<e.index, e.sort>>} ELSE {})
  <2>1. \A i \in At(s, "open") : t[i] = s[i]
    BY <1>4 DEF At
  <2>2. QED
    BY <2>1, <1>1, <1>6
<1>10. {t[i].index : i \in At(t, "close")}
      = {s[i].index : i \in At(s, "close")}
        \cup (IF Promise!Role(e) = "close" THEN {e.index} ELSE {})
  <2>1. \A i \in At(s, "close") : t[i] = s[i]
    BY <1>4 DEF At
  <2>2. QED
    BY <2>1, <1>1, <1>6
<1>11. QED
  BY <1>8, <1>9, <1>10
     DEF View, After1, Starting, Ending, Failing, Opening, Closing, t

\* Each event of s may follow those before it.
Good(s) == \A k \in DOMAIN s : Allowed(View(SubSeq(s, 1, k - 1)), s[k])

\* Some events, o, may follow whatever has the view v, which is w after them.
Leads(v, o, w) ==
    /\ IsSeq(o)
    /\ \A s : IsSeq(s) /\ Good(s) /\ View(s) = v => Good(s \o o) /\ View(s \o o) = w

LEMMA SeqConcat ==
    ASSUME NEW s, NEW t, IsSeq(s), IsSeq(t)
    PROVE  /\ IsSeq(s \o t)
           /\ Len(s) \in Nat /\ Len(t) \in Nat
           /\ Len(s \o t) = Len(s) + Len(t)
           /\ DOMAIN s = 1 .. Len(s) /\ DOMAIN (s \o t) = 1 .. Len(s \o t)
           /\ \A i \in 1 .. Len(s) : (s \o t)[i] = s[i]
           /\ \A i \in 1 .. Len(t) : (s \o t)[Len(s) + i] = t[i]
<1>1. PICK S, T : s \in Seq(S) /\ t \in Seq(T)
  BY DEF IsSeq
<1>2. s \in Seq(S \cup T) /\ t \in Seq(S \cup T)
  BY <1>1
<1>3. QED
  BY <1>2 DEF IsSeq

LEMMA SeqAssociates ==
    ASSUME NEW s, NEW t, NEW u, IsSeq(s), IsSeq(t), IsSeq(u)
    PROVE  (s \o t) \o u = s \o (t \o u)
<1>1. PICK S, T, U : s \in Seq(S) /\ t \in Seq(T) /\ u \in Seq(U)
  BY DEF IsSeq
<1> DEFINE A == S \cup T \cup U
<1>2. s \in Seq(A) /\ t \in Seq(A) /\ u \in Seq(A)
  BY <1>1
<1>3. QED
  BY <1>2

LEMMA SeqOne ==
    ASSUME NEW s, IsSeq(s), NEW e
    PROVE  IsSeq(<<e>>) /\ s \o <<e>> = Append(s, e) /\ IsSeq(<<>>) /\ s \o <<>> = s
<1>1. PICK S : s \in Seq(S)
  BY DEF IsSeq
<1>2. s \in Seq(S \cup {e}) /\ e \in S \cup {e}
  BY <1>1
<1>3. <<e>> \in Seq({e}) /\ <<>> \in Seq({e})
  OBVIOUS
<1>4. QED
  BY <1>2, <1>3 DEF IsSeq

LEMMA GoodGrows ==
    ASSUME NEW s, IsSeq(s), Good(s), NEW e, Allowed(View(s), e)
    PROVE  Good(Append(s, e))
<1> DEFINE t == Append(s, e)
<1>1. PICK S : s \in Seq(S) /\ e \in S
  <2>1. PICK S : s \in Seq(S)
    BY DEF IsSeq
  <2>2. s \in Seq(S \cup {e}) /\ e \in S \cup {e}
    BY <2>1
  <2>3. QED
    BY <2>2
<1>2. SUFFICES ASSUME NEW k \in DOMAIN t
               PROVE  Allowed(View(SubSeq(t, 1, k - 1)), t[k])
  BY DEF Good
<1>3. CASE k = Len(s) + 1
  <2>1. t[k] = e /\ SubSeq(t, 1, k - 1) = s
    BY <1>1, <1>3
  <2>2. QED
    BY <2>1
<1>4. CASE k # Len(s) + 1
  <2>1. k \in DOMAIN s /\ t[k] = s[k] /\ SubSeq(t, 1, k - 1) = SubSeq(s, 1, k - 1)
    BY <1>1, <1>4
  <2>2. QED
    BY <2>1 DEF Good
<1>5. QED
  BY <1>3, <1>4

LEMMA GoodPrefix ==
    ASSUME NEW s, NEW t, IsSeq(s), IsSeq(t), Good(s \o t)
    PROVE  /\ Good(s)
           /\ t # <<>> => Allowed(View(s), Head(t))
<1>1. PICK S : s \in Seq(S) /\ t \in Seq(S)
  <2>1. PICK S, T : s \in Seq(S) /\ t \in Seq(T)
    BY DEF IsSeq
  <2>2. s \in Seq(S \cup T) /\ t \in Seq(S \cup T)
    BY <2>1
  <2>3. QED
    BY <2>2
<1>2. ASSUME NEW k \in DOMAIN s
      PROVE  Allowed(View(SubSeq(s, 1, k - 1)), s[k])
  <2>1. /\ k \in DOMAIN (s \o t) /\ (s \o t)[k] = s[k]
        /\ SubSeq(s \o t, 1, k - 1) = SubSeq(s, 1, k - 1)
    BY <1>1
  <2>2. QED
    BY <2>1 DEF Good
<1>3. ASSUME t # <<>>
      PROVE  Allowed(View(s), Head(t))
  <2> DEFINE k == Len(s) + 1
  <2>1. Len(t) \in Nat /\ Len(t) # 0 /\ Head(t) = t[1]
    BY <1>1, <1>3
  <2>2. /\ k \in DOMAIN (s \o t) /\ (s \o t)[k] = Head(t)
        /\ SubSeq(s \o t, 1, k - 1) = s
    BY <1>1, <2>1
  <2>3. QED
    BY <2>2 DEF Good
<1>4. QED
  BY <1>2, <1>3 DEF Good

LEMMA LeadsNowhere ==
    ASSUME NEW v
    PROVE  Leads(v, <<>>, v)
<1>1. IsSeq(<<>>)
  BY <<>> \in Seq({}) DEF IsSeq
<1>2. \A s : IsSeq(s) => s \o <<>> = s
  BY SeqOne
<1>3. QED
  BY <1>1, <1>2, Zenon DEF Leads

LEMMA LeadsOne ==
    ASSUME NEW v, NEW e, Allowed(v, e), NEW w, w = After1(v, e)
    PROVE  Leads(v, <<e>>, w)
<1>1. IsSeq(<<e>>)
  BY <<e>> \in Seq({e}) DEF IsSeq
<1>2. ASSUME NEW s, IsSeq(s), Good(s), View(s) = v
      PROVE  Good(s \o <<e>>) /\ View(s \o <<e>>) = w
  <2>1. s \o <<e>> = Append(s, e)
    BY <1>2, SeqOne
  <2>2. Good(Append(s, e)) /\ View(Append(s, e)) = w
    BY <1>2, ViewGrows, GoodGrows, Zenon
  <2>3. QED
    BY <2>1, <2>2, Zenon
<1>3. QED
  BY <1>1, <1>2, Zenon DEF Leads

LEMMA LeadsThen ==
    ASSUME NEW v, NEW w, NEW x, NEW a, NEW b, Leads(v, a, w), Leads(w, b, x)
    PROVE  Leads(v, a \o b, x)
<1>1. IsSeq(a) /\ IsSeq(b) /\ IsSeq(a \o b)
  BY SeqConcat DEF Leads
<1>2. ASSUME NEW s, IsSeq(s), Good(s), View(s) = v
      PROVE  Good(s \o (a \o b)) /\ View(s \o (a \o b)) = x
  <2>1. IsSeq(s \o a) /\ Good(s \o a) /\ View(s \o a) = w
    BY <1>1, <1>2, SeqConcat DEF Leads
  <2>2. Good((s \o a) \o b) /\ View((s \o a) \o b) = x
    BY <2>1 DEF Leads
  <2>3. QED
    <3>1. (s \o a) \o b = s \o (a \o b)
      BY <1>1, <1>2, SeqAssociates
    <3>2. QED
      BY <2>2, <3>1, Zenon
<1>3. QED
  BY <1>1, <1>2 DEF Leads

LEMMA LeadsTwo ==
    ASSUME NEW v, NEW w, NEW x, NEW a, NEW b, Leads(v, <<a>>, w), Leads(w, <<b>>, x)
    PROVE  Leads(v, <<a, b>>, x)
<1>1. <<a, b>> = <<a>> \o <<b>>
  <2>1. <<a, b>> \in Seq({a, b}) /\ <<a>> \in Seq({a, b}) /\ <<b>> \in Seq({a, b})
    OBVIOUS
  <2> DEFINE p == <<a, b>>
             q == <<a>> \o <<b>>
  <2>2. q \in Seq({a, b}) /\ Len(q) = 2 /\ Len(p) = 2
    BY <2>1
  <2>3. p[1] = q[1] /\ p[2] = q[2]
    BY <2>1
  <2>4. \A i \in 1 .. 2 : p[i] = q[i]
    BY <2>3
  <2>5. QED
    BY <2>1, <2>2, <2>4, SeqEqual
<1>2. QED
  BY <1>1, LeadsThen

-----------------------------------------------------------------------------
(* What each kind of message does.                                         *)

Sorts == {"thinking", "text", "tool"}

Views == [start : Nat, ends : Nat, opens : Nat, errors : Nat,
          opened : SUBSET (Nat \X Sorts), shut : SUBSET Nat]

LEMMA LeadsStart ==
    ASSUME NEW v, v.ends = 0, v.start = 0, NEW ev, ev \in {"message_start", "response.created"},
           NEW i, NEW sort, NEW data
    PROVE  Leads(v, <<Message(ev, i, sort, data)>>, Starting(v))
<1> DEFINE e == Message(ev, i, sort, data)
<1>1. Promise!Role(e) = "start"
  BY DEF Promise!Role, Message
<1>2. Allowed(v, e) /\ After1(v, e) = Starting(v)
  BY <1>1 DEF Allowed, After1
<1>3. QED
  BY <1>2, LeadsOne, Zenon

LEMMA LeadsEnd ==
    ASSUME NEW v, v.ends = 0, v.start # 0, NEW ev, ev \in {"message_stop", "response.completed"},
           NEW i, NEW sort, NEW data
    PROVE  Leads(v, <<Message(ev, i, sort, data)>>, Ending(v))
<1> DEFINE e == Message(ev, i, sort, data)
<1>1. Promise!Role(e) = "end"
  BY DEF Promise!Role, Message
<1>2. Allowed(v, e) /\ After1(v, e) = Ending(v)
  BY <1>1 DEF Allowed, After1
<1>3. QED
  BY <1>2, LeadsOne, Zenon

LEMMA LeadsOpen ==
    ASSUME NEW v, v.ends = 0, v.start # 0,
           NEW ev, ev \in {"content_block_start", "response.output_item.added"},
           NEW i, i = v.opens, NEW sort, NEW data
    PROVE  Leads(v, <<Message(ev, i, sort, data)>>, Opening(v, i, sort))
<1> DEFINE e == Message(ev, i, sort, data)
<1>1. Promise!Role(e) = "open" /\ e.index = i /\ e.sort = sort
  BY DEF Promise!Role, Message
<1> HIDE DEF e
<1>2. Allowed(v, e) /\ After1(v, e) = Opening(v, i, sort)
  BY <1>1 DEF Allowed, After1
<1>3. QED
  BY <1>2, LeadsOne, Zenon DEF e

LEMMA LeadsClose ==
    ASSUME NEW v, v.ends = 0, v.start # 0,
           NEW ev, ev \in {"content_block_stop", "response.output_item.done"},
           NEW i, i < v.opens, i \notin v.shut, NEW sort, NEW data
    PROVE  Leads(v, <<Message(ev, i, sort, data)>>, Closing(v, i))
<1> DEFINE e == Message(ev, i, sort, data)
<1>1. Promise!Role(e) = "close" /\ e.index = i
  BY DEF Promise!Role, Message
<1> HIDE DEF e
<1>2. Allowed(v, e) /\ After1(v, e) = Closing(v, i)
  BY <1>1 DEF Allowed, After1
<1>3. QED
  BY <1>2, LeadsOne, Zenon DEF e

LEMMA LeadsDelta ==
    ASSUME NEW v, v.ends = 0, v.start # 0,
           NEW ev, ev \in {"content_block_delta", "response.output_text.delta",
                           "response.reasoning.delta", "response.function_call_arguments.delta"},
           NEW i, NEW sort, <<i, sort>> \in v.opened,
           sort # "tool" => i = v.opens - 1 /\ i \notin v.shut,
           NEW data
    PROVE  Leads(v, <<Message(ev, i, sort, data)>>, v)
<1> DEFINE e == Message(ev, i, sort, data)
<1>1. Promise!Role(e) = "delta" /\ e.index = i /\ e.sort = sort
  BY DEF Promise!Role, Message
<1> HIDE DEF e
<1>2. Allowed(v, e) /\ After1(v, e) = v
  BY <1>1 DEF Allowed, After1
<1>3. QED
  BY <1>2, LeadsOne, Zenon DEF e

LEMMA LeadsError ==
    ASSUME NEW v
    PROVE  Leads(v, <<ErrorEvent>>, Failing(v))
<1>1. Promise!Role(ErrorEvent) = "error"
  BY DEF Promise!Role, Message, ErrorEvent
<1>2. Allowed(v, ErrorEvent) /\ After1(v, ErrorEvent) = Failing(v)
  BY <1>1 DEF Allowed, After1
<1>3. QED
  BY <1>2, LeadsOne, Zenon

Details == {"chunk", "raw", "message_delta", "response.in_progress",
            "response.output_text.done", "response.content_part.added",
            "response.content_part.done", "response.reasoning_summary_part.added",
            "response.reasoning_summary_part.done", "response.reasoning_summary_text.done",
            "response.function_call_arguments.done"}

LEMMA LeadsDetail ==
    ASSUME NEW v, v.ends = 0, NEW ev \in Details, NEW i, NEW sort, NEW data
    PROVE  Leads(v, <<Message(ev, i, sort, data)>>, v)
<1> DEFINE e == Message(ev, i, sort, data)
<1>1. Promise!Role(e) = "detail"
  BY DEF Promise!Role, Message, Details
<1> HIDE DEF e
<1>2. Allowed(v, e) /\ After1(v, e) = v
  BY <1>1 DEF Allowed, After1
<1>3. QED
  BY <1>2, LeadsOne, Zenon DEF e

\* What a change of the view leaves alone.
LEMMA ViewChanges ==
    ASSUME NEW v \in Views
    PROVE  /\ LET w == Starting(v)
              IN  /\ w \in Views /\ w.start = v.start + 1
                  /\ w.ends = v.ends /\ w.opens = v.opens /\ w.errors = v.errors
                  /\ w.opened = v.opened /\ w.shut = v.shut
           /\ LET w == Ending(v)
              IN  /\ w \in Views /\ w.ends = v.ends + 1
                  /\ w.start = v.start /\ w.opens = v.opens /\ w.errors = v.errors
                  /\ w.opened = v.opened /\ w.shut = v.shut
           /\ LET w == Failing(v)
              IN  /\ w \in Views /\ w.errors = v.errors + 1
                  /\ w.start = v.start /\ w.ends = v.ends /\ w.opens = v.opens
                  /\ w.opened = v.opened /\ w.shut = v.shut
<1>1. v.start + 1 \in Nat /\ v.ends + 1 \in Nat /\ v.errors + 1 \in Nat
  BY DEF Views
<1>2. QED
  BY <1>1, Zenon DEF Views, Starting, Ending, Failing

LEMMA ViewOpens ==
    ASSUME NEW v \in Views, NEW i \in Nat, NEW sort \in Sorts
    PROVE  LET w == Opening(v, i, sort)
           IN  /\ w \in Views /\ w.opens = v.opens + 1 /\ w.opened = v.opened \cup {<<i, sort>>}
               /\ w.start = v.start /\ w.ends = v.ends /\ w.errors = v.errors /\ w.shut = v.shut
<1>1. v.opens + 1 \in Nat /\ v.opened \cup {<<i, sort>>} \in SUBSET (Nat \X Sorts)
  BY DEF Views
<1>2. QED
  BY <1>1, Zenon DEF Views, Opening

LEMMA ViewCloses ==
    ASSUME NEW v \in Views, NEW i \in Nat
    PROVE  LET w == Closing(v, i)
           IN  /\ w \in Views /\ w.shut = v.shut \cup {i}
               /\ w.start = v.start /\ w.ends = v.ends /\ w.opens = v.opens
               /\ w.errors = v.errors /\ w.opened = v.opened
<1>1. v.shut \cup {i} \in SUBSET Nat
  BY DEF Views
<1>2. QED
  BY <1>1, Zenon DEF Views, Closing

-----------------------------------------------------------------------------
(* The converter for Anthropic's clients (anthropic_converter.rs).         *)

OpenSets == {{}, {"thinking"}, {"text"}, {"tool"}}

ConvA == [started : BOOLEAN, open : OpenSets,
          finished : BOOLEAN, stopped : BOOLEAN, index : Nat, toolIndex : Nat,
          tools : SUBSET Nat, stopSeen : BOOLEAN]

\* The converter agrees with what its client has received.
FitsA(c, v) ==
    /\ c \in ConvA /\ v \in Views
    /\ \A k \in c.tools : k < c.toolIndex
    /\ c.started <=> v.start # 0
    /\ c.stopped => c.started
    /\ c.open # {} => c.started
    /\ v.ends = IF c.stopped THEN 1 ELSE 0
    /\ v.opens = c.index + (IF c.open = {} THEN 0 ELSE 1)
    /\ \A sort \in c.open : <<c.index, sort>> \in v.opened
    /\ \A i \in v.shut : i < c.index

Live(c) == c.started /\ ~c.stopped

\* An operation that leaves the message started, and does not end it.
StepsA(step, c, v) ==
    /\ step.conv.started
    /\ step.conv.stopped = c.stopped
    /\ step.conv.finished = c.finished
    /\ \E w : Leads(v, step.out, w) /\ FitsA(step.conv, w) /\ w.errors = v.errors

LEMMA CloseBlockSteps ==
    ASSUME NEW c, NEW v, FitsA(c, v), Live(c), NEW sort
    PROVE  /\ StepsA(CloseBlock(c, sort), c, v)
           /\ CloseBlock(c, sort).conv.open = c.open \ {sort}
<1>1. CASE sort \notin c.open
  <2>1. CloseBlock(c, sort) = Did(c, <<>>)
    BY <1>1 DEF CloseBlock
  <2>2. QED
    BY <1>1, <2>1, LeadsNowhere DEF StepsA, Did, Live
<1>2. CASE sort \in c.open
  <2> DEFINE d == [c EXCEPT !.open = @ \ {sort}, !.index = @ + 1, !.stopSeen = TRUE]
             w == IF c.stopSeen THEN v ELSE Closing(v, c.index)
  <2>1. /\ CloseBlock(c, sort).conv = d
        /\ CloseBlock(c, sort).out = IF c.stopSeen THEN <<>>
               ELSE <<Message("content_block_stop", c.index, "none", <<>>)>>
    BY <1>2 DEF CloseBlock, Did
  <2>2. c \in ConvA /\ c.open \in OpenSets /\ c.index \in Nat /\ c.index + 1 \in Nat
    BY DEF FitsA, ConvA
  <2>3. c.open \ {sort} = {} /\ {} \in OpenSets
    BY <1>2, <2>2 DEF OpenSets
  <2>4. d \in ConvA /\ d.index = c.index + 1 /\ d.open = {} /\ d.started = c.started
        /\ d.stopped = c.stopped /\ d.finished = c.finished
        /\ d.tools = c.tools /\ d.toolIndex = c.toolIndex
    BY <2>2, <2>3, Zenon DEF ConvA
  <2>5. /\ v \in Views /\ v.ends = 0 /\ v.start # 0 /\ v.opens = c.index + 1
        /\ v.shut \in SUBSET Nat /\ \A i \in v.shut : i < c.index
    BY <1>2 DEF FitsA, Live, Views
  <2>6. Leads(v, CloseBlock(c, sort).out, w)
    <3>1. CASE c.stopSeen
      BY <2>1, <3>1, LeadsNowhere
    <3>2. CASE ~c.stopSeen
      <4>1. c.index < v.opens /\ c.index \notin v.shut
        BY <2>2, <2>5
      <4>2. QED
        BY <2>1, <2>5, <3>2, <4>1, LeadsClose
    <3>3. QED
      BY <3>1, <3>2
  <2>7. /\ w \in Views /\ w.start = v.start /\ w.ends = v.ends /\ w.opens = v.opens
        /\ w.errors = v.errors /\ w.opened = v.opened
        /\ w.shut = IF c.stopSeen THEN v.shut ELSE v.shut \cup {c.index}
    BY <2>2, <2>5, ViewCloses
  <2> HIDE DEF d, w
  <2>8. \A i \in w.shut : i < d.index
    BY <2>2, <2>4, <2>5, <2>7
  <2>9. FitsA(d, w)
    BY <2>2, <2>4, <2>5, <2>7, <2>8 DEF FitsA
  <2>10. QED
    BY <2>1, <2>3, <2>4, <2>6, <2>7, <2>9 DEF StepsA, Live
<1>3. QED
  BY <1>1, <1>2

LEMMA ChainA ==
    ASSUME NEW a, NEW b, NEW c, NEW v, StepsA(a, c, v),
           \A w : FitsA(a.conv, w) => StepsA(b, a.conv, w)
    PROVE  StepsA(Did(b.conv, a.out \o b.out), c, v)
<1>1. PICK w : Leads(v, a.out, w) /\ FitsA(a.conv, w) /\ w.errors = v.errors
  BY DEF StepsA
<1>2. PICK x : Leads(w, b.out, x) /\ FitsA(b.conv, x) /\ x.errors = w.errors
  BY <1>1 DEF StepsA
<1>3. Leads(v, a.out \o b.out, x)
  BY <1>1, <1>2, LeadsThen
<1>4. StepsA(b, a.conv, w)
  BY <1>1
<1>5. QED
  BY <1>1, <1>2, <1>3, <1>4 DEF StepsA, Did

\* A block is opened, and stays the newest.
LEMMA OpenBlockFits ==
    ASSUME NEW c, NEW v, FitsA(c, v), Live(c), c.open = {},
           NEW sort \in Sorts, NEW data,
           NEW d \in ConvA, d.open = {sort}, d.index = c.index,
           d.started = c.started, d.stopped = c.stopped,
           \A k \in d.tools : k < d.toolIndex
    PROVE  \E w : /\ Leads(v, <<Message("content_block_start", c.index, sort, data)>>, w)
                  /\ FitsA(d, w) /\ w.errors = v.errors
<1> DEFINE w == Opening(v, c.index, sort)
<1>1. /\ c.index \in Nat /\ v \in Views /\ v.opens = c.index /\ v.ends = 0 /\ v.start # 0
  BY DEF FitsA, Live, ConvA
<1>2. Leads(v, <<Message("content_block_start", c.index, sort, data)>>, w)
  BY <1>1, LeadsOpen
<1>3. /\ w \in Views /\ w.opens = v.opens + 1 /\ w.opened = v.opened \cup {<<c.index, sort>>}
      /\ w.start = v.start /\ w.ends = v.ends /\ w.errors = v.errors /\ w.shut = v.shut
  BY <1>1, ViewOpens
<1> HIDE DEF w
<1>4. FitsA(d, w)
  BY <1>1, <1>3 DEF FitsA, Live
<1>5. QED
  BY <1>2, <1>3, <1>4

LEMMA BlockDeltaSteps ==
    ASSUME NEW c, NEW v, FitsA(c, v), Live(c), NEW sort \in Sorts,
           c.open \subseteq {sort}, NEW data
    PROVE  StepsA(BlockDelta(c, sort, data), c, v)
<1> DEFINE d == [c EXCEPT !.open = @ \cup {sort}]
           start == IF sort \in c.open THEN <<>>
                    ELSE <<Message("content_block_start", c.index, sort, <<>>)>>
           delta == <<Message("content_block_delta", c.index, sort, data)>>
<1>1. BlockDelta(c, sort, data) = Did(d, start \o delta)
  BY DEF BlockDelta
<1>2. c.open \cup {sort} = {sort} /\ {sort} \in OpenSets
  BY DEF OpenSets, Sorts
<1>3. c \in ConvA /\ c.index \in Nat
  BY DEF FitsA, ConvA
<1>4. d \in ConvA /\ d.open = {sort} /\ d.index = c.index /\ d.started = c.started
      /\ d.stopped = c.stopped /\ d.finished = c.finished
      /\ d.tools = c.tools /\ d.toolIndex = c.toolIndex
  BY <1>2, <1>3, Zenon DEF ConvA
<1> HIDE DEF d
<1>5. \E w : Leads(v, start, w) /\ FitsA(d, w) /\ w.errors = v.errors
  <2>1. CASE sort \in c.open
    <3>1. FitsA(d, v)
      BY <1>2, <1>4, <2>1 DEF FitsA
    <3>2. QED
      BY <2>1, <3>1, LeadsNowhere
  <2>2. CASE sort \notin c.open
    <3>1. \A k \in d.tools : k < d.toolIndex
      BY <1>4 DEF FitsA
    <3>2. c.open = {}
      BY <2>2
    <3>3. \E w : /\ Leads(v, <<Message("content_block_start", c.index, sort, <<>>)>>, w)
                 /\ FitsA(d, w) /\ w.errors = v.errors
      <4> DEFINE nothing == <<>>
      <4> HIDE DEF nothing
      <4>1. \E w : /\ Leads(v, <<Message("content_block_start", c.index, sort, nothing)>>, w)
                   /\ FitsA(d, w) /\ w.errors = v.errors
        BY <1>4, <3>1, <3>2, OpenBlockFits
      <4>2. QED
        BY <4>1 DEF nothing
    <3>4. QED
      BY <2>2, <3>3
  <2>3. QED
    BY <2>1, <2>2
<1>6. PICK w : Leads(v, start, w) /\ FitsA(d, w) /\ w.errors = v.errors
  BY <1>5
<1>7. Leads(w, delta, w)
  <2>1. /\ w.ends = 0 /\ w.start # 0 /\ <<c.index, sort>> \in w.opened
        /\ c.index = w.opens - 1 /\ c.index \notin w.shut
    BY <1>3, <1>4, <1>6 DEF FitsA, Live
  <2>2. QED
    BY <2>1, LeadsDelta
<1>8. Leads(v, start \o delta, w)
  BY <1>6, <1>7, LeadsThen
<1>9. d.started
  BY <1>4 DEF Live
<1>10. QED
  BY <1>1, <1>4, <1>6, <1>8, <1>9 DEF StepsA, Did

LEMMA ToolDeltaSteps ==
    ASSUME NEW c, NEW v, FitsA(c, v), Live(c), c.open \subseteq {"tool"}, NEW t
    PROVE  StepsA(ToolDeltaStep(c, t), c, v)
<1> DEFINE a == CloseBlock(c, "tool")
           d == a.conv
           e == [d EXCEPT !.open = @ \cup {"tool"}, !.tools = @ \cup {d.toolIndex}, !.toolIndex = @ + 1]
           start == <<Message("content_block_start", d.index, "tool", <<t.id>>)>>
           b == Did(e, start \o ArgsDelta(d, t.args))
<1>1. c.toolIndex \notin c.tools
  BY DEF FitsA, ConvA
<1>2. ToolDeltaStep(c, t) = Did(b.conv, a.out \o b.out)
  BY <1>1 DEF ToolDeltaStep, Then
<1>3. StepsA(a, c, v) /\ d.open = {}
  BY CloseBlockSteps
<1>4. ASSUME NEW w, FitsA(d, w)
      PROVE  StepsA(b, d, w)
  <2>1. d \in ConvA /\ d.index \in Nat /\ d.toolIndex \in Nat /\ d.tools \in SUBSET Nat
        /\ \A k \in d.tools : k < d.toolIndex
    BY <1>4 DEF FitsA, ConvA
  <2>2. Live(d)
    BY <1>3 DEF StepsA, Live
  <2> HIDE DEF d
  <2>3. d.open \cup {"tool"} = {"tool"} /\ {"tool"} \in OpenSets
        /\ d.tools \cup {d.toolIndex} \in SUBSET Nat /\ d.toolIndex + 1 \in Nat
    BY <1>3, <2>1 DEF OpenSets
  <2>4. e \in ConvA /\ e.open = {"tool"} /\ e.index = d.index /\ e.started = d.started
        /\ e.stopped = d.stopped /\ e.finished = d.finished
        /\ e.tools = d.tools \cup {d.toolIndex} /\ e.toolIndex = d.toolIndex + 1
    BY <2>1, <2>3, Zenon DEF ConvA
  <2> HIDE DEF e
  <2>5. \A k \in e.tools : k < e.toolIndex
    BY <2>1, <2>4
  <2>10. "tool" \in Sorts
    BY DEF Sorts
  <2>6. PICK x : Leads(w, start, x) /\ FitsA(e, x) /\ x.errors = w.errors
    BY <1>3, <1>4, <2>2, <2>4, <2>5, <2>10, OpenBlockFits
  <2>7. Leads(x, ArgsDelta(d, t.args), x)
    <3>1. /\ x.ends = 0 /\ x.start # 0 /\ <<d.index, "tool">> \in x.opened
      BY <2>2, <2>4, <2>6 DEF FitsA, Live
    <3>2. QED
      BY <3>1, LeadsDelta, LeadsNowhere DEF ArgsDelta
  <2>8. Leads(w, start \o ArgsDelta(d, t.args), x)
    BY <2>6, <2>7, LeadsThen
  <2>9. QED
    BY <2>2, <2>4, <2>6, <2>8 DEF StepsA, Did, Live
<1>5. QED
  <2> HIDE DEF a, b
  <2>1. QED
    BY <1>2, <1>3, <1>4, ChainA

LEMMA EmitStartSteps ==
    ASSUME NEW c, NEW v, FitsA(c, v)
    PROVE  StepsA(emit_message_start(c), c, v)
<1>1. CASE c.started
  <2>1. emit_message_start(c) = Did(c, <<>>)
    BY <1>1 DEF emit_message_start
  <2>2. QED
    BY <1>1, <2>1, LeadsNowhere DEF StepsA, Did
<1>2. CASE ~c.started
  <2> DEFINE d == [c EXCEPT !.started = TRUE]
             start == <<Message("message_start", 0, "none", <<>>)>>
             w == Starting(v)
  <2>1. emit_message_start(c) = Did(d, start)
    BY <1>2 DEF emit_message_start
  <2>2. c \in ConvA /\ v \in Views /\ v.start = 0 /\ v.ends = 0 /\ c.open = {} /\ ~c.stopped
    BY <1>2 DEF FitsA, Views
  <2>3. d \in ConvA /\ d.started /\ d.open = c.open /\ d.index = c.index /\ d.stopped = c.stopped
        /\ d.finished = c.finished /\ d.tools = c.tools /\ d.toolIndex = c.toolIndex
    BY <2>2, Zenon DEF ConvA
  <2>4. Leads(v, start, w)
    BY <2>2, LeadsStart
  <2>5. /\ w \in Views /\ w.start = 1 /\ w.ends = v.ends /\ w.opens = v.opens
        /\ w.errors = v.errors /\ w.opened = v.opened /\ w.shut = v.shut
    BY <2>2, ViewChanges
  <2> HIDE DEF d, w
  <2>6. FitsA(d, w)
    BY <2>2, <2>3, <2>5 DEF FitsA
  <2>7. QED
    BY <2>1, <2>3, <2>4, <2>5, <2>6 DEF StepsA, Did
<1>3. QED
  BY <1>1, <1>2

LEMMA FitsStepA ==
    ASSUME NEW a, NEW c, NEW v, StepsA(a, c, v), ~c.stopped
    PROVE  Live(a.conv) /\ \E w : FitsA(a.conv, w)
  BY DEF StepsA, Live

\* Two blocks are closed, whichever is open.
TwoClosed(c, p, q) ==
    LET a == CloseBlock(c, p)
        b == CloseBlock(a.conv, q)
    IN  Did(b.conv, a.out \o b.out)

LEMMA TwoClosedSteps ==
    ASSUME NEW c, NEW v, FitsA(c, v), Live(c), NEW p, NEW q
    PROVE  /\ StepsA(TwoClosed(c, p, q), c, v)
           /\ TwoClosed(c, p, q).conv.open = c.open \ {p, q}
<1> DEFINE a == CloseBlock(c, p)
           b == CloseBlock(a.conv, q)
<1>1. StepsA(a, c, v) /\ a.conv.open = c.open \ {p}
  BY CloseBlockSteps
<1>2. Live(a.conv) /\ \E w : FitsA(a.conv, w)
  BY <1>1, FitsStepA DEF Live
<1>3. \A w : FitsA(a.conv, w) => StepsA(b, a.conv, w) /\ b.conv.open = a.conv.open \ {q}
  BY <1>2, CloseBlockSteps
<1> HIDE DEF a, b
<1>4. StepsA(Did(b.conv, a.out \o b.out), c, v)
  BY <1>1, <1>3, ChainA
<1>5. b.conv.open = c.open \ {p, q}
  BY <1>1, <1>2, <1>3
<1>6. QED
  BY <1>4, <1>5 DEF TwoClosed, Did, a, b

\* Two blocks are closed, and a delta goes to the third.
LEMMA BlockSteps ==
    ASSUME NEW c, NEW v, FitsA(c, v), Live(c), NEW p, NEW q, NEW sort \in Sorts,
           Sorts \subseteq {p, q, sort}, NEW data
    PROVE  LET a == TwoClosed(c, p, q)
               b == BlockDelta(a.conv, sort, data)
           IN  StepsA(Did(b.conv, a.out \o b.out), c, v)
<1> DEFINE a == TwoClosed(c, p, q)
           b == BlockDelta(a.conv, sort, data)
<1>1. StepsA(a, c, v) /\ a.conv.open = c.open \ {p, q}
  BY TwoClosedSteps
<1>2. Live(a.conv)
  BY <1>1, FitsStepA DEF Live
<1>3. a.conv.open \subseteq {sort}
  <2>1. c.open \subseteq Sorts
    BY DEF FitsA, ConvA, OpenSets, Sorts
  <2>2. QED
    BY <1>1, <2>1
<1>4. \A w : FitsA(a.conv, w) => StepsA(b, a.conv, w)
  BY <1>2, <1>3, BlockDeltaSteps
<1> HIDE DEF a, b
<1>5. StepsA(Did(b.conv, a.out \o b.out), c, v)
  BY <1>1, <1>4, ChainA
<1>6. QED
  BY <1>5 DEF a, b

LEMMA ThinkingSteps ==
    ASSUME NEW c, NEW v, FitsA(c, v), Live(c), NEW data
    PROVE  StepsA(handle_thinking(c, data), c, v)
<1> DEFINE a == TwoClosed(c, "tool", "text")
           b == BlockDelta(a.conv, "thinking", data)
<1>1. handle_thinking(c, data) = Did(b.conv, a.out \o b.out)
  BY Zenon DEF handle_thinking, Then, TwoClosed
<1>2. "thinking" \in Sorts /\ Sorts \subseteq {"tool", "text", "thinking"}
  BY DEF Sorts
<1>3. QED
  BY <1>1, <1>2, BlockSteps

LEMMA TextSteps ==
    ASSUME NEW c, NEW v, FitsA(c, v), Live(c), NEW data
    PROVE  StepsA(handle_text(c, data), c, v)
<1> DEFINE a == TwoClosed(c, "thinking", "tool")
           b == BlockDelta(a.conv, "text", data)
<1>1. handle_text(c, data) = Did(b.conv, a.out \o b.out)
  BY Zenon DEF handle_text, Then, TwoClosed
<1>2. "text" \in Sorts /\ Sorts \subseteq {"thinking", "tool", "text"}
  BY DEF Sorts
<1>3. QED
  BY <1>1, <1>2, BlockSteps

LEMMA OneToolDelta ==
    ASSUME NEW step, NEW t
    PROVE  ForEach(step, <<t>>, ToolDeltaStep)
           = LET next == ToolDeltaStep(step.conv, t)
             IN  Did(next.conv, step.out \o next.out)
<1> DEFINE next == ToolDeltaStep(step.conv, t)
           all == Did(next.conv, step.out \o next.out)
           f == [k \in 0 .. 1 |-> IF k = 0 THEN step ELSE all]
           Rec(after) == after = [k \in 0 .. 1 |-> IF k = 0 THEN step
                                    ELSE LET n == ToolDeltaStep(after[k - 1].conv, <<t>>[k])
                                         IN  Did(n.conv, after[k - 1].out \o n.out)]
<1>1. Rec(f)
  OBVIOUS
<1>2. ForEach(step, <<t>>, ToolDeltaStep) = (CHOOSE after : Rec(after))[1]
  BY DEF ForEach, Then
<1>3. ASSUME NEW after, Rec(after)
      PROVE  after[1] = all
  <2>1. after[0] = step
    BY <1>3
  <2>2. QED
    BY <1>3, <2>1
<1>4. QED
  BY <1>1, <1>2, <1>3

LEMMA ToolCallsSteps ==
    ASSUME NEW c, NEW v, FitsA(c, v), Live(c), NEW t
    PROVE  StepsA(handle_tool_calls(c, <<t>>), c, v)
<1> DEFINE a == TwoClosed(c, "thinking", "text")
           b == ToolDeltaStep(a.conv, t)
<1>1. handle_tool_calls(c, <<t>>) = ForEach(a, <<t>>, ToolDeltaStep)
  BY Zenon DEF handle_tool_calls, Then, TwoClosed
<1>2. handle_tool_calls(c, <<t>>) = Did(b.conv, a.out \o b.out)
  <2> HIDE DEF a
  <2>1. QED
    BY <1>1, OneToolDelta
<1>3. StepsA(a, c, v) /\ a.conv.open = c.open \ {"thinking", "text"}
  BY TwoClosedSteps
<1>4. Live(a.conv)
  BY <1>3, FitsStepA DEF Live
<1>5. a.conv.open \subseteq {"tool"}
  <2>1. c.open \subseteq Sorts
    BY DEF FitsA, ConvA, OpenSets, Sorts
  <2>2. QED
    BY <1>3, <2>1 DEF Sorts
<1>6. \A w : FitsA(a.conv, w) => StepsA(b, a.conv, w)
  BY <1>4, <1>5, ToolDeltaSteps
<1> HIDE DEF a, b
<1>7. QED
  BY <1>2, <1>3, <1>6, ChainA

\* The end of a message: everything is closed, and the message is stopped.
LEMMA FinishStepsA ==
    ASSUME NEW c, NEW v, FitsA(c, v), Live(c), ~c.finished
    PROVE  LET r == handle_finish(c)
           IN  /\ r.conv.finished /\ r.conv.stopped
               /\ \E w : Leads(v, r.out, w) /\ FitsA(r.conv, w) /\ w.errors = v.errors
<1> DEFINE c0 == [c EXCEPT !.finished = TRUE]
           a == CloseBlock(c0, "thinking")
           b == CloseContent(a.conv)
           d == b.conv
           e == [d EXCEPT !.stopped = TRUE]
           done == <<Message("message_delta", 0, "none", <<>>),
                     Message("message_stop", 0, "none", <<>>)>>
<1>1. c0 \in ConvA /\ c0.finished /\ c0.started = c.started /\ c0.stopped = c.stopped
      /\ c0.open = c.open /\ c0.index = c.index /\ c0.tools = c.tools
      /\ c0.toolIndex = c.toolIndex
  <2>1. c \in ConvA
    BY DEF FitsA
  <2>2. QED
    BY <2>1, Zenon DEF ConvA
<1> HIDE DEF c0
<1>2. FitsA(c0, v) /\ Live(c0)
  BY <1>1 DEF FitsA, Live
<1>3. StepsA(a, c0, v) /\ a.conv.open = c.open \ {"thinking"}
  BY <1>1, <1>2, CloseBlockSteps
<1>4. Live(a.conv)
  BY <1>2, <1>3, FitsStepA DEF Live
<1>5. \A w : FitsA(a.conv, w) => StepsA(b, a.conv, w)
  BY <1>4, CloseBlockSteps DEF CloseContent
<1>6. b.conv.open = {}
  <2>1. PICK w : FitsA(a.conv, w)
    BY <1>3 DEF StepsA
  <2>2. /\ "tool" \in a.conv.open => b.conv.open = a.conv.open \ {"tool"}
        /\ "tool" \notin a.conv.open => b.conv.open = a.conv.open \ {"text"}
    BY <1>4, <2>1, CloseBlockSteps DEF CloseContent
  <2>3. a.conv.open \in OpenSets /\ "thinking" \notin a.conv.open
    BY <1>3, <2>1 DEF FitsA, ConvA
  <2>4. QED
    BY <2>2, <2>3 DEF OpenSets
<1>7. ~d.stopped /\ d.finished
  BY <1>1, <1>2, <1>3, <1>4, <1>5 DEF StepsA, Live
<1>8. handle_finish(c).conv = e /\ handle_finish(c).out = (a.out \o b.out) \o done
  <2>1. ~d.stopped
    BY <1>7
  <2>2. QED
    BY <2>1 DEF handle_finish, Then, Did, c0
<1>9. StepsA(Did(b.conv, a.out \o b.out), c0, v)
  <2> HIDE DEF a, b
  <2>1. QED
    BY <1>3, <1>5, ChainA
<1>10. PICK w : Leads(v, a.out \o b.out, w) /\ FitsA(d, w) /\ w.errors = v.errors /\ d.started
  BY <1>9 DEF StepsA, Did
<1> HIDE DEF a, b, d
<1>11. d \in ConvA /\ w \in Views /\ w.ends = 0 /\ w.start # 0
  BY <1>7, <1>10 DEF FitsA
<1>12. Leads(w, done, Ending(w))
  <2>1. Leads(w, <<Message("message_delta", 0, "none", <<>>)>>, w)
    BY <1>11, LeadsDetail DEF Details
  <2>2. Leads(w, <<Message("message_stop", 0, "none", <<>>)>>, Ending(w))
    BY <1>11, LeadsEnd
  <2>3. QED
    BY <2>1, <2>2, LeadsTwo
<1>13. Leads(v, (a.out \o b.out) \o done, Ending(w))
  <2> HIDE DEF done
  <2>1. QED
    BY <1>10, <1>12, LeadsThen
<1>14. e \in ConvA /\ e.stopped /\ e.started = d.started /\ e.finished
       /\ e.open = d.open /\ e.index = d.index /\ e.tools = d.tools /\ e.toolIndex = d.toolIndex
  BY <1>7, <1>11, Zenon DEF ConvA
<1> HIDE DEF e
<1>15. FitsA(e, Ending(w))
  <2>1. LET x == Ending(w)
        IN  /\ x \in Views /\ x.ends = 1 /\ x.start = w.start /\ x.opens = w.opens
            /\ x.errors = w.errors /\ x.opened = w.opened /\ x.shut = w.shut
    BY <1>11, ViewChanges
  <2>2. QED
    BY <1>10, <1>14, <2>1 DEF FitsA
<1>16. Ending(w).errors = v.errors
  BY <1>10, <1>11, ViewChanges
<1>17. QED
  <2> HIDE DEF done
  <2>1. QED
    BY <1>8, <1>13, <1>14, <1>15, <1>16, Zenon

\* A delta, as far as the converters look at it.
IsDelta(d) ==
    /\ d.choice \in BOOLEAN /\ d.finish \in BOOLEAN /\ d.usage \in BOOLEAN
    /\ d.tools = <<>> \/ \E t : t.id \in Nat /\ d.tools = <<t>>

\* A delta that says nothing new.
Bare(d) == d.choice => d.reasoning = <<>> /\ d.text = <<>> /\ d.tools = <<>>

LEMMA ConvertAnthropicFits ==
    ASSUME NEW c, NEW v, FitsA(c, v), c.finished = c.stopped,
           NEW d, IsDelta(d), c.finished => Bare(d)
    PROVE  LET r == ConvertAnthropic(c, d)
           IN  /\ r.conv.finished = r.conv.stopped
               /\ r.conv.finished <=> c.finished \/ (d.choice /\ d.finish)
               /\ \E w : Leads(v, r.out, w) /\ FitsA(r.conv, w) /\ w.errors = v.errors
<1> DEFINE s1 == emit_message_start(c)
           s2 == When(d.choice /\ d.reasoning # <<>>, s1, LAMBDA x : handle_thinking(x, d.reasoning))
           s3 == When(d.choice /\ d.text # <<>>, s2, LAMBDA x : handle_text(x, d.text))
           s4 == When(d.choice /\ d.tools # <<>>, s3, LAMBDA x : handle_tool_calls(x, d.tools))
           s5 == When(d.choice /\ d.finish, s4, handle_finish)
           s6 == When(d.usage /\ s5.conv.finished /\ ~s5.conv.stopped, s5, handle_finish)
<1>1. StepsA(s1, c, v)
  BY EmitStartSteps
<1>2. ConvertAnthropic(c, d) = s6
  BY Zenon DEF ConvertAnthropic
<1>3. CASE c.finished
  <2> DEFINE same == Did(c, <<>>)
  <2>1. Bare(d) /\ c.started /\ c.stopped
    BY <1>3 DEF FitsA
  <2>2. s1 = same
    BY <2>1 DEF emit_message_start
  <2> HIDE DEF s1
  <2>3. s2 = s1 /\ s3 = s1 /\ s4 = s1
    BY <2>1 DEF When, Bare
  <2> HIDE DEF s2, s3, s4
  <2>4. handle_finish(c) = same /\ same.conv = c /\ same.out = <<>> /\ <<>> \o <<>> = <<>>
    <3>1. handle_finish(c) = same
      BY <1>3, Zenon DEF handle_finish
    <3>2. QED
      BY <3>1 DEF Did
  <2>5. Then(same, handle_finish) = same
    BY <2>4 DEF Then, Did
  <2> HIDE DEF same
  <2>6. s5 = same
    BY <2>2, <2>3, <2>5, Zenon DEF When
  <2> HIDE DEF s5
  <2>7. s6 = same
    BY <2>1, <2>4, <2>6 DEF When
  <2> HIDE DEF s6
  <2>8. ConvertAnthropic(c, d).conv = c /\ ConvertAnthropic(c, d).out = <<>>
    BY <1>2, <2>4, <2>7
  <2>9. Leads(v, <<>>, v)
    BY LeadsNowhere
  <2>10. QED
    BY <1>3, <2>8, <2>9
<1>4. CASE ~c.finished
  <2>0. ~c.stopped
    BY <1>4
  <2>1. StepsA(s2, c, v)
    <3>1. CASE d.choice /\ d.reasoning # <<>>
      <4> DEFINE b == handle_thinking(s1.conv, d.reasoning)
      <4>1. s2 = Did(b.conv, s1.out \o b.out)
        BY <3>1 DEF When, Then
      <4>2. Live(s1.conv)
        BY <1>1, <2>0, FitsStepA
      <4> HIDE DEF s1
      <4>3. \A w : FitsA(s1.conv, w) => StepsA(b, s1.conv, w)
        BY <4>2, ThinkingSteps
      <4> HIDE DEF b, s2
      <4>4. QED
        BY <1>1, <4>1, <4>3, ChainA
    <3>2. CASE ~(d.choice /\ d.reasoning # <<>>)
      BY <1>1, <3>2 DEF When
    <3>3. QED
      BY <3>1, <3>2
  <2> HIDE DEF s1, s2
  <2>2. StepsA(s3, c, v)
    <3>1. CASE d.choice /\ d.text # <<>>
      <4> DEFINE b == handle_text(s2.conv, d.text)
      <4>1. s3 = Did(b.conv, s2.out \o b.out)
        BY <3>1 DEF When, Then
      <4>2. Live(s2.conv)
        BY <2>0, <2>1, FitsStepA
      <4>3. \A w : FitsA(s2.conv, w) => StepsA(b, s2.conv, w)
        BY <4>2, TextSteps
      <4> HIDE DEF b, s3
      <4>4. QED
        BY <2>1, <4>1, <4>3, ChainA
    <3>2. CASE ~(d.choice /\ d.text # <<>>)
      BY <2>1, <3>2 DEF When
    <3>3. QED
      BY <3>1, <3>2
  <2> HIDE DEF s3
  <2>3. StepsA(s4, c, v)
    <3>1. CASE d.choice /\ d.tools # <<>>
      <4> DEFINE b == handle_tool_calls(s3.conv, d.tools)
      <4>0. PICK t : d.tools = <<t>>
        BY <3>1 DEF IsDelta
      <4>1. s4 = Did(b.conv, s3.out \o b.out)
        BY <3>1 DEF When, Then
      <4>2. Live(s3.conv)
        BY <2>0, <2>2, FitsStepA
      <4>3. \A w : FitsA(s3.conv, w) => StepsA(b, s3.conv, w)
        BY <4>0, <4>2, ToolCallsSteps
      <4> HIDE DEF b, s4
      <4>4. QED
        BY <2>2, <4>1, <4>3, ChainA
    <3>2. CASE ~(d.choice /\ d.tools # <<>>)
      BY <2>2, <3>2 DEF When
    <3>3. QED
      BY <3>1, <3>2
  <2> HIDE DEF s4
  <2>4. CASE ~(d.choice /\ d.finish)
    <3>1. s5 = s4
      BY <2>4 DEF When
    <3> HIDE DEF s5
    <3>2. ~s5.conv.finished /\ s5.conv.finished = s5.conv.stopped
      BY <1>4, <2>3, <3>1 DEF StepsA
    <3>3. s6 = s5
      BY <3>2 DEF When
    <3> HIDE DEF s6
    <3>4. QED
      BY <1>2, <1>4, <2>3, <2>4, <3>1, <3>2, <3>3 DEF StepsA
  <2>5. CASE d.choice /\ d.finish
    <3> DEFINE b == handle_finish(s4.conv)
    <3>1. s5 = Did(b.conv, s4.out \o b.out)
      BY <2>5 DEF When, Then
    <3>2. PICK w : Leads(v, s4.out, w) /\ FitsA(s4.conv, w) /\ w.errors = v.errors
      BY <2>3 DEF StepsA
    <3>3. Live(s4.conv) /\ ~s4.conv.finished
      BY <1>4, <2>0, <2>3, FitsStepA DEF StepsA
    <3>4. /\ b.conv.finished /\ b.conv.stopped
          /\ \E x : Leads(w, b.out, x) /\ FitsA(b.conv, x) /\ x.errors = w.errors
      BY <3>2, <3>3, FinishStepsA
    <3> HIDE DEF b
    <3>5. PICK x : Leads(w, b.out, x) /\ FitsA(b.conv, x) /\ x.errors = w.errors
      BY <3>4
    <3>6. Leads(v, s4.out \o b.out, x)
      BY <3>2, <3>5, LeadsThen
    <3> HIDE DEF s5
    <3>7. s5.conv = b.conv /\ s5.out = s4.out \o b.out
      BY <3>1, Zenon DEF Did
    <3>8. s6 = s5
      BY <3>4, <3>7 DEF When
    <3> HIDE DEF s6
    <3>9. b.conv.finished = TRUE /\ b.conv.stopped = TRUE
      <4>1. b.conv.finished \in BOOLEAN /\ b.conv.stopped \in BOOLEAN
        BY <3>5 DEF FitsA, ConvA
      <4>2. QED
        BY <3>4, <4>1
    <3>10. /\ ConvertAnthropic(c, d).conv = b.conv
           /\ ConvertAnthropic(c, d).out = s4.out \o b.out
      BY <1>2, <3>7, <3>8
    <3>11. x.errors = v.errors
      BY <3>2, <3>5
    <3>12. QED
      BY <2>5, <3>5, <3>6, <3>9, <3>10, <3>11
  <2>6. QED
    BY <2>4, <2>5
<1>5. QED
  BY <1>3, <1>4

-----------------------------------------------------------------------------
(* The converter for clients of Responses (openai_responses_converter.rs). *)

CallsR == [id : Nat, output : Nat, started : BOOLEAN]

ConvR == [created : BOOLEAN, message : BOOLEAN, reasoning : BOOLEAN, summaryPart : BOOLEAN,
          contentPart : BOOLEAN, finished : BOOLEAN, completed : BOOLEAN,
          output : Nat, tools : Seq(CallsR)]

\* The items of the calls: below the next one, each of its own, those that are
\* still open not closed.
ToolsFit(tools, output, v) ==
    /\ \A k \in DOMAIN tools :
          /\ tools[k].output < output
          /\ <<tools[k].output, "tool">> \in v.opened
          /\ tools[k].started => tools[k].output \notin v.shut
    /\ \A j, k \in DOMAIN tools : j # k => tools[j].output # tools[k].output

\* The converter agrees with what its client has received.
FitsR(c, v) ==
    /\ c \in ConvR /\ v \in Views
    /\ c.created <=> v.start # 0
    /\ c.completed => c.created
    /\ v.ends = IF c.completed THEN 1 ELSE 0
    /\ ~(c.message /\ c.reasoning)
    /\ c.contentPart => c.message
    /\ v.opens = c.output + (IF c.message \/ c.reasoning THEN 1 ELSE 0)
    /\ c.message => <<c.output, "text">> \in v.opened
    /\ c.reasoning => <<c.output, "thinking">> \in v.opened
    /\ \A i \in v.shut : i < c.output
    /\ ToolsFit(c.tools, c.output, v)

LiveR(c) == c.created /\ ~c.completed

\* An operation that leaves the response created, and does not complete it.
StepsR(step, c, v) ==
    /\ step.conv.created
    /\ step.conv.completed <=> c.completed
    /\ step.conv.finished <=> c.finished
    /\ \E w : Leads(v, step.out, w) /\ FitsR(step.conv, w) /\ w.errors = v.errors

LEMMA ChainR ==
    ASSUME NEW a, NEW b, NEW c, NEW v, StepsR(a, c, v),
           \A w : FitsR(a.conv, w) => StepsR(b, a.conv, w)
    PROVE  StepsR(Did(b.conv, a.out \o b.out), c, v)
<1>1. PICK w : Leads(v, a.out, w) /\ FitsR(a.conv, w) /\ w.errors = v.errors
  BY DEF StepsR
<1>2. PICK x : Leads(w, b.out, x) /\ FitsR(b.conv, x) /\ x.errors = w.errors
  BY <1>1 DEF StepsR
<1>3. Leads(v, a.out \o b.out, x)
  BY <1>1, <1>2, LeadsThen
<1>4. StepsR(b, a.conv, w)
  BY <1>1
<1>5. QED
  BY <1>1, <1>2, <1>3, <1>4 DEF StepsR, Did

LEMMA FitsStepR ==
    ASSUME NEW a, NEW c, NEW v, StepsR(a, c, v), ~c.completed
    PROVE  LiveR(a.conv) /\ \E w : FitsR(a.conv, w)
  BY DEF StepsR, LiveR

\* The newest item is closed.
LEMMA CloseItemFits ==
    ASSUME NEW c, NEW v, FitsR(c, v), LiveR(c), c.message \/ c.reasoning,
           NEW d \in ConvR, d.output = c.output + 1, ~d.message, ~d.reasoning, ~d.contentPart,
           d.created, ~d.completed, d.tools = c.tools, NEW sort, NEW data
    PROVE  \E w : /\ Leads(v, <<Message("response.output_item.done", c.output, sort, data)>>, w)
                  /\ FitsR(d, w) /\ w.errors = v.errors
<1> DEFINE w == Closing(v, c.output)
<1>1. /\ c.output \in Nat /\ v \in Views /\ v.opens = c.output + 1 /\ v.ends = 0 /\ v.start # 0
      /\ \A i \in v.shut : i < c.output
      /\ v.shut \in SUBSET Nat
  BY DEF FitsR, LiveR, ConvR, Views
<1>2. Leads(v, <<Message("response.output_item.done", c.output, sort, data)>>, w)
  <2>1. c.output < v.opens /\ c.output \notin v.shut
    BY <1>1
  <2>2. QED
    BY <1>1, <2>1, LeadsClose
<1>3. /\ w \in Views /\ w.shut = v.shut \cup {c.output}
      /\ w.start = v.start /\ w.ends = v.ends /\ w.opens = v.opens
      /\ w.errors = v.errors /\ w.opened = v.opened
  BY <1>1, ViewCloses
<1> HIDE DEF w
<1>4. \A i \in w.shut : i < d.output
  BY <1>1, <1>3
<1>5. ToolsFit(d.tools, d.output, w)
  <2>1. \A k \in DOMAIN c.tools : c.tools[k].output \in Nat
    <3>1. c.tools \in Seq(CallsR)
      BY DEF FitsR, ConvR
    <3>2. \A k \in DOMAIN c.tools : c.tools[k] \in CallsR
      BY <3>1
    <3>3. QED
      BY <3>2 DEF CallsR
  <2>2. ToolsFit(c.tools, c.output, v)
    BY DEF FitsR
  <2>3. ASSUME NEW k \in DOMAIN c.tools
        PROVE  /\ c.tools[k].output < d.output
               /\ <<c.tools[k].output, "tool">> \in w.opened
               /\ c.tools[k].started => c.tools[k].output \notin w.shut
    <3>1. c.tools[k].output < c.output /\ c.tools[k].output \in Nat
      BY <2>1, <2>2 DEF ToolsFit
    <3>2. c.tools[k].output # c.output /\ c.tools[k].output < d.output
      BY <1>1, <3>1
    <3>3. QED
      BY <1>3, <2>2, <3>2 DEF ToolsFit
  <2>4. QED
    BY <2>2, <2>3 DEF ToolsFit
<1>6. FitsR(d, w)
  BY <1>1, <1>3, <1>4, <1>5 DEF FitsR, LiveR
<1>7. QED
  BY <1>2, <1>3, <1>6

\* The item that is open is one of this sort.
OnlyItem(d, sort) ==
    \/ sort = "text" /\ d.message /\ ~d.reasoning
    \/ sort = "thinking" /\ d.reasoning /\ ~d.message /\ ~d.contentPart

\* An item is opened for a message or for reasoning.
LEMMA OpenItemFits ==
    ASSUME NEW c, NEW v, FitsR(c, v), LiveR(c), ~c.message, ~c.reasoning,
           NEW d \in ConvR, d.output = c.output, d.created, ~d.completed, d.tools = c.tools,
           NEW sort, OnlyItem(d, sort), NEW data
    PROVE  \E w : /\ Leads(v, <<Message("response.output_item.added", c.output, sort, data)>>, w)
                  /\ FitsR(d, w) /\ w.errors = v.errors
<1> DEFINE w == Opening(v, c.output, sort)
<1>1. /\ c.output \in Nat /\ v \in Views /\ v.opens = c.output /\ v.ends = 0 /\ v.start # 0
  BY DEF FitsR, LiveR, ConvR
<1>2. Leads(v, <<Message("response.output_item.added", c.output, sort, data)>>, w)
  BY <1>1, LeadsOpen
<1>3. /\ w \in Views /\ w.opens = v.opens + 1 /\ w.opened = v.opened \cup {<<c.output, sort>>}
      /\ w.start = v.start /\ w.ends = v.ends /\ w.errors = v.errors /\ w.shut = v.shut
  <2>1. sort \in Sorts
    BY DEF Sorts, OnlyItem
  <2>2. QED
    BY <1>1, <2>1, ViewOpens
<1> HIDE DEF w
<1>4. ToolsFit(d.tools, d.output, w)
  BY <1>3 DEF FitsR, ToolsFit
<1>5. FitsR(d, w)
  BY <1>1, <1>3, <1>4 DEF FitsR, LiveR, OnlyItem
<1>6. QED
  BY <1>2, <1>3, <1>5

LEMMA EnsureCreatedSteps ==
    ASSUME NEW c, NEW v, FitsR(c, v)
    PROVE  StepsR(ensure_response_created(c), c, v)
<1>1. CASE c.created
  <2>1. ensure_response_created(c) = Did(c, <<>>)
    BY <1>1 DEF ensure_response_created
  <2>2. QED
    BY <1>1, <2>1, LeadsNowhere DEF StepsR, Did
<1>2. CASE ~c.created
  <2> DEFINE d == [c EXCEPT !.created = TRUE]
             e1 == Message("response.created", 0, "none", <<>>)
             e2 == Message("response.in_progress", 0, "none", <<>>)
             w == Starting(v)
  <2>1. ensure_response_created(c) = Did(d, <<e1, e2>>)
    BY <1>2 DEF ensure_response_created
  <2>2. c \in ConvR /\ v \in Views /\ v.start = 0 /\ v.ends = 0 /\ ~c.completed
    BY <1>2 DEF FitsR, Views
  <2>3. d \in ConvR /\ d.created /\ (d.message <=> c.message) /\ (d.reasoning <=> c.reasoning)
        /\ (d.contentPart <=> c.contentPart) /\ (d.completed <=> c.completed)
        /\ (d.finished <=> c.finished) /\ d.output = c.output /\ d.tools = c.tools
    BY <2>2, Zenon DEF ConvR
  <2>4. /\ w \in Views /\ w.start = 1 /\ w.ends = v.ends /\ w.opens = v.opens
        /\ w.errors = v.errors /\ w.opened = v.opened /\ w.shut = v.shut
    BY <2>2, ViewChanges
  <2>5. Leads(v, <<e1>>, w)
    BY <2>2, LeadsStart
  <2> HIDE DEF w
  <2>6. Leads(w, <<e2>>, w)
    BY <2>2, <2>4, LeadsDetail DEF Details
  <2>7. Leads(v, <<e1, e2>>, w)
    BY <2>5, <2>6, LeadsTwo
  <2> HIDE DEF d, e1, e2
  <2>8. FitsR(d, w)
    BY <2>2, <2>3, <2>4 DEF FitsR, ToolsFit
  <2>9. QED
    BY <2>1, <2>3, <2>4, <2>7, <2>8 DEF StepsR, Did
<1>3. QED
  BY <1>1, <1>2

LEMMA CloseMessageSteps ==
    ASSUME NEW c, NEW v, FitsR(c, v), LiveR(c)
    PROVE  LET r == close_message_item(c)
           IN  /\ StepsR(r, c, v)
               /\ ~r.conv.message /\ (r.conv.reasoning <=> c.reasoning)
<1>1. CASE ~c.message
  <2>1. close_message_item(c) = Did(c, <<>>)
    BY <1>1 DEF close_message_item
  <2>2. QED
    BY <1>1, <2>1, LeadsNowhere DEF StepsR, Did, LiveR
<1>2. CASE c.message
  <2> DEFINE c1 == [c EXCEPT !.message = FALSE]
             c2 == IF c.contentPart THEN [c1 EXCEPT !.contentPart = FALSE] ELSE c1
             e1 == Message("response.output_text.done", c.output, "text", <<>>)
             e2 == Message("response.content_part.done", c.output, "text", <<>>)
             e3 == <<Message("response.output_item.done", c.output, "text", <<>>)>>
             parts == IF c.contentPart THEN <<e1, e2>> ELSE <<>>
             d == [c2 EXCEPT !.output = @ + 1]
  <2>0. c \in ConvR /\ c.output + 1 \in Nat /\ ~c.reasoning /\ v.ends = 0
    BY <1>2 DEF FitsR, ConvR, LiveR
  <2>1. c1 \in ConvR /\ ~c1.message /\ (c1.contentPart <=> c.contentPart)
        /\ c1.output = c.output /\ (c1.created <=> c.created) /\ (c1.completed <=> c.completed)
        /\ (c1.reasoning <=> c.reasoning) /\ (c1.finished <=> c.finished) /\ c1.tools = c.tools
    BY <2>0, Zenon DEF ConvR
  <2>2. close_current_content_part(c1) = Did(c2, parts)
    <3> HIDE DEF c1
    <3>1. c1.output = c.output /\ (c1.contentPart <=> c.contentPart)
      BY <2>1
    <3>2. CASE c.contentPart
      BY <3>1, <3>2 DEF close_current_content_part
    <3>3. CASE ~c.contentPart
      BY <3>1, <3>3 DEF close_current_content_part
    <3>4. QED
      BY <3>2, <3>3
  <2> HIDE DEF c1
  <2>3. c2 \in ConvR /\ ~c2.message /\ ~c2.contentPart
        /\ c2.output = c.output /\ (c2.created <=> c.created) /\ (c2.completed <=> c.completed)
        /\ (c2.reasoning <=> c.reasoning) /\ (c2.finished <=> c.finished) /\ c2.tools = c.tools
    <3>1. CASE c.contentPart
      BY <2>1, <3>1, Zenon DEF ConvR
    <3>2. CASE ~c.contentPart
      BY <2>1, <3>2, Zenon DEF ConvR
    <3>3. QED
      BY <3>1, <3>2
  <2>4. close_message_item(c).conv = d /\ close_message_item(c).out = parts \o e3
    <3> HIDE DEF c2, parts
    <3>1. close_message_item(c) = Then(Did(c2, parts), LAMBDA x : Did([x EXCEPT !.output = @ + 1],
                             <<Message("response.output_item.done", x.output, "text", <<>>)>>))
      BY <1>2, <2>2 DEF close_message_item, c1
    <3>2. close_message_item(c)
          = Did(d, parts \o <<Message("response.output_item.done", c2.output, "text", <<>>)>>)
      BY <3>1 DEF Then, Did
    <3> HIDE DEF d
    <3>3. QED
      BY <2>3, <3>2 DEF Did
  <2> HIDE DEF c2
  <2>5. d \in ConvR /\ d.output = c.output + 1 /\ ~d.message /\ ~d.reasoning /\ ~d.contentPart
        /\ (d.created <=> c.created) /\ (d.completed <=> c.completed) /\ (d.finished <=> c.finished)
        /\ d.tools = c.tools
    BY <2>0, <2>3, Zenon DEF ConvR
  <2>6. Leads(v, parts, v)
    <3>1. Leads(v, <<e1>>, v) /\ Leads(v, <<e2>>, v)
      BY <2>0, LeadsDetail DEF Details
    <3>2. Leads(v, <<e1, e2>>, v)
      BY <3>1, LeadsTwo
    <3>3. QED
      BY <3>2, LeadsNowhere
  <2> HIDE DEF d
  <2>7. PICK w : Leads(v, e3, w) /\ FitsR(d, w) /\ w.errors = v.errors
    <3> DEFINE nothing == <<>>
    <3> HIDE DEF nothing
    <3>1. \E w : /\ Leads(v, <<Message("response.output_item.done", c.output, "text", nothing)>>, w)
                 /\ FitsR(d, w) /\ w.errors = v.errors
      BY <1>2, <2>5, CloseItemFits DEF LiveR
    <3>2. QED
      BY <3>1 DEF nothing
  <2> HIDE DEF parts, e3
  <2>8. Leads(v, parts \o e3, w)
    BY <2>6, <2>7, LeadsThen
  <2>9. QED
    BY <2>0, <2>4, <2>5, <2>7, <2>8 DEF StepsR, LiveR
<1>3. QED
  BY <1>1, <1>2

LEMMA CloseReasoningSteps ==
    ASSUME NEW c, NEW v, FitsR(c, v), LiveR(c)
    PROVE  LET r == close_reasoning_item(c)
           IN  /\ StepsR(r, c, v)
               /\ ~r.conv.reasoning /\ (r.conv.message <=> c.message)
<1>1. CASE ~c.reasoning
  <2>1. close_reasoning_item(c) = Did(c, <<>>)
    BY <1>1 DEF close_reasoning_item
  <2>2. QED
    BY <1>1, <2>1, LeadsNowhere DEF StepsR, Did, LiveR
<1>2. CASE c.reasoning
  <2> DEFINE d == [c EXCEPT !.reasoning = FALSE, !.summaryPart = FALSE, !.output = @ + 1]
             e1 == Message("response.reasoning_summary_text.done", c.output, "thinking", <<>>)
             e2 == Message("response.reasoning_summary_part.done", c.output, "thinking", <<>>)
             e3 == <<Message("response.output_item.done", c.output, "thinking", <<>>)>>
             parts == IF ~c.summaryPart THEN <<>> ELSE <<e1, e2>>
  <2>0. c \in ConvR /\ c.output + 1 \in Nat /\ ~c.message /\ ~c.contentPart /\ v.ends = 0
    BY <1>2 DEF FitsR, ConvR, LiveR
  <2>1. close_reasoning_item(c).conv = d /\ close_reasoning_item(c).out = parts \o e3
    BY <1>2 DEF close_reasoning_item, Did
  <2>5. d \in ConvR /\ d.output = c.output + 1 /\ ~d.message /\ ~d.reasoning /\ ~d.contentPart
        /\ (d.created <=> c.created) /\ (d.completed <=> c.completed) /\ (d.finished <=> c.finished)
        /\ d.tools = c.tools
    BY <2>0, Zenon DEF ConvR
  <2>6. Leads(v, parts, v)
    <3>1. Leads(v, <<e1>>, v) /\ Leads(v, <<e2>>, v)
      BY <2>0, LeadsDetail DEF Details
    <3>2. Leads(v, <<e1, e2>>, v)
      BY <3>1, LeadsTwo
    <3>3. QED
      BY <3>2, LeadsNowhere
  <2> HIDE DEF d
  <2>7. PICK w : Leads(v, e3, w) /\ FitsR(d, w) /\ w.errors = v.errors
    <3> DEFINE nothing == <<>>
    <3> HIDE DEF nothing
    <3>1. \E w : /\ Leads(v, <<Message("response.output_item.done", c.output, "thinking", nothing)>>, w)
                 /\ FitsR(d, w) /\ w.errors = v.errors
      BY <1>2, <2>5, CloseItemFits DEF LiveR
    <3>2. QED
      BY <3>1 DEF nothing
  <2> HIDE DEF parts, e3
  <2>8. Leads(v, parts \o e3, w)
    BY <2>6, <2>7, LeadsThen
  <2>9. QED
    BY <2>0, <2>1, <2>5, <2>7, <2>8 DEF StepsR, LiveR
<1>3. QED
  BY <1>1, <1>2

\* Induction up to a bound, over a set.
LEMMA UpTo ==
    ASSUME NEW N \in Nat, NEW S, 0 \in S,
           \A n \in 0 .. (N - 1) : n \in S => n + 1 \in S
    PROVE  \A n \in 0 .. N : n \in S
<1> DEFINE less == {p \in Nat \X Nat : p[1] < p[2]}
           T == {n \in 0 .. N : n \notin S}
<1> SUFFICES ASSUME T # {}
             PROVE  FALSE
  OBVIOUS
<1>1. IsWellFoundedOn(less, Nat)
  BY NatLessThanWellFounded DEF OpToRel
<1>2. T \subseteq Nat
  OBVIOUS
<1>3. \A x, y \in Nat : <<x, y>> \in less <=> x < y
  OBVIOUS
<1> HIDE DEF less
<1>4. PICK m \in T : \A n \in T : ~(<<n, m>> \in less)
  <2> HIDE DEF T
  <2>1. QED
    BY <1>1, <1>2, WFMin
<1>5. ASSUME NEW n \in T, n < m
      PROVE  FALSE
  <2>1. <<n, m>> \in less
    BY <1>3, <1>5
  <2>2. QED
    BY <1>4, <2>1, Zenon
<1>6. m # 0 /\ m \in 0 .. N /\ m \notin S
  OBVIOUS
<1>7. m - 1 \in 0 .. (N - 1) /\ m - 1 \in 0 .. N /\ m - 1 < m /\ (m - 1) + 1 = m
  BY <1>6
<1>8. m - 1 \in S
  BY <1>5, <1>7
<1>9. QED
  BY <1>6, <1>7, <1>8

LEMMA CloseToolSteps ==
    ASSUME NEW c, NEW v, FitsR(c, v), LiveR(c), NEW k \in DOMAIN c.tools
    PROVE  LET r == CloseTool(c, k)
           IN  /\ StepsR(r, c, v)
               /\ (r.conv.message <=> c.message) /\ (r.conv.reasoning <=> c.reasoning)
               /\ DOMAIN r.conv.tools = DOMAIN c.tools
<1> DEFINE t == c.tools[k]
           s == [t EXCEPT !.started = FALSE]
           ts == [c.tools EXCEPT ![k] = s]
           d == [c EXCEPT !.tools = ts]
           e1 == Message("response.function_call_arguments.done", t.output, "tool", <<t.id>>)
           e2 == Message("response.output_item.done", t.output, "tool", <<t.id>>)
           parts == IF ~t.started THEN <<>> ELSE <<e1, e2>>
           w == IF ~t.started THEN v ELSE Closing(v, t.output)
<1>1. CloseTool(c, k).conv = d /\ CloseTool(c, k).out = parts
  BY DEF CloseTool, Did
<1>2. /\ c \in ConvR /\ c.tools \in Seq(CallsR) /\ c.output \in Nat /\ v \in Views
      /\ v.ends = 0 /\ v.start # 0 /\ ToolsFit(c.tools, c.output, v)
      /\ \A i \in v.shut : i < c.output
      /\ v.opens >= c.output
  BY DEF FitsR, ConvR, LiveR
<1>3. t \in CallsR /\ t.output \in Nat /\ t.output < c.output
      /\ (t.started => t.output \notin v.shut)
  <2>1. t \in CallsR
    BY <1>2
  <2>2. QED
    BY <1>2, <2>1 DEF CallsR, ToolsFit
<1>4. s \in CallsR /\ s.output = t.output /\ ~s.started
  BY <1>3, Zenon DEF CallsR
<1> HIDE DEF s
<1>5. /\ ts \in Seq(CallsR) /\ DOMAIN ts = DOMAIN c.tools /\ ts[k] = s
      /\ \A j \in DOMAIN c.tools : j # k => ts[j] = c.tools[j]
  BY <1>2, <1>4, ExceptSeq
<1> HIDE DEF ts
<1>6. d \in ConvR /\ (d.created <=> c.created) /\ (d.message <=> c.message)
      /\ (d.reasoning <=> c.reasoning) /\ (d.contentPart <=> c.contentPart)
      /\ (d.completed <=> c.completed) /\ (d.finished <=> c.finished)
      /\ d.output = c.output /\ d.tools = ts
  BY <1>2, <1>5, Zenon DEF ConvR
<1>7. Leads(v, parts, w)
  <2>1. CASE ~t.started
    BY <2>1, LeadsNowhere
  <2>2. CASE t.started
    <3>1. Leads(v, <<e1>>, v)
      BY <1>2, LeadsDetail DEF Details
    <3>2. t.output < v.opens /\ t.output \notin v.shut
      <4>1. v.opens \in Nat
        BY <1>2 DEF Views
      <4>2. QED
        BY <1>2, <1>3, <2>2, <4>1
    <3>3. Leads(v, <<e2>>, Closing(v, t.output))
      BY <1>2, <3>2, LeadsClose
    <3>4. Leads(v, <<e1, e2>>, Closing(v, t.output))
      BY <3>1, <3>3, LeadsTwo
    <3>5. QED
      BY <2>2, <3>4
  <2>3. QED
    BY <2>1, <2>2
<1>8. /\ w \in Views /\ w.start = v.start /\ w.ends = v.ends /\ w.opens = v.opens
      /\ w.errors = v.errors /\ w.opened = v.opened
      /\ w.shut = IF ~t.started THEN v.shut ELSE v.shut \cup {t.output}
  BY <1>2, <1>3, ViewCloses
<1> HIDE DEF d, w, parts
<1>9. ToolsFit(ts, c.output, w)
  <2>1. \A j \in DOMAIN c.tools : ts[j].output = c.tools[j].output
    BY <1>4, <1>5
  <2>2. \A j \in DOMAIN c.tools : /\ c.tools[j].output < c.output
                                  /\ <<c.tools[j].output, "tool">> \in w.opened
    BY <1>2, <1>8 DEF ToolsFit
  <2>3. ASSUME NEW j \in DOMAIN c.tools, ts[j].started
        PROVE  c.tools[j].output \notin w.shut
    <3>1. j # k
      BY <1>4, <1>5, <2>3
    <3>2. c.tools[j].output \notin v.shut /\ c.tools[j].output # t.output
      BY <1>2, <1>5, <2>3, <3>1 DEF ToolsFit
    <3>3. QED
      BY <1>8, <3>2
  <2>4. \A i, j \in DOMAIN c.tools : i # j => c.tools[i].output # c.tools[j].output
    BY <1>2 DEF ToolsFit
  <2>5. QED
    BY <1>5, <2>1, <2>2, <2>3, <2>4 DEF ToolsFit
<1>10. \A i \in w.shut : i < c.output
  BY <1>2, <1>3, <1>8
<1>11. FitsR(d, w)
  BY <1>6, <1>8, <1>9, <1>10 DEF FitsR
<1>12. QED
  BY <1>1, <1>5, <1>6, <1>7, <1>8, <1>11 DEF StepsR, LiveR

LEMMA CloseToolsSteps ==
    ASSUME NEW c, NEW v, FitsR(c, v), LiveR(c)
    PROVE  LET r == CloseTools(c)
           IN  /\ StepsR(r, c, v)
               /\ (r.conv.message <=> c.message) /\ (r.conv.reasoning <=> c.reasoning)
<1> DEFINE list == [k \in DOMAIN c.tools |-> k]
           N == Len(list)
           next(x, k) == Did(CloseTool(x.conv, list[k]).conv,
                             x.out \o CloseTool(x.conv, list[k]).out)
           Rec(f, n) == f = [k \in 0 .. n |-> IF k = 0 THEN Did(c, <<>>) ELSE next(f[k - 1], k)]
           S == {n \in 0 .. N : \E f : Rec(f, n)}
           r == CloseTools(c)
           fits(x) == /\ StepsR(x, c, v) /\ DOMAIN x.conv.tools = DOMAIN c.tools
                      /\ (x.conv.message <=> c.message) /\ (x.conv.reasoning <=> c.reasoning)
<1>1. N \in Nat /\ DOMAIN c.tools = 1 .. N /\ \A k \in 1 .. N : list[k] = k
  <2>1. c.tools \in Seq(CallsR)
    BY DEF FitsR, ConvR
  <2>2. Len(c.tools) \in Nat /\ DOMAIN c.tools = 1 .. Len(c.tools)
    BY <2>1
  <2>3. list = [k \in 1 .. Len(c.tools) |-> k]
    BY <2>2
  <2> HIDE DEF list
  <2>4. Len(list) = Len(c.tools)
    BY <2>2, <2>3
  <2>5. QED
    BY <2>2, <2>3, <2>4
<1>2. r = (CHOOSE f : Rec(f, N))[N]
  BY Zenon DEF CloseTools, ForEach, Then
<1> HIDE DEF list
<1> HIDE DEF next
<1>3. 0 \in S
  <2> DEFINE f == [k \in 0 .. 0 |-> Did(c, <<>>)]
  <2>1. Rec(f, 0)
    OBVIOUS
  <2> HIDE DEF f, Rec
  <2>2. QED
    BY <1>1, <2>1
<1>4. ASSUME NEW n \in 0 .. (N - 1), n \in S
      PROVE  n + 1 \in S
  <2>1. PICK f : Rec(f, n)
    BY <1>4
  <2> DEFINE g == [k \in 0 .. (n + 1) |-> IF k = n + 1 THEN next(f[n], n + 1) ELSE f[k]]
  <2>2. ASSUME NEW k \in 0 .. (n + 1)
        PROVE  g[k] = IF k = 0 THEN Did(c, <<>>) ELSE next(g[k - 1], k)
    <3>1. CASE k = n + 1
      <4>1. k # 0 /\ k - 1 = n /\ n \in 0 .. (n + 1) /\ n # n + 1
        BY <3>1
      <4>2. g[n] = f[n]
        BY <4>1
      <4>3. QED
        BY <3>1, <4>1, <4>2
    <3>2. CASE k # n + 1
      <4>1. k \in 0 .. n /\ g[k] = f[k]
        BY <3>2
      <4>2. f[k] = IF k = 0 THEN Did(c, <<>>) ELSE next(f[k - 1], k)
        BY <2>1, <4>1
      <4>3. k # 0 => k - 1 \in 0 .. (n + 1) /\ k - 1 # n + 1
        BY <4>1
      <4>4. k # 0 => g[k - 1] = f[k - 1]
        BY <4>3
      <4>5. QED
        BY <4>1, <4>2, <4>4
    <3>3. QED
      BY <3>1, <3>2
  <2>3. Rec(g, n + 1)
    <3>1. g = [k \in 0 .. (n + 1) |-> g[k]]
      OBVIOUS
    <3> HIDE DEF g
    <3>2. QED
      BY <2>2, <3>1
  <2>4. n + 1 \in 0 .. N
    BY <1>1
  <2> HIDE DEF g, Rec
  <2>5. QED
    BY <2>3, <2>4
<1>5. \A n \in 0 .. N : n \in S
  <2> HIDE DEF S, N
  <2>1. QED
    BY <1>1, <1>3, <1>4, UpTo
<1>6. PICK f : Rec(f, N) /\ r = f[N]
  <2>1. N \in S
    BY <1>1, <1>5
  <2>2. \E f : Rec(f, N)
    BY <2>1
  <2> HIDE DEF Rec, N, r
  <2>3. QED
    BY <1>2, <2>2
<1>7. f[0] = Did(c, <<>>) /\ \A k \in 1 .. N : f[k] = next(f[k - 1], k)
  BY <1>1, <1>6
<1> DEFINE T == {n \in 0 .. N : fits(f[n])}
<1>8. 0 \in T
  <2>1. StepsR(Did(c, <<>>), c, v)
    BY LeadsNowhere DEF StepsR, Did, LiveR
  <2>2. fits(Did(c, <<>>))
    BY <2>1 DEF Did
  <2> HIDE DEF fits
  <2>3. QED
    BY <1>1, <1>7, <2>2
<1>9. ASSUME NEW n \in 0 .. (N - 1), n \in T
      PROVE  n + 1 \in T
  <2>1. n + 1 \in 1 .. N /\ n + 1 \in 0 .. N /\ (n + 1) - 1 = n
    BY <1>1
  <2> DEFINE a == f[n]
             b == CloseTool(a.conv, n + 1)
  <2>2. fits(a)
    BY <1>9
  <2>3. f[n + 1] = Did(b.conv, a.out \o b.out)
    BY <1>1, <1>7, <2>1 DEF next
  <2>4. LiveR(a.conv) /\ n + 1 \in DOMAIN a.conv.tools
    BY <1>1, <2>1, <2>2, FitsStepR DEF LiveR
  <2> HIDE DEF a
  <2>5. \A w : FitsR(a.conv, w) =>
               /\ StepsR(b, a.conv, w)
               /\ (b.conv.message <=> a.conv.message) /\ (b.conv.reasoning <=> a.conv.reasoning)
               /\ DOMAIN b.conv.tools = DOMAIN a.conv.tools
    BY <2>4, CloseToolSteps
  <2> HIDE DEF b
  <2>6. \E w : FitsR(a.conv, w)
    BY <2>2 DEF StepsR
  <2>7. StepsR(Did(b.conv, a.out \o b.out), c, v)
    BY <2>2, <2>5, ChainR
  <2>8. fits(Did(b.conv, a.out \o b.out))
    BY <2>2, <2>5, <2>6, <2>7 DEF Did
  <2> HIDE DEF fits
  <2>9. QED
    BY <2>1, <2>3, <2>8
<1>10. \A n \in 0 .. N : n \in T
  <2> HIDE DEF T, N
  <2>1. QED
    BY <1>1, <1>8, <1>9, UpTo
<1>11. fits(r)
  <2>1. N \in T
    BY <1>1, <1>10
  <2> HIDE DEF fits, r, N
  <2>2. QED
    BY <1>6, <2>1
<1>12. QED
  BY <1>11

\* The newest item is closed, a message or reasoning.
BothClosed(c) ==
    LET a == close_message_item(c)
        b == close_reasoning_item(a.conv)
    IN  Did(b.conv, a.out \o b.out)

LEMMA BothClosedSteps ==
    ASSUME NEW c, NEW v, FitsR(c, v), LiveR(c)
    PROVE  LET r == BothClosed(c)
           IN  StepsR(r, c, v) /\ ~r.conv.message /\ ~r.conv.reasoning
<1> DEFINE a == close_message_item(c)
           b == close_reasoning_item(a.conv)
<1>1. StepsR(a, c, v) /\ ~a.conv.message
  BY CloseMessageSteps
<1>2. LiveR(a.conv) /\ \E w : FitsR(a.conv, w)
  BY <1>1, FitsStepR DEF LiveR
<1>3. \A w : FitsR(a.conv, w) => /\ StepsR(b, a.conv, w)
                                 /\ ~b.conv.reasoning /\ (b.conv.message <=> a.conv.message)
  BY <1>2, CloseReasoningSteps
<1> HIDE DEF a, b
<1>4. StepsR(Did(b.conv, a.out \o b.out), c, v)
  BY <1>1, <1>3, ChainR
<1>5. ~b.conv.message /\ ~b.conv.reasoning
  BY <1>1, <1>2, <1>3
<1>6. QED
  BY <1>4, <1>5 DEF BothClosed, Did, a, b

LEMMA CloseItemSteps ==
    ASSUME NEW c, NEW v, FitsR(c, v), LiveR(c)
    PROVE  LET r == close_current_output_item(c)
           IN  StepsR(r, c, v) /\ ~r.conv.message /\ ~r.conv.reasoning
<1> DEFINE a == BothClosed(c)
           b == CloseTools(a.conv)
<1>1. StepsR(a, c, v) /\ ~a.conv.message /\ ~a.conv.reasoning
  BY BothClosedSteps
<1>2. LiveR(a.conv) /\ \E w : FitsR(a.conv, w)
  BY <1>1, FitsStepR DEF LiveR
<1>3. \A w : FitsR(a.conv, w) =>
             /\ StepsR(b, a.conv, w)
             /\ (b.conv.message <=> a.conv.message) /\ (b.conv.reasoning <=> a.conv.reasoning)
  BY <1>2, CloseToolsSteps
<1>4. close_current_output_item(c) = Did(b.conv, a.out \o b.out)
  BY Zenon DEF close_current_output_item, Then, BothClosed
<1> HIDE DEF a, b
<1>5. StepsR(Did(b.conv, a.out \o b.out), c, v)
  BY <1>1, <1>3, ChainR
<1>6. ~b.conv.message /\ ~b.conv.reasoning
  BY <1>1, <1>2, <1>3
<1>7. QED
  BY <1>4, <1>5, <1>6 DEF Did

LEMMA ReasoningItemSteps ==
    ASSUME NEW c, NEW v, FitsR(c, v), LiveR(c)
    PROVE  LET r == ensure_reasoning_item_started(c)
           IN  StepsR(r, c, v) /\ r.conv.reasoning
<1>1. CASE c.reasoning
  <2>1. ensure_reasoning_item_started(c) = Did(c, <<>>)
    BY <1>1 DEF ensure_reasoning_item_started
  <2>2. QED
    BY <1>1, <2>1, LeadsNowhere DEF StepsR, Did, LiveR
<1>2. CASE ~c.reasoning
  <2> DEFINE a == close_current_output_item(c)
             d == a.conv
             e == [d EXCEPT !.reasoning = TRUE, !.summaryPart = FALSE]
             item == <<Message("response.output_item.added", d.output, "thinking", <<>>)>>
             b == Did(e, item)
  <2>1. StepsR(a, c, v) /\ ~d.message /\ ~d.reasoning
    BY CloseItemSteps
  <2>2. LiveR(d)
    BY <2>1, FitsStepR DEF LiveR
  <2>3. ensure_reasoning_item_started(c) = Did(b.conv, a.out \o b.out)
    BY <1>2 DEF ensure_reasoning_item_started, Then
  <2> HIDE DEF a, d
  <2>4. ASSUME NEW w, FitsR(d, w)
        PROVE  StepsR(b, d, w) /\ e.reasoning
    <3>1. d \in ConvR /\ ~d.contentPart
      BY <2>1, <2>4 DEF FitsR
    <3>2. e \in ConvR /\ e.reasoning /\ ~e.message /\ ~e.contentPart
          /\ (e.created <=> d.created) /\ (e.completed <=> d.completed)
          /\ (e.finished <=> d.finished) /\ e.output = d.output /\ e.tools = d.tools
      BY <2>1, <3>1, Zenon DEF ConvR
    <3> HIDE DEF e
    <3>3. PICK x : Leads(w, item, x) /\ FitsR(e, x) /\ x.errors = w.errors
      <4> DEFINE nothing == <<>>
      <4> HIDE DEF nothing
      <4>1. \E x : /\ Leads(w, <<Message("response.output_item.added", d.output, "thinking", nothing)>>, x)
                   /\ FitsR(e, x) /\ x.errors = w.errors
        BY <2>1, <2>2, <2>4, <3>2, OpenItemFits DEF LiveR, OnlyItem
      <4>2. QED
        BY <4>1 DEF nothing
    <3> HIDE DEF item
    <3>4. QED
      BY <2>2, <3>2, <3>3 DEF StepsR, Did, LiveR
  <2>5. \E w : FitsR(d, w)
    BY <2>1 DEF StepsR, d
  <2>6. StepsR(Did(b.conv, a.out \o b.out), c, v)
    <3> HIDE DEF b
    <3>1. QED
      BY <2>1, <2>4, ChainR DEF d
  <2>7. b.conv = e
    BY Zenon DEF Did
  <2> HIDE DEF b, e
  <2>8. QED
    BY <2>3, <2>4, <2>5, <2>6, <2>7 DEF Did
<1>3. QED
  BY <1>1, <1>2

LEMMA ReasoningSteps ==
    ASSUME NEW c, NEW v, FitsR(c, v), LiveR(c), NEW data
    PROVE  StepsR(handle_reasoning_content(c, data), c, v)
<1> DEFINE a == ensure_reasoning_item_started(c)
           d == a.conv
           e == [d EXCEPT !.summaryPart = TRUE]
           part == Message("response.reasoning_summary_part.added", d.output, "thinking", <<>>)
           parts == IF d.summaryPart THEN <<>> ELSE <<part>>
           delta == <<Message("response.reasoning.delta", d.output, "thinking", data)>>
           b == Did(e, parts \o delta)
<1>1. StepsR(a, c, v) /\ d.reasoning
  BY ReasoningItemSteps
<1>2. LiveR(d)
  BY <1>1, FitsStepR DEF LiveR
<1>3. handle_reasoning_content(c, data) = Did(b.conv, a.out \o b.out)
  BY DEF handle_reasoning_content, Then
<1> HIDE DEF a, d
<1>4. ASSUME NEW w, FitsR(d, w)
      PROVE  StepsR(b, d, w)
  <2>1. d \in ConvR /\ d.output \in Nat /\ w.ends = 0 /\ w.start # 0 /\ w.opens = d.output + 1
        /\ <<d.output, "thinking">> \in w.opened /\ \A i \in w.shut : i < d.output
    BY <1>1, <1>2, <1>4 DEF FitsR, ConvR, LiveR
  <2>2. e \in ConvR /\ (e.reasoning <=> d.reasoning) /\ (e.message <=> d.message)
        /\ (e.contentPart <=> d.contentPart)
        /\ (e.created <=> d.created) /\ (e.completed <=> d.completed)
        /\ (e.finished <=> d.finished) /\ e.output = d.output /\ e.tools = d.tools
    BY <2>1, Zenon DEF ConvR
  <2> HIDE DEF e
  <2>3. FitsR(e, w)
    BY <1>4, <2>2 DEF FitsR
  <2>4. Leads(w, parts, w)
    <3>1. Leads(w, <<part>>, w)
      BY <2>1, LeadsDetail DEF Details
    <3>2. QED
      BY <3>1, LeadsNowhere
  <2>5. Leads(w, delta, w)
    <3>1. d.output = w.opens - 1 /\ d.output \notin w.shut
      BY <2>1
    <3>2. QED
      BY <2>1, <3>1, LeadsDelta
  <2> HIDE DEF parts, delta
  <2>6. Leads(w, parts \o delta, w)
    BY <2>4, <2>5, LeadsThen
  <2>7. QED
    BY <1>2, <2>2, <2>3, <2>6 DEF StepsR, Did, LiveR
<1> HIDE DEF b
<1>5. QED
  BY <1>1, <1>3, <1>4, ChainR DEF d

LEMMA TextContentSteps ==
    ASSUME NEW c, NEW v, FitsR(c, v), LiveR(c), NEW data
    PROVE  StepsR(handle_text_content(c, data), c, v)
<1> DEFINE a == close_reasoning_item(c)
           d == a.conv
           e == [d EXCEPT !.message = TRUE, !.contentPart = TRUE]
           item == IF d.message THEN <<>>
                   ELSE <<Message("response.output_item.added", d.output, "text", <<>>)>>
           part == IF d.contentPart THEN <<>>
                   ELSE <<Message("response.content_part.added", d.output, "text", <<>>)>>
           delta == <<Message("response.output_text.delta", d.output, "text", data)>>
           b == Did(e, item \o part \o delta)
<1>1. StepsR(a, c, v) /\ ~d.reasoning
  BY CloseReasoningSteps
<1>2. LiveR(d)
  BY <1>1, FitsStepR DEF LiveR
<1>3. handle_text_content(c, data) = Did(b.conv, a.out \o b.out)
  BY DEF handle_text_content, Then
<1> HIDE DEF a, d
<1>4. ASSUME NEW w, FitsR(d, w)
      PROVE  StepsR(b, d, w)
  <2>1. d \in ConvR /\ d.output \in Nat /\ w.ends = 0 /\ w.start # 0
    BY <1>2, <1>4 DEF FitsR, ConvR, LiveR
  <2>2. e \in ConvR /\ e.message /\ e.contentPart /\ (e.reasoning <=> d.reasoning)
        /\ (e.created <=> d.created) /\ (e.completed <=> d.completed)
        /\ (e.finished <=> d.finished) /\ e.output = d.output /\ e.tools = d.tools
    BY <2>1, Zenon DEF ConvR
  <2> HIDE DEF e
  <2>3. PICK x : Leads(w, item, x) /\ FitsR(e, x) /\ x.errors = w.errors
    <3>1. CASE d.message
      <4>1. FitsR(e, w)
        BY <1>4, <2>2, <3>1 DEF FitsR
      <4>2. QED
        BY <3>1, <4>1, LeadsNowhere
    <3>2. CASE ~d.message
      <4> DEFINE nothing == <<>>
      <4> HIDE DEF nothing
      <4>1. \E x : /\ Leads(w, <<Message("response.output_item.added", d.output, "text", nothing)>>, x)
                   /\ FitsR(e, x) /\ x.errors = w.errors
        <5>1. OnlyItem(e, "text") /\ e.created /\ ~e.completed
          BY <1>1, <1>2, <2>2 DEF OnlyItem, LiveR
        <5>2. QED
          BY <1>1, <1>2, <1>4, <2>2, <3>2, <5>1, OpenItemFits
      <4>2. QED
        BY <3>2, <4>1 DEF nothing
    <3>3. QED
      BY <3>1, <3>2
  <2>4. x.ends = 0 /\ x.start # 0 /\ x.opens = d.output + 1
        /\ <<d.output, "text">> \in x.opened /\ \A i \in x.shut : i < d.output
    BY <1>2, <2>2, <2>3 DEF FitsR, LiveR
  <2>5. Leads(x, part, x)
    <3>1. Leads(x, <<Message("response.content_part.added", d.output, "text", <<>>)>>, x)
      BY <2>4, LeadsDetail DEF Details
    <3>2. QED
      BY <3>1, LeadsNowhere
  <2>6. Leads(x, delta, x)
    <3>1. d.output = x.opens - 1 /\ d.output \notin x.shut
      BY <2>1, <2>4
    <3>2. QED
      BY <2>4, <3>1, LeadsDelta
  <2> HIDE DEF item, part, delta
  <2>7. Leads(w, item \o part \o delta, x)
    <3>1. Leads(w, item \o part, x)
      BY <2>3, <2>5, LeadsThen
    <3>2. QED
      BY <2>6, <3>1, LeadsThen
  <2>8. QED
    BY <1>2, <2>2, <2>3, <2>7 DEF StepsR, Did, LiveR
<1> HIDE DEF b
<1>5. QED
  BY <1>1, <1>3, <1>4, ChainR DEF d

\* A call that is new gets an item of its own.
OpenedCall(c, id) ==
    [c EXCEPT !.tools = Append(@, [id |-> id, output |-> c.output, started |-> TRUE]),
              !.output = @ + 1]

LEMMA OpenCallFits ==
    ASSUME NEW c, NEW v, FitsR(c, v), LiveR(c), ~c.message, ~c.reasoning, NEW id \in Nat, NEW data
    PROVE  LET e == OpenedCall(c, id)
           IN  /\ e.created /\ (e.completed <=> c.completed) /\ (e.finished <=> c.finished)
               /\ ~e.message /\ ~e.reasoning
               /\ Len(c.tools) + 1 \in DOMAIN e.tools
               /\ \E w : /\ Leads(v, <<Message("response.output_item.added", c.output, "tool", data)>>, w)
                         /\ FitsR(e, w) /\ w.errors = v.errors
<1> DEFINE t == [id |-> id, output |-> c.output, started |-> TRUE]
           n == Len(c.tools) + 1
           ts == Append(c.tools, t)
           e == [c EXCEPT !.tools = ts, !.output = @ + 1]
           w == Opening(v, c.output, "tool")
<1>1. /\ c \in ConvR /\ c.output \in Nat /\ c.output + 1 \in Nat /\ c.tools \in Seq(CallsR)
      /\ v \in Views /\ v.opens = c.output /\ v.ends = 0 /\ v.start # 0
      /\ \A i \in v.shut : i < c.output
      /\ ToolsFit(c.tools, c.output, v) /\ ~c.contentPart
  BY DEF FitsR, LiveR, ConvR
<1>2. t \in CallsR /\ t.output = c.output
  BY <1>1 DEF CallsR
<1> HIDE DEF t
<1>3. /\ ts \in Seq(CallsR) /\ DOMAIN ts = DOMAIN c.tools \cup {n} /\ ts[n] = t
      /\ \A j \in DOMAIN c.tools : ts[j] = c.tools[j]
      /\ \A j \in DOMAIN c.tools : j # n
  BY <1>1, <1>2
<1> HIDE DEF ts, n
<1>4. e \in ConvR /\ (e.created <=> c.created) /\ (e.message <=> c.message)
      /\ (e.reasoning <=> c.reasoning) /\ (e.contentPart <=> c.contentPart)
      /\ (e.completed <=> c.completed) /\ (e.finished <=> c.finished)
      /\ e.output = c.output + 1 /\ e.tools = ts
  BY <1>1, <1>3, Zenon DEF ConvR
<1>5. Leads(v, <<Message("response.output_item.added", c.output, "tool", data)>>, w)
  BY <1>1, LeadsOpen
<1>6. /\ w \in Views /\ w.opens = v.opens + 1 /\ w.opened = v.opened \cup {<<c.output, "tool">>}
      /\ w.start = v.start /\ w.ends = v.ends /\ w.errors = v.errors /\ w.shut = v.shut
  <2>1. "tool" \in Sorts
    BY DEF Sorts
  <2>2. QED
    BY <1>1, <2>1, ViewOpens
<1> HIDE DEF e, w
<1>7. ToolsFit(ts, c.output + 1, w)
  <2>1. \A j \in DOMAIN c.tools : c.tools[j].output \in Nat
    <3>1. \A j \in DOMAIN c.tools : c.tools[j] \in CallsR
      BY <1>1
    <3>2. QED
      BY <3>1 DEF CallsR
  <2>2. \A j \in DOMAIN c.tools : c.tools[j].output < c.output
    BY <1>1 DEF ToolsFit
  <2>3. \A j \in DOMAIN c.tools : /\ c.tools[j].output < c.output + 1
                                  /\ c.tools[j].output # c.output
    BY <1>1, <2>1, <2>2
  <2>4. \A j \in DOMAIN c.tools : /\ <<c.tools[j].output, "tool">> \in w.opened
                                  /\ c.tools[j].started => c.tools[j].output \notin w.shut
    BY <1>1, <1>6 DEF ToolsFit
  <2>5. c.output < c.output + 1 /\ <<c.output, "tool">> \in w.opened /\ c.output \notin w.shut
    BY <1>1, <1>6
  <2>6. \A i, j \in DOMAIN c.tools : i # j => c.tools[i].output # c.tools[j].output
    BY <1>1 DEF ToolsFit
  <2>7. \A i \in DOMAIN ts : i = n \/ i \in DOMAIN c.tools
    BY <1>3
  <2>8. QED
    BY <1>2, <1>3, <2>3, <2>4, <2>5, <2>6, <2>7 DEF ToolsFit
<1>8. \A i \in w.shut : i < c.output + 1
  <2>1. \A i \in v.shut : i \in Nat
    BY <1>1 DEF Views
  <2>2. QED
    BY <1>1, <1>6, <2>1
<1>9. FitsR(e, w)
  BY <1>1, <1>4, <1>6, <1>7, <1>8 DEF FitsR
<1>10. e.created /\ ~e.message /\ ~e.reasoning /\ n \in DOMAIN e.tools
  BY <1>3, <1>4 DEF LiveR
<1>11. QED
  BY <1>4, <1>5, <1>6, <1>9, <1>10 DEF OpenedCall, e, t, ts, n

LEMMA CallStepSteps ==
    ASSUME NEW c, NEW v, FitsR(c, v), LiveR(c), ~c.message, ~c.reasoning, NEW t, t.id \in Nat
    PROVE  StepsR(CallStep(c, t), c, v)
<1> DEFINE key == IF t.id = NoId THEN 1 ELSE Len(c.tools) + 1
           new == OpenedCall(c, t.id)
           e == IF key \in DOMAIN c.tools THEN c ELSE new
           item == IF key \in DOMAIN c.tools THEN <<>>
                   ELSE <<Message("response.output_item.added", c.output, "tool", <<t.id>>)>>
           delta == IF t.args = <<>> THEN <<>>
                    ELSE <<Message("response.function_call_arguments.delta",
                                   e.tools[key].output, "tool", t.args)>>
<1>1. ~c.contentPart /\ Len(c.tools) \in Nat /\ DOMAIN c.tools = 1 .. Len(c.tools)
  <2>1. c.tools \in Seq(CallsR) /\ ~c.contentPart
    BY DEF FitsR, ConvR
  <2>2. QED
    BY <2>1
<1>2. CallStep(c, t) = Did(e, item \o delta)
  <2>1. close_current_content_part(c) = Did(c, <<>>)
    BY <1>1 DEF close_current_content_part
  <2>2. CASE key \in DOMAIN c.tools
    <3>1. CallStep(c, t) = Then(Did(c, <<>>), LAMBDA d : Did(d, IF t.args = <<>> THEN <<>>
                               ELSE <<Message("response.function_call_arguments.delta",
                                              d.tools[key].output, "tool", t.args)>>))
      BY <2>2 DEF CallStep
    <3>2. QED
      BY <2>2, <3>1 DEF Then, Did
  <2>3. CASE key \notin DOMAIN c.tools
    <3> DEFINE first == <<Message("response.output_item.added", c.output, "tool", <<t.id>>)>>
    <3>1. CallStep(c, t) = Then(Did(new, <<>> \o first),
                                LAMBDA d : Did(d, IF t.args = <<>> THEN <<>>
                                   ELSE <<Message("response.function_call_arguments.delta",
                                              d.tools[key].output, "tool", t.args)>>))
      BY <2>1, <2>3 DEF CallStep, Then, Did, OpenedCall
    <3>2. <<>> \o first = first
      <4>1. first \in Seq({first[1]})
        OBVIOUS
      <4> HIDE DEF first
      <4>2. QED
        BY <4>1, ConcatEmptySeq
    <3> HIDE DEF new, first
    <3>3. CallStep(c, t) = Then(Did(new, first),
                                LAMBDA d : Did(d, IF t.args = <<>> THEN <<>>
                                   ELSE <<Message("response.function_call_arguments.delta",
                                              d.tools[key].output, "tool", t.args)>>))
      BY <3>1, <3>2
    <3>4. CallStep(c, t) = Did(new, first \o (IF t.args = <<>> THEN <<>>
                                   ELSE <<Message("response.function_call_arguments.delta",
                                              new.tools[key].output, "tool", t.args)>>))
      BY <3>3 DEF Then, Did
    <3>5. QED
      BY <2>3, <3>4 DEF first
  <2>4. QED
    BY <2>2, <2>3
<1>3. /\ e.created /\ (e.completed <=> c.completed) /\ (e.finished <=> c.finished)
      /\ key \in DOMAIN e.tools
      /\ \E w : Leads(v, item, w) /\ FitsR(e, w) /\ w.errors = v.errors
  <2>1. CASE key \in DOMAIN c.tools
    BY <2>1, LeadsNowhere DEF LiveR
  <2>2. CASE key \notin DOMAIN c.tools
    <3> DEFINE data == <<t.id>>
    <3> HIDE DEF data
    <3>1. key = Len(c.tools) + 1
      BY <1>1, <2>2
    <3>2. /\ new.created /\ (new.completed <=> c.completed) /\ (new.finished <=> c.finished)
          /\ Len(c.tools) + 1 \in DOMAIN new.tools
          /\ \E w : /\ Leads(v, <<Message("response.output_item.added", c.output, "tool", data)>>, w)
                    /\ FitsR(new, w) /\ w.errors = v.errors
      <4> DEFINE id == t.id
      <4>1. id \in Nat
        OBVIOUS
      <4> HIDE DEF new, id
      <4>2. LET x == OpenedCall(c, id)
            IN  /\ x.created /\ (x.completed <=> c.completed) /\ (x.finished <=> c.finished)
                /\ ~x.message /\ ~x.reasoning
                /\ Len(c.tools) + 1 \in DOMAIN x.tools
                /\ \E w : /\ Leads(v, <<Message("response.output_item.added", c.output, "tool", data)>>, w)
                         /\ FitsR(x, w) /\ w.errors = v.errors
        BY <4>1, OpenCallFits
      <4>3. QED
        BY <4>2 DEF new, id
    <3> HIDE DEF new, key
    <3>3. QED
      BY <2>2, <3>1, <3>2 DEF data
  <2>3. QED
    BY <2>1, <2>2
<1>4. PICK w : Leads(v, item, w) /\ FitsR(e, w) /\ w.errors = v.errors
  BY <1>3
<1> HIDE DEF e, item, key, new
<1>5. Leads(w, delta, w)
  <2>1. <<e.tools[key].output, "tool">> \in w.opened /\ w.ends = 0 /\ w.start # 0
    BY <1>3, <1>4 DEF FitsR, ToolsFit, LiveR
  <2>2. Leads(w, <<Message("response.function_call_arguments.delta",
                           e.tools[key].output, "tool", t.args)>>, w)
    BY <2>1, LeadsDelta
  <2>3. QED
    BY <2>2, LeadsNowhere
<1> HIDE DEF delta
<1>6. Leads(v, item \o delta, w)
  BY <1>4, <1>5, LeadsThen
<1>7. QED
  BY <1>2, <1>3, <1>4, <1>6 DEF StepsR, Did

LEMMA OneCall ==
    ASSUME NEW step, NEW t
    PROVE  ForEach(step, <<t>>, CallStep)
           = LET next == CallStep(step.conv, t)
             IN  Did(next.conv, step.out \o next.out)
<1> DEFINE next == CallStep(step.conv, t)
           all == Did(next.conv, step.out \o next.out)
           f == [k \in 0 .. 1 |-> IF k = 0 THEN step ELSE all]
           Rec(after) == after = [k \in 0 .. 1 |-> IF k = 0 THEN step
                                    ELSE LET n == CallStep(after[k - 1].conv, <<t>>[k])
                                         IN  Did(n.conv, after[k - 1].out \o n.out)]
<1>1. Rec(f)
  OBVIOUS
<1>2. ForEach(step, <<t>>, CallStep) = (CHOOSE after : Rec(after))[1]
  BY DEF ForEach, Then
<1>3. ASSUME NEW after, Rec(after)
      PROVE  after[1] = all
  <2>1. after[0] = step
    BY <1>3
  <2>2. QED
    BY <1>3, <2>1
<1>4. QED
  BY <1>1, <1>2, <1>3

LEMMA CallsSteps ==
    ASSUME NEW c, NEW v, FitsR(c, v), LiveR(c), NEW t, t.id \in Nat
    PROVE  StepsR(HandleCalls(c, <<t>>), c, v)
<1> DEFINE a == BothClosed(c)
           b == CallStep(a.conv, t)
<1>1. HandleCalls(c, <<t>>) = ForEach(a, <<t>>, CallStep)
  BY Zenon DEF HandleCalls, Then, BothClosed
<1>2. HandleCalls(c, <<t>>) = Did(b.conv, a.out \o b.out)
  <2> HIDE DEF a
  <2>1. QED
    BY <1>1, OneCall
<1>3. StepsR(a, c, v) /\ ~a.conv.message /\ ~a.conv.reasoning
  BY BothClosedSteps
<1>4. LiveR(a.conv)
  BY <1>3, FitsStepR DEF LiveR
<1>5. \A w : FitsR(a.conv, w) => StepsR(b, a.conv, w)
  BY <1>3, <1>4, CallStepSteps
<1> HIDE DEF a, b
<1>6. QED
  BY <1>2, <1>3, <1>5, ChainR

\* The end of a response: everything is closed, and the response is completed.
LEMMA FinishStepsR ==
    ASSUME NEW c, NEW v, FitsR(c, v), LiveR(c), ~c.finished
    PROVE  LET r == HandleFinish(c)
           IN  /\ r.conv.finished /\ r.conv.completed
               /\ \E w : Leads(v, r.out, w) /\ FitsR(r.conv, w) /\ w.errors = v.errors
<1> DEFINE c0 == [c EXCEPT !.finished = TRUE]
           a == close_current_output_item(c0)
           d == a.conv
           e == [d EXCEPT !.completed = TRUE]
           done == <<Message("response.completed", 0, "none", <<>>)>>
<1>1. c0 \in ConvR /\ c0.finished /\ (c0.created <=> c.created) /\ (c0.completed <=> c.completed)
      /\ (c0.message <=> c.message) /\ (c0.reasoning <=> c.reasoning)
      /\ (c0.contentPart <=> c.contentPart) /\ c0.output = c.output /\ c0.tools = c.tools
  <2>1. c \in ConvR
    BY DEF FitsR
  <2>2. QED
    BY <2>1, Zenon DEF ConvR
<1> HIDE DEF c0
<1>2. FitsR(c0, v) /\ LiveR(c0)
  BY <1>1 DEF FitsR, LiveR
<1>3. StepsR(a, c0, v) /\ ~d.message /\ ~d.reasoning
  BY <1>2, CloseItemSteps
<1>4. d.finished /\ ~d.completed /\ d.created
  BY <1>1, <1>2, <1>3 DEF StepsR, LiveR
<1>5. HandleFinish(c).conv = e /\ HandleFinish(c).out = a.out \o done
  <2>1. ~d.completed
    BY <1>4
  <2>2. QED
    BY <2>1 DEF HandleFinish, Completed, Then, Did, c0
<1>6. PICK w : Leads(v, a.out, w) /\ FitsR(d, w) /\ w.errors = v.errors
  BY <1>3 DEF StepsR
<1> HIDE DEF a, d
<1>7. d \in ConvR /\ w \in Views /\ w.ends = 0 /\ w.start # 0
  BY <1>4, <1>6 DEF FitsR
<1>8. Leads(w, done, Ending(w))
  BY <1>7, LeadsEnd
<1>9. Leads(v, a.out \o done, Ending(w))
  <2> HIDE DEF done
  <2>1. QED
    BY <1>6, <1>8, LeadsThen
<1>10. e \in ConvR /\ e.completed /\ e.finished /\ e.created /\ (e.message <=> d.message)
       /\ (e.reasoning <=> d.reasoning) /\ (e.contentPart <=> d.contentPart)
       /\ e.output = d.output /\ e.tools = d.tools
  BY <1>4, <1>7, Zenon DEF ConvR
<1> HIDE DEF e
<1>11. LET x == Ending(w)
       IN  /\ x \in Views /\ x.ends = w.ends + 1 /\ x.start = w.start /\ x.opens = w.opens
           /\ x.errors = w.errors /\ x.opened = w.opened /\ x.shut = w.shut
  BY <1>7, ViewChanges
<1>12. FitsR(e, Ending(w))
  BY <1>6, <1>7, <1>10, <1>11 DEF FitsR, ToolsFit
<1>13. Ending(w).errors = v.errors
  BY <1>6, <1>11
<1>14. QED
  <2> HIDE DEF done
  <2>1. QED
    BY <1>5, <1>9, <1>10, <1>12, <1>13, Zenon

LEMMA ConvertResponsesFits ==
    ASSUME NEW c, NEW v, FitsR(c, v), c.finished <=> c.completed,
           NEW d, IsDelta(d), c.finished => Bare(d)
    PROVE  LET r == ConvertResponses(c, d)
           IN  /\ r.conv.finished <=> r.conv.completed
               /\ r.conv.finished <=> c.finished \/ (d.choice /\ d.finish)
               /\ \E w : Leads(v, r.out, w) /\ FitsR(r.conv, w) /\ w.errors = v.errors
<1> DEFINE s1 == ensure_response_created(c)
           s2 == When(d.choice /\ d.reasoning # <<>>, s1, LAMBDA x : handle_reasoning_content(x, d.reasoning))
           s3 == When(d.choice /\ d.text # <<>>, s2, LAMBDA x : handle_text_content(x, d.text))
           s4 == When(d.choice /\ d.tools # <<>>, s3, LAMBDA x : HandleCalls(x, d.tools))
           s5 == When(d.choice /\ d.finish, s4, HandleFinish)
           s6 == When(d.usage /\ s5.conv.finished /\ ~s5.conv.completed, s5, HandleFinish)
<1>1. StepsR(s1, c, v)
  BY EnsureCreatedSteps
<1>2. ConvertResponses(c, d) = s6
  BY Zenon DEF ConvertResponses
<1>3. CASE c.finished
  <2> DEFINE same == Did(c, <<>>)
  <2>1. Bare(d) /\ c.created /\ c.completed
    BY <1>3 DEF FitsR
  <2>2. s1 = same
    BY <2>1 DEF ensure_response_created
  <2> HIDE DEF s1
  <2>3. s2 = s1 /\ s3 = s1 /\ s4 = s1
    BY <2>1 DEF When, Bare
  <2> HIDE DEF s2, s3, s4
  <2>4. HandleFinish(c) = same /\ same.conv = c /\ same.out = <<>> /\ <<>> \o <<>> = <<>>
    <3>1. HandleFinish(c) = same
      BY <1>3, Zenon DEF HandleFinish
    <3>2. QED
      BY <3>1 DEF Did
  <2>5. Then(same, HandleFinish) = same
    BY <2>4 DEF Then, Did
  <2> HIDE DEF same
  <2>6. s5 = same
    BY <2>2, <2>3, <2>5, Zenon DEF When
  <2> HIDE DEF s5
  <2>7. s6 = same
    BY <2>1, <2>4, <2>6 DEF When
  <2> HIDE DEF s6
  <2>8. ConvertResponses(c, d).conv = c /\ ConvertResponses(c, d).out = <<>>
    BY <1>2, <2>4, <2>7
  <2>9. Leads(v, <<>>, v)
    BY LeadsNowhere
  <2>10. QED
    BY <1>3, <2>8, <2>9
<1>4. CASE ~c.finished
  <2>0. ~c.completed
    BY <1>4
  <2>1. StepsR(s2, c, v)
    <3>1. CASE d.choice /\ d.reasoning # <<>>
      <4> DEFINE b == handle_reasoning_content(s1.conv, d.reasoning)
      <4>1. s2 = Did(b.conv, s1.out \o b.out)
        BY <3>1 DEF When, Then
      <4>2. LiveR(s1.conv)
        BY <1>1, <2>0, FitsStepR
      <4> HIDE DEF s1
      <4>3. \A w : FitsR(s1.conv, w) => StepsR(b, s1.conv, w)
        BY <4>2, ReasoningSteps
      <4> HIDE DEF b, s2
      <4>4. QED
        BY <1>1, <4>1, <4>3, ChainR
    <3>2. CASE ~(d.choice /\ d.reasoning # <<>>)
      BY <1>1, <3>2 DEF When
    <3>3. QED
      BY <3>1, <3>2
  <2> HIDE DEF s1, s2
  <2>2. StepsR(s3, c, v)
    <3>1. CASE d.choice /\ d.text # <<>>
      <4> DEFINE b == handle_text_content(s2.conv, d.text)
      <4>1. s3 = Did(b.conv, s2.out \o b.out)
        BY <3>1 DEF When, Then
      <4>2. LiveR(s2.conv)
        BY <2>0, <2>1, FitsStepR
      <4>3. \A w : FitsR(s2.conv, w) => StepsR(b, s2.conv, w)
        BY <4>2, TextContentSteps
      <4> HIDE DEF b, s3
      <4>4. QED
        BY <2>1, <4>1, <4>3, ChainR
    <3>2. CASE ~(d.choice /\ d.text # <<>>)
      BY <2>1, <3>2 DEF When
    <3>3. QED
      BY <3>1, <3>2
  <2> HIDE DEF s3
  <2>3. StepsR(s4, c, v)
    <3>1. CASE d.choice /\ d.tools # <<>>
      <4> DEFINE b == HandleCalls(s3.conv, d.tools)
      <4>0. PICK t : t.id \in Nat /\ d.tools = <<t>>
        BY <3>1 DEF IsDelta
      <4>1. s4 = Did(b.conv, s3.out \o b.out)
        BY <3>1 DEF When, Then
      <4>2. LiveR(s3.conv)
        BY <2>0, <2>2, FitsStepR
      <4>3. \A w : FitsR(s3.conv, w) => StepsR(b, s3.conv, w)
        BY <4>0, <4>2, CallsSteps
      <4> HIDE DEF b, s4
      <4>4. QED
        BY <2>2, <4>1, <4>3, ChainR
    <3>2. CASE ~(d.choice /\ d.tools # <<>>)
      BY <2>2, <3>2 DEF When
    <3>3. QED
      BY <3>1, <3>2
  <2> HIDE DEF s4
  <2>4. CASE ~(d.choice /\ d.finish)
    <3>1. s5 = s4
      BY <2>4 DEF When
    <3> HIDE DEF s5
    <3>2. ~s5.conv.finished /\ (s5.conv.finished <=> s5.conv.completed)
      BY <1>4, <2>3, <3>1 DEF StepsR
    <3>3. s6 = s5
      BY <3>2 DEF When
    <3> HIDE DEF s6
    <3>4. QED
      BY <1>2, <1>4, <2>3, <2>4, <3>1, <3>2, <3>3 DEF StepsR
  <2>5. CASE d.choice /\ d.finish
    <3> DEFINE b == HandleFinish(s4.conv)
    <3>1. s5 = Did(b.conv, s4.out \o b.out)
      BY <2>5 DEF When, Then
    <3>2. PICK w : Leads(v, s4.out, w) /\ FitsR(s4.conv, w) /\ w.errors = v.errors
      BY <2>3 DEF StepsR
    <3>3. LiveR(s4.conv) /\ ~s4.conv.finished
      BY <1>4, <2>0, <2>3, FitsStepR DEF StepsR
    <3>4. /\ b.conv.finished /\ b.conv.completed
          /\ \E x : Leads(w, b.out, x) /\ FitsR(b.conv, x) /\ x.errors = w.errors
      BY <3>2, <3>3, FinishStepsR
    <3> HIDE DEF b
    <3>5. PICK x : Leads(w, b.out, x) /\ FitsR(b.conv, x) /\ x.errors = w.errors
      BY <3>4
    <3>6. Leads(v, s4.out \o b.out, x)
      BY <3>2, <3>5, LeadsThen
    <3> HIDE DEF s5
    <3>7. s5.conv = b.conv /\ s5.out = s4.out \o b.out
      BY <3>1, Zenon DEF Did
    <3>8. s6 = s5
      BY <3>4, <3>7 DEF When
    <3> HIDE DEF s6
    <3>9. b.conv.finished = TRUE /\ b.conv.completed = TRUE
      <4>1. b.conv.finished \in BOOLEAN /\ b.conv.completed \in BOOLEAN
        BY <3>5 DEF FitsR, ConvR
      <4>2. QED
        BY <3>4, <4>1
    <3>10. /\ ConvertResponses(c, d).conv = b.conv
           /\ ConvertResponses(c, d).out = s4.out \o b.out
      BY <1>2, <3>7, <3>8
    <3>11. x.errors = v.errors
      BY <3>2, <3>5
    <3>12. QED
      BY <2>5, <3>5, <3>6, <3>9, <3>10, <3>11
  <2>6. QED
    BY <2>4, <2>5
<1>5. QED
  BY <1>3, <1>4

-----------------------------------------------------------------------------
(* The events of the upstream, decoded (protocol/outbound).                *)

LEMMA Decodes ==
    ASSUME up \in Endpoints, NEW e \in UpstreamEvents
    PROVE  LET d == Decode(up, e)
           IN  /\ IsDelta(d)
               /\ d.choice /\ d.finish <=> e.kind = "finish"
               /\ e.kind = "finish" => d # NoDelta
               /\ Ended => Bare(d)
               /\ IsError(e) => d = NoDelta
<1> DEFINE d == Decode(up, e)
           Kinds == {"begin", "text", "reasoning", "toolStart", "toolArgs", "finish", "usage", "error"}
<1>1. e.kind \in Kinds /\ e.call \in Nat
  <2>1. e \in Begins \cup Contents \cup ToolStarts \cup ToolArgs \cup Rest
    BY DEF UpstreamEvents
  <2>2. CASE e \in Begins
    BY <2>2 DEF Begins, Event
  <2>3. CASE e \in Contents
    BY <2>3 DEF Contents, Event
  <2>4. CASE e \in ToolStarts \cup ToolArgs
    <3>1. \A k \in 1 .. MaxCalls : k \in Nat
      OBVIOUS
    <3>2. PICK k \in 1 .. MaxCalls : e = Event("toolStart", <<>>, k) \/ e = Event("toolArgs", <<>>, k)
      BY <2>4 DEF ToolStarts, ToolArgs
    <3>3. QED
      BY <3>1, <3>2 DEF Event
  <2>5. CASE e \in Rest
    BY <2>5 DEF Rest, Event
  <2>6. QED
    BY <2>1, <2>2, <2>3, <2>4, <2>5
<1>2. Ended => e.kind \in {"finish", "usage", "error"}
  BY DEF UpstreamEvents, Follows
<1>3. EmptyDelta.choice /\ ~EmptyDelta.finish /\ ~EmptyDelta.usage /\ EmptyDelta.tools = <<>>
  BY DEF EmptyDelta
<1>4. ~NoDelta.choice /\ ~NoDelta.finish /\ ~NoDelta.usage /\ NoDelta.tools = <<>>
  BY DEF EmptyDelta, NoDelta
<1>5. IsDelta(EmptyDelta) /\ IsDelta(NoDelta) /\ Bare(NoDelta)
  BY DEF IsDelta, Bare, EmptyDelta, NoDelta
<1>6. LET x == TextDelta(e) IN IsDelta(x) /\ x.choice /\ ~x.finish
  BY DEF IsDelta, TextDelta, EmptyDelta
<1>7. ASSUME NEW index, NEW id \in Nat, NEW args
      PROVE  LET x == ToolDelta(index, id, args) IN IsDelta(x) /\ x.choice /\ ~x.finish
  <2> DEFINE x == ToolDelta(index, id, args)
             t == [index |-> index, id |-> id, args |-> args]
  <2>1. x.tools = <<t>> /\ t.id \in Nat
    BY DEF ToolDelta, EmptyDelta
  <2>2. x.choice = TRUE /\ x.finish = FALSE /\ x.usage = FALSE
    BY DEF ToolDelta, EmptyDelta
  <2> HIDE DEF x, t
  <2>3. QED
    BY <2>1, <2>2 DEF IsDelta, x
<1>8. LET x == [EmptyDelta EXCEPT !.finish = TRUE]
      IN  IsDelta(x) /\ x.choice /\ x.finish /\ Bare(x) /\ x # NoDelta
  BY DEF IsDelta, Bare, EmptyDelta, NoDelta
<1>9. LET x == [EmptyDelta EXCEPT !.finish = TRUE, !.usage = TRUE]
      IN  IsDelta(x) /\ x.choice /\ x.finish /\ Bare(x) /\ x # NoDelta
  BY DEF IsDelta, Bare, EmptyDelta, NoDelta
<1>10. LET x == [NoDelta EXCEPT !.usage = TRUE]
       IN  IsDelta(x) /\ ~x.choice /\ ~x.finish /\ Bare(x)
  BY DEF IsDelta, Bare, EmptyDelta, NoDelta
<1>11. NoId \in Nat
  BY DEF NoId
<1> HIDE DEF Kinds
<1>12. /\ IsDelta(d) /\ (d.choice /\ d.finish <=> e.kind = "finish")
       /\ e.kind = "finish" => d # NoDelta
       /\ e.kind \in {"finish", "usage", "error"} => Bare(d)
       /\ e.kind = "error" => d = NoDelta
  <2>1. CASE up = OpenAiChat
    <3>1. d = DecodeChat(e)
      BY <2>1 DEF Decode, Anthropic, OpenAiChat, OpenAiResponse
    <3>2. QED
      BY <1>1, <1>3, <1>4, <1>5, <1>6, <1>7, <1>8, <1>10, <1>11, <3>1 DEF DecodeChat, Kinds
  <2>2. CASE up = Anthropic
    <3>1. d = DecodeAnthropic(e)
      BY <2>2 DEF Decode, Anthropic, OpenAiChat, OpenAiResponse
    <3>2. QED
      BY <1>1, <1>3, <1>4, <1>5, <1>6, <1>7, <1>8, <1>11, <3>1 DEF DecodeAnthropic, Kinds
  <2>3. CASE up = OpenAiResponse
    <3>1. d = DecodeResponses(e)
      BY <2>3 DEF Decode, Anthropic, OpenAiChat, OpenAiResponse
    <3>2. QED
      BY <1>1, <1>3, <1>4, <1>5, <1>6, <1>7, <1>9, <1>11, <3>1 DEF DecodeResponses, Kinds
  <2>4. QED
    BY <2>1, <2>2, <2>3 DEF Endpoints
<1> HIDE DEF d
<1>13. QED
  BY <1>2, <1>12 DEF IsError, d

LEMMA Observes ==
    ASSUME NEW f, NEW d, IsDelta(d), d = [choice |-> d.choice, text |-> d.text,
               reasoning |-> d.reasoning, tools |-> d.tools, finish |-> d.finish, usage |-> d.usage]
    PROVE  LET x == ObserveDelta(f, d).delta
           IN  /\ IsDelta(x) /\ (x.choice <=> d.choice) /\ (x.finish <=> d.finish)
               /\ Bare(d) => Bare(x)
  BY DEF ObserveDelta, IsDelta, Bare

LEMMA CountGrows ==
    ASSUME IsSeq(sent), NEW e, sent' = Append(sent, e), NEW kind
    PROVE  /\ Count(kind) \in Nat
           /\ Count(kind)' = IF e.kind = kind THEN Count(kind) + 1 ELSE Count(kind)
<1> DEFINE n == Len(sent) + 1
           A == {i \in DOMAIN sent : sent[i].kind = kind}
           B == {i \in DOMAIN sent' : sent'[i].kind = kind}
<1>1. /\ Len(sent) \in Nat /\ DOMAIN sent = 1 .. Len(sent)
      /\ DOMAIN sent' = DOMAIN sent \cup {n} /\ sent'[n] = e /\ n \notin DOMAIN sent
      /\ \A i \in DOMAIN sent : sent'[i] = sent[i]
  BY DEF IsSeq
<1>2. IsFiniteSet(A)
  <2>1. IsFiniteSet(DOMAIN sent)
    BY <1>1, FS_Interval
  <2>2. QED
    BY <2>1, FS_Subset
<1>3. n \notin A /\ B = IF e.kind = kind THEN A \cup {n} ELSE A
  BY <1>1
<1> HIDE DEF A, B
<1>4. Cardinality(A) \in Nat
  BY <1>2, FS_CardinalityType
<1>5. Cardinality(B) = IF e.kind = kind THEN Cardinality(A) + 1 ELSE Cardinality(A)
  BY <1>2, <1>3, FS_AddElement
<1>6. Count(kind) = Cardinality(A) /\ Count(kind)' = Cardinality(B)
  BY DEF Count, A, B
<1>7. QED
  BY <1>4, <1>5, <1>6
\* A delta has all six fields.
Shaped(d) ==
    d = [choice |-> d.choice, text |-> d.text, reasoning |-> d.reasoning,
         tools |-> d.tools, finish |-> d.finish, usage |-> d.usage]

LEMMA DecodesShaped ==
    ASSUME up \in Endpoints, NEW e
    PROVE  Shaped(Decode(up, e))
<1>1. ASSUME NEW d, Shaped(d), NEW a
      PROVE  /\ Shaped([d EXCEPT !.choice = a]) /\ Shaped([d EXCEPT !.text = a])
             /\ Shaped([d EXCEPT !.reasoning = a]) /\ Shaped([d EXCEPT !.tools = a])
             /\ Shaped([d EXCEPT !.finish = a]) /\ Shaped([d EXCEPT !.usage = a])
  <2>1. Shaped([d EXCEPT !.choice = a])
    BY <1>1 DEF Shaped
  <2>2. Shaped([d EXCEPT !.text = a]) /\ Shaped([d EXCEPT !.reasoning = a])
    BY <1>1 DEF Shaped
  <2>3. Shaped([d EXCEPT !.tools = a]) /\ Shaped([d EXCEPT !.finish = a])
    BY <1>1 DEF Shaped
  <2>4. Shaped([d EXCEPT !.usage = a])
    BY <1>1 DEF Shaped
  <2>5. QED
    BY <2>1, <2>2, <2>3, <2>4
<1>2. Shaped(EmptyDelta)
  BY DEF Shaped, EmptyDelta
<1>3. Shaped(NoDelta)
  BY <1>1, <1>2, Zenon DEF NoDelta
<1>4. /\ Shaped(TextDelta(e))
      /\ \A index, id, args : Shaped(ToolDelta(index, id, args))
      /\ Shaped([EmptyDelta EXCEPT !.finish = TRUE])
      /\ Shaped([EmptyDelta EXCEPT !.finish = TRUE, !.usage = TRUE])
      /\ Shaped([NoDelta EXCEPT !.usage = TRUE])
  <2>1. [EmptyDelta EXCEPT !.finish = TRUE, !.usage = TRUE]
            = [[EmptyDelta EXCEPT !.finish = TRUE] EXCEPT !.usage = TRUE]
    BY DEF EmptyDelta
  <2>2. Shaped([EmptyDelta EXCEPT !.finish = TRUE, !.usage = TRUE])
    BY <1>1, <1>2, <2>1, Zenon
  <2>3. QED
    BY <1>1, <1>2, <1>3, <2>2, Zenon DEF TextDelta, ToolDelta
<1>5. CASE up = OpenAiChat
  <2>1. Decode(up, e) = DecodeChat(e)
    BY <1>5 DEF Decode, Anthropic, OpenAiChat, OpenAiResponse
  <2>2. QED
    BY <1>2, <1>3, <1>4, <2>1 DEF DecodeChat
<1>6. CASE up = Anthropic
  <2>1. Decode(up, e) = DecodeAnthropic(e)
    BY <1>6 DEF Decode, Anthropic, OpenAiChat, OpenAiResponse
  <2>2. QED
    BY <1>2, <1>3, <1>4, <2>1 DEF DecodeAnthropic
<1>7. CASE up = OpenAiResponse
  <2>1. Decode(up, e) = DecodeResponses(e)
    BY <1>7 DEF Decode, Anthropic, OpenAiChat, OpenAiResponse
  <2>2. QED
    BY <1>2, <1>3, <1>4, <2>1 DEF DecodeResponses
<1>8. QED
  BY <1>5, <1>6, <1>7 DEF Endpoints

\* What the client that speaks k has been told, v, when a converter of its has
\* the state c: of the first error, and of the end.
Told(u, k, c, v, bad, over) ==
    /\ v \in Views
    /\ u = k => v.ends = 0
    /\ u # k => v.errors = IF bad THEN 1 ELSE 0
    /\ u # k /\ k = OpenAiChat => v.ends = 0
    /\ u # k /\ k = Anthropic =>
          FitsA(c, v) /\ c.finished = c.stopped /\ (c.finished <=> over)
    /\ u # k /\ k = OpenAiResponse =>
          FitsR(c, v) /\ (c.finished <=> c.completed) /\ (c.finished <=> over)

\* An error changes nothing that a converter looks at.
LEMMA FailingFits ==
    ASSUME NEW c, NEW v
    PROVE  /\ FitsA(c, v) => FitsA(c, Failing(v))
           /\ FitsR(c, v) => FitsR(c, Failing(v))
<1> DEFINE w == Failing(v)
<1>1. v \in Views => /\ w \in Views /\ w.start = v.start /\ w.ends = v.ends
                     /\ w.opens = v.opens /\ w.opened = v.opened /\ w.shut = v.shut
  BY ViewChanges
<1> HIDE DEF w
<1>2. FitsA(c, v) => FitsA(c, w)
  BY <1>1 DEF FitsA
<1>3. FitsR(c, v) => FitsR(c, w)
  BY <1>1 DEF FitsR, ToolsFit
<1>4. QED
  BY <1>2, <1>3 DEF w

LEMMA ConvertEventTold ==
    ASSUME up \in Endpoints, client \in Endpoints, Converts, connected, failed \in BOOLEAN,
           NEW v, Told(up, client, conv, v, failed, Ended),
           NEW e \in UpstreamEvents, NEW observe \in BOOLEAN,
           ConvertEvent(e, observe), Extracted(e)
    PROVE  \E w : /\ Leads(v, out', w)
                  /\ Told(up, client, conv', w, failed', Ended \/ e.kind = "finish")
<1> DEFINE d    == Decode(up, e)
           x    == IF observe /\ thinking THEN ObserveDelta(filter, d).delta ELSE d
           step == Convert(conv, x)
           over == Ended \/ e.kind = "finish"
<1>1. /\ IsDelta(x)
      /\ (x.choice /\ x.finish <=> e.kind = "finish")
      /\ (Ended => Bare(x))
      /\ e.kind = "finish" => d # NoDelta
      /\ e.kind = "finish" => ~IsError(e)
      /\ IsError(e) => d = NoDelta
  <2>1. /\ IsDelta(d) /\ (d.choice /\ d.finish <=> e.kind = "finish")
        /\ (Ended => Bare(d)) /\ (e.kind = "finish" => d # NoDelta)
        /\ (IsError(e) => d = NoDelta)
    BY Decodes
  <2>2. Shaped(d)
    BY DecodesShaped
  <2> HIDE DEF d
  <2>3. LET y == ObserveDelta(filter, d).delta
        IN  /\ IsDelta(y) /\ (y.choice <=> d.choice) /\ (y.finish <=> d.finish)
            /\ Bare(d) => Bare(y)
    BY <2>1, <2>2, Observes DEF Shaped
  <2>4. QED
    BY <2>1, <2>3 DEF IsError
<1> HIDE DEF d
<1>2. CASE FirstError(e)
  <2>1. /\ out' = <<ErrorEvent>> /\ conv' = conv /\ failed' /\ ~failed /\ (over <=> Ended)
    BY <1>1, <1>2 DEF ConvertEvent, Sent, Extracted, FirstError, d
  <2>2. Leads(v, out', Failing(v))
    BY <2>1, LeadsError
  <2>3. v \in Views
    BY DEF Told
  <2>4. Failing(v) \in Views /\ Failing(v).ends = v.ends /\ Failing(v).errors = v.errors + 1
    BY <2>3, ViewChanges
  <2>5. Told(up, client, conv, Failing(v), failed', over)
    <3> DEFINE w == Failing(v)
    <3>1. v.errors = 0
      BY <2>1 DEF Told, Converts
    <3>2. w \in Views /\ w.ends = v.ends /\ w.errors = 1
      BY <2>4, <3>1
    <3>3. (FitsA(conv, v) => FitsA(conv, w)) /\ (FitsR(conv, v) => FitsR(conv, w))
      BY FailingFits
    <3> HIDE DEF w, over
    <3>4. QED
      BY <2>1, <3>2, <3>3 DEF Told, Converts, w
  <2>6. QED
    BY <2>1, <2>2, <2>5
<1>3. CASE ~FirstError(e) /\ d = NoDelta
  <2>1. out' = <<>> /\ conv' = conv
    BY <1>3 DEF ConvertEvent, d
  <2>2. (failed' <=> failed) /\ (over <=> Ended)
    BY <1>1, <1>3 DEF Extracted, FirstError
  <2>3. Leads(v, out', v)
    BY <2>1, LeadsNowhere
  <2> HIDE DEF over
  <2>4. Told(up, client, conv', v, failed', over)
    BY <2>1, <2>2 DEF Told
  <2>5. QED
    BY <2>3, <2>4 DEF over
<1>4. CASE ~FirstError(e) /\ d # NoDelta
  <2>1. out' = step.out /\ conv' = step.conv
    BY <1>4, Zenon DEF ConvertEvent, Sent, d
  <2>2. failed' <=> failed
    BY <1>1, <1>4 DEF Extracted
  <2> HIDE DEF x
  <2>3. CASE client = Anthropic
    <3>1. step = ConvertAnthropic(conv, x)
      BY <2>3 DEF Convert, Anthropic, OpenAiChat, OpenAiResponse
    <3>2. /\ FitsA(conv, v) /\ conv.finished = conv.stopped /\ (conv.finished <=> Ended)
      BY <2>3 DEF Told, Converts
    <3>3. /\ step.conv.finished = step.conv.stopped
          /\ step.conv.finished <=> conv.finished \/ (x.choice /\ x.finish)
          /\ \E w : Leads(v, step.out, w) /\ FitsA(step.conv, w) /\ w.errors = v.errors
      BY <1>1, <3>1, <3>2, ConvertAnthropicFits
    <3> HIDE DEF step
    <3>4. PICK w : Leads(v, step.out, w) /\ FitsA(step.conv, w) /\ w.errors = v.errors
      BY <3>3
    <3>5. w \in Views
      BY <3>4 DEF FitsA
    <3>6. Told(up, client, conv', w, failed', over)
      BY <1>1, <2>1, <2>2, <2>3, <3>2, <3>3, <3>4, <3>5
         DEF Told, Converts, Anthropic, OpenAiChat, OpenAiResponse
    <3>7. QED
      BY <2>1, <3>4, <3>6
  <2>4. CASE client = OpenAiResponse
    <3>1. step = ConvertResponses(conv, x)
      BY <2>4 DEF Convert, Anthropic, OpenAiChat, OpenAiResponse
    <3>2. /\ FitsR(conv, v) /\ (conv.finished <=> conv.completed) /\ (conv.finished <=> Ended)
      BY <2>4 DEF Told, Converts
    <3>3. /\ step.conv.finished <=> step.conv.completed
          /\ step.conv.finished <=> conv.finished \/ (x.choice /\ x.finish)
          /\ \E w : Leads(v, step.out, w) /\ FitsR(step.conv, w) /\ w.errors = v.errors
      BY <1>1, <3>1, <3>2, ConvertResponsesFits
    <3> HIDE DEF step
    <3>4. PICK w : Leads(v, step.out, w) /\ FitsR(step.conv, w) /\ w.errors = v.errors
      BY <3>3
    <3>5. w \in Views
      BY <3>4 DEF FitsR
    <3>6. Told(up, client, conv', w, failed', over)
      BY <1>1, <2>1, <2>2, <2>4, <3>2, <3>3, <3>4, <3>5
         DEF Told, Converts, Anthropic, OpenAiChat, OpenAiResponse
    <3>7. QED
      BY <2>1, <3>4, <3>6
  <2>5. CASE client = OpenAiChat
    <3>1. step = Did(conv, <<Message("chunk", 0, "none", x)>>)
      BY <2>5 DEF Convert, Anthropic, OpenAiChat, OpenAiResponse
    <3>2. step.out = <<Message("chunk", 0, "none", x)>> /\ step.conv = conv
      BY <3>1 DEF Did
    <3>3. v \in Views /\ v.ends = 0
      BY <2>5 DEF Told, Converts
    <3>4. Leads(v, step.out, v)
      BY <3>2, <3>3, LeadsDetail DEF Details
    <3> HIDE DEF step
    <3>5. Told(up, client, conv', v, failed', over)
      BY <2>1, <2>2, <2>5, <3>2, <3>3
         DEF Told, Converts, Anthropic, OpenAiChat, OpenAiResponse
    <3>6. QED
      BY <2>1, <3>4, <3>5
  <2>6. QED
    BY <2>3, <2>4, <2>5 DEF Endpoints
<1>5. QED
  BY <1>2, <1>3, <1>4
LEMMA PassEventTold ==
    ASSUME ~Converts, connected,
           NEW v, Told(up, client, conv, v, failed, Ended),
           NEW e, PassEvent(e) \/ (PassResidual(e) /\ out = <<>>), NEW over
    PROVE  \E w : Leads(v, out', w) /\ Told(up, client, conv', w, failed', over)
<1>1. v \in Views /\ v.ends = 0 /\ up = client
  BY DEF Told, Converts
<1>2. Told(up, client, conv', v, failed', over)
  BY <1>1 DEF Told
<1>3. Leads(v, out', v)
  <2>1. CASE PassResidual(e) /\ out = <<>>
    BY <2>1, LeadsNowhere DEF PassResidual
  <2>2. CASE PassEvent(e)
    <3> DEFINE m == IF Rewrites THEN Rewritten(e) ELSE Message("raw", 0, "none", Decode(up, e))
    <3>1. out' = <<m>>
      BY <2>2 DEF PassEvent, Sent
    <3>2. PICK ev, data : ev \in Details /\ m = Message(ev, 0, "none", data)
      BY DEF Rewritten, Details
    <3> HIDE DEF m
    <3>3. QED
      BY <1>1, <3>1, <3>2, LeadsDetail
  <2>3. QED
    BY <2>1, <2>2
<1>4. QED
  BY <1>2, <1>3

-----------------------------------------------------------------------------
(* The invariant of the loop.                                              *)

\* The converter knows of exactly the upstream's end, the client of exactly the
\* end and the first error, and whatever is sent so far was allowed.
Inv ==
    /\ up \in Endpoints /\ client \in Endpoints
    /\ connected \in BOOLEAN /\ failed \in BOOLEAN
    /\ IsSeq(sent) /\ IsSeq(seen) /\ IsSeq(out)
    /\ ~connected => out = <<>>
    /\ Count("finish") \in Nat
    /\ Count("error") \in Nat /\ (failed <=> Count("error") > 0)
    /\ Good(seen \o out)
    /\ connected => Told(up, client, conv, View(seen \o out), failed, Ended)

\* Before anything is received.
LEMMA Nothing ==
    /\ IsSeq(<<>>) /\ Good(<<>>)
    /\ View(<<>>) \in Views
    /\ LET v == View(<<>>)
       IN  v.start = 0 /\ v.ends = 0 /\ v.opens = 0 /\ v.errors = 0
           /\ v.opened = {} /\ v.shut = {}
<1> DEFINE nothing == <<>>
<1>1. IsSeq(nothing) /\ DOMAIN nothing = {}
  BY nothing \in Seq({}) DEF IsSeq
<1>2. Good(nothing)
  BY <1>1 DEF Good
<1> HIDE DEF nothing
<1>3. \A role : At(nothing, role) = {}
  BY <1>1 DEF At
<1>4. /\ View(nothing).start = 0 /\ View(nothing).ends = 0
      /\ View(nothing).opens = 0 /\ View(nothing).errors = 0
      /\ View(nothing).opened = {} /\ View(nothing).shut = {}
  BY <1>3, FS_EmptySet DEF View
<1>5. View(nothing) = [start |-> 0, ends |-> 0, opens |-> 0, errors |-> 0,
                       opened |-> {}, shut |-> {}]
  BY <1>3, FS_EmptySet DEF View
<1>6. View(nothing) \in Views
  <2>1. 0 \in Nat /\ {} \in SUBSET (Nat \X Sorts) /\ {} \in SUBSET Nat
    OBVIOUS
  <2> HIDE DEF Sorts
  <2>2. QED
    BY <1>5, <2>1 DEF Views
<1>7. QED
  BY <1>1, <1>2, <1>4, <1>6 DEF nothing

LEMMA InitFits ==
    LET v == View(<<>>)
    IN  /\ FitsA(NewAnthropic, v) /\ ~NewAnthropic.finished /\ ~NewAnthropic.stopped
        /\ NewAnthropic.finished = NewAnthropic.stopped
        /\ FitsR(NewResponses, v) /\ ~NewResponses.finished /\ ~NewResponses.completed
<1> DEFINE v == View(<<>>)
<1>1. /\ v \in Views /\ v.start = 0 /\ v.ends = 0 /\ v.opens = 0 /\ v.errors = 0
      /\ v.opened = {} /\ v.shut = {}
  BY Nothing
<1> HIDE DEF v
<1>2. NewAnthropic \in ConvA
  BY DEF NewAnthropic, ConvA, OpenSets
<1>3. NewResponses \in ConvR
  BY DEF NewResponses, ConvR
<1>4. FitsA(NewAnthropic, v) /\ ~NewAnthropic.finished /\ ~NewAnthropic.stopped
      /\ NewAnthropic.finished = NewAnthropic.stopped
  BY <1>1, <1>2 DEF FitsA, NewAnthropic
<1>5. FitsR(NewResponses, v) /\ ~NewResponses.finished /\ ~NewResponses.completed
  BY <1>1, <1>3 DEF FitsR, ToolsFit, NewResponses
<1>6. QED
  BY <1>4, <1>5 DEF v

LEMMA InitInv ==
    ASSUME Init
    PROVE  Inv
<1> DEFINE nothing == <<>>
<1>1. /\ up \in Endpoints /\ client \in Endpoints
      /\ sent = nothing /\ seen = nothing /\ out = nothing
      /\ connected = TRUE /\ failed = FALSE /\ conv = NewConverter(client)
  BY DEF Init
<1>2. nothing \o nothing = nothing /\ IsSeq(nothing)
  BY Nothing, SeqOne
<1>3. \A kind : Count(kind) = 0
  <2>1. DOMAIN sent = {}
    BY <1>1
  <2>2. QED
    BY <2>1, FS_EmptySet DEF Count
<1>4. /\ Good(nothing) /\ View(nothing) \in Views /\ View(nothing).ends = 0
      /\ View(nothing).errors = 0
  BY Nothing
<1>5. ~Ended
  BY <1>3 DEF Ended
<1>6. /\ FitsA(NewAnthropic, View(nothing)) /\ ~NewAnthropic.finished
      /\ NewAnthropic.finished = NewAnthropic.stopped
      /\ FitsR(NewResponses, View(nothing)) /\ ~NewResponses.finished /\ ~NewResponses.completed
  BY InitFits
<1> HIDE DEF nothing
<1>7. /\ client = Anthropic => conv = NewAnthropic
      /\ client = OpenAiResponse => conv = NewResponses
  BY <1>1 DEF NewConverter, Anthropic, OpenAiChat, OpenAiResponse
<1>8. Told(up, client, conv, View(nothing), failed, Ended)
  BY <1>1, <1>4, <1>5, <1>6, <1>7 DEF Told
<1>9. /\ Count("finish") \in Nat /\ Count("error") \in Nat
      /\ connected \in BOOLEAN /\ failed \in BOOLEAN /\ (failed <=> Count("error") > 0)
  <2>1. Count("finish") = 0 /\ Count("error") = 0
    BY <1>3
  <2>2. ~(Count("error") > 0) /\ Count("error") \in Nat /\ Count("finish") \in Nat
    BY <2>1
  <2>3. QED
    BY <1>1, <2>2, Zenon
<1>10. seen \o out = nothing /\ IsSeq(sent) /\ IsSeq(seen) /\ IsSeq(out)
  BY <1>1, <1>2, Zenon
<1>11. QED
  BY <1>1, <1>4, <1>8, <1>9, <1>10, Zenon DEF Inv

\* What every event of the upstream has in common, however it is handled.
LEMMA EventInv ==
    ASSUME Inv, out = <<>>, NEW e \in UpstreamEvents, sent' = Append(sent, e), Extracted(e),
           UNCHANGED <<up, client, seen, connected>>,
           ~connected => out' = <<>>,
           connected => \E w : /\ Leads(View(seen), out', w)
                               /\ Told(up, client, conv', w, failed', Ended \/ e.kind = "finish")
    PROVE  Inv'
<1> DEFINE nothing == <<>>
<1>1. IsSeq(sent')
  <2>1. PICK S : sent \in Seq(S)
    BY DEF Inv, IsSeq
  <2>2. sent \in Seq(S \cup {e}) /\ e \in S \cup {e}
    BY <2>1
  <2>3. QED
    BY <2>2 DEF IsSeq
<1>2. \A kind : /\ Count(kind) \in Nat
                /\ Count(kind)' = IF e.kind = kind THEN Count(kind) + 1 ELSE Count(kind)
  BY CountGrows DEF Inv
<1>3. Count("finish")' \in Nat
  BY <1>2
<1>4. Ended' <=> Ended \/ e.kind = "finish"
  BY <1>2 DEF Ended
<1>5. failed' \in BOOLEAN /\ Count("error")' \in Nat /\ (failed' <=> Count("error")' > 0)
  <2>1. failed' \in BOOLEAN /\ (failed' <=> failed \/ e.kind = "error")
    BY Zenon DEF Extracted, IsError
  <2>2. failed <=> Count("error") > 0
    BY DEF Inv
  <2>3. /\ Count("error") \in Nat
        /\ Count("error")' = IF e.kind = "error" THEN Count("error") + 1 ELSE Count("error")
    BY <1>2
  <2>4. Count("error")' \in Nat /\ (Count("error")' > 0 <=> Count("error") > 0 \/ e.kind = "error")
    BY <2>3
  <2>5. QED
    BY <2>1, <2>2, <2>4
<1>6. IsSeq(seen) /\ seen \o nothing = seen /\ IsSeq(nothing)
  BY SeqOne DEF Inv
<1>7. Good(seen) /\ out = nothing
  BY <1>6 DEF Inv
<1> HIDE DEF nothing
<1>8. CASE ~connected
  <2>1. out' = nothing
    BY <1>8 DEF nothing
  <2>2. IsSeq(out') /\ Good(seen' \o out')
    BY <1>6, <1>7, <2>1
  <2>3. QED
    BY <1>1, <1>3, <1>5, <1>6, <1>8, <2>1, <2>2 DEF Inv, nothing
<1>9. CASE connected
  <2>1. PICK w : /\ Leads(View(seen), out', w)
                 /\ Told(up, client, conv', w, failed', Ended \/ e.kind = "finish")
    BY <1>9
  <2>2. IsSeq(out') /\ Good(seen \o out') /\ View(seen \o out') = w
    BY <1>6, <1>7, <2>1 DEF Leads
  <2>3. Told(up, client, conv', View(seen \o out'), failed', Ended')
    <3>1. Told(up, client, conv', w, failed', Ended')
      BY <1>4, <2>1 DEF Told
    <3>2. QED
      BY <2>2, <3>1
  <2>4. QED
    BY <1>1, <1>3, <1>5, <1>6, <1>9, <2>2, <2>3 DEF Inv
<1>10. QED
  BY <1>8, <1>9
LEMMA HandlesInv ==
    ASSUME Inv, NEW e \in UpstreamEvents, HandleEvent(e) \/ StreamEndsWith(e)
    PROVE  Inv'
<1>1. /\ out = <<>> /\ sent' = Append(sent, e) /\ Extracted(e)
      /\ UNCHANGED <<up, client, seen, connected>>
      /\ Converts => ConvertEvent(e, TRUE) \/ ConvertEvent(e, FALSE)
      /\ ~Converts => PassEvent(e) \/ PassResidual(e)
  BY DEF HandleEvent, StreamEndsWith, endpoints
<1>2. ASSUME ~connected
      PROVE  out' = <<>>
  <2>1. CASE Converts
    BY <1>1, <1>2, <2>1 DEF ConvertEvent, Sent
  <2>2. CASE ~Converts
    BY <1>1, <1>2, <2>2 DEF PassEvent, PassResidual, Sent
  <2>3. QED
    BY <2>1, <2>2
<1>3. ASSUME connected
      PROVE  \E w : /\ Leads(View(seen), out', w)
                    /\ Told(up, client, conv', w, failed', Ended \/ e.kind = "finish")
  <2>1. Told(up, client, conv, View(seen), failed, Ended)
    <3>1. seen \o <<>> = seen
      BY SeqOne DEF Inv
    <3>2. QED
      BY <1>1, <1>3, <3>1 DEF Inv
  <2>2. up \in Endpoints /\ client \in Endpoints /\ failed \in BOOLEAN
    BY DEF Inv
  <2>3. CASE Converts
    <3>1. PICK observe \in BOOLEAN : ConvertEvent(e, observe)
      BY <1>1, <2>3
    <3>2. QED
      BY <1>1, <1>3, <2>1, <2>2, <2>3, <3>1, ConvertEventTold
  <2>4. CASE ~Converts
    BY <1>1, <1>3, <2>1, <2>4, PassEventTold
  <2>5. QED
    BY <2>3, <2>4
<1>4. QED
  BY <1>1, <1>2, <1>3, EventInv

LEMMA DeliverInv ==
    ASSUME Inv, Deliver
    PROVE  /\ Inv'
           /\ Promise!Legal(Head(out))
           /\ IsSeq(seen) /\ seen' = Append(seen, Head(out))
<1>1. IsSeq(seen) /\ IsSeq(out) /\ Good(seen \o out) /\ out # <<>>
  BY DEF Inv, Deliver
<1>2. PICK S : seen \in Seq(S) /\ out \in Seq(S)
  <2>1. PICK S, T : seen \in Seq(S) /\ out \in Seq(T)
    BY <1>1 DEF IsSeq
  <2>2. seen \in Seq(S \cup T) /\ out \in Seq(S \cup T)
    BY <2>1
  <2>3. QED
    BY <2>2
<1>3. seen' = Append(seen, Head(out)) /\ out' = Tail(out)
  BY DEF Deliver
<1>4. Head(out) \in S /\ Tail(out) \in Seq(S)
  BY <1>1, <1>2
<1>5. seen' \in Seq(S) /\ out' \in Seq(S)
  BY <1>2, <1>3, <1>4
<1>6. seen' \o out' = seen \o out
  <2> DEFINE a == seen' \o out'
             b == seen \o out
  <2>1. a \in Seq(S) /\ b \in Seq(S)
    BY <1>2, <1>5
  <2>2. Len(a) = Len(b)
    BY <1>1, <1>2, <1>3, <1>4
  <2>3. \A i \in 1 .. Len(a) : a[i] = b[i]
    BY <1>1, <1>2, <1>3, <1>4
  <2> HIDE DEF a, b
  <2>4. a = b
    BY <2>1, <2>2, <2>3, SeqEqual
  <2>5. QED
    BY <2>4 DEF a, b
<1>7. IsSeq(seen') /\ IsSeq(out')
  BY <1>5 DEF IsSeq
<1>8. UNCHANGED <<up, client, sent, conv, connected, failed>>
  BY DEF Deliver, endpoints
<1>9. connected
  BY <1>1 DEF Inv
<1>10. Count("finish")' = Count("finish") /\ Count("error")' = Count("error") /\ (Ended' <=> Ended)
  BY <1>8 DEF Count, Ended
<1>11. Inv'
  BY <1>6, <1>7, <1>8, <1>9, <1>10 DEF Inv
<1>12. Allowed(View(seen), Head(out))
  BY <1>1, GoodPrefix
<1>13. QED
  BY <1>1, <1>3, <1>11, <1>12, AllowedIsLegal

LEMMA LeavesInv ==
    ASSUME Inv, ClientLeaves
    PROVE  Inv'
<1> DEFINE nothing == <<>>
<1>1. IsSeq(seen) /\ seen \o nothing = seen /\ IsSeq(nothing) /\ Good(seen)
  BY SeqOne, GoodPrefix DEF Inv
<1>2. out' = nothing /\ connected' = FALSE /\ UNCHANGED <<up, client, sent, conv, seen, failed>>
  BY DEF ClientLeaves, endpoints
<1>3. Count("finish")' = Count("finish") /\ Count("error")' = Count("error") /\ (Ended' <=> Ended)
  BY <1>2 DEF Count, Ended
<1> HIDE DEF nothing
<1>4. Good(seen' \o out') /\ IsSeq(out')
  BY <1>1, <1>2
<1>5. QED
  BY <1>1, <1>2, <1>3, <1>4 DEF Inv, nothing

LEMMA FinishInv ==
    ASSUME Inv, Finish
    PROVE  Inv'
<1>1. out = <<>> /\ UNCHANGED <<up, client, sent, seen, connected, failed>>
  BY DEF Finish, endpoints
<1>2. Count("finish")' = Count("finish") /\ Count("error")' = Count("error") /\ (Ended' <=> Ended)
  BY <1>1 DEF Count, Ended
<1>3. ASSUME ~connected
      PROVE  out' = <<>>
  BY <1>1, <1>3 DEF Finish, Sent
<1>4. ASSUME connected
      PROVE  out' = out /\ conv' = conv
  <2>1. CASE ~Converts
    BY <2>1 DEF Finish
  <2>2. CASE Converts
    <3>1. out' = Finished(conv).out /\ conv' = Finished(conv).conv
      BY <1>4, <2>2 DEF Finish, Sent
    <3>2. Did(conv, <<>>).out = <<>> /\ Did(conv, <<>>).conv = conv
      BY DEF Did
    <3>3. client = OpenAiResponse => (conv.finished <=> conv.completed)
      BY <1>4, <2>2 DEF Inv, Told, Converts
    <3>4. Finished(conv) = Did(conv, <<>>)
      BY <3>3 DEF Inv, Endpoints, Finished, FinishAnthropic, FinishResponses,
                  Anthropic, OpenAiChat, OpenAiResponse
    <3>5. QED
      BY <1>1, <3>1, <3>2, <3>4
  <2>3. QED
    BY <2>1, <2>2
<1>5. connected \in BOOLEAN /\ out' = out
  BY <1>1, <1>3, <1>4 DEF Inv
<1>6. QED
  BY <1>1, <1>2, <1>4, <1>5 DEF Inv

LEMMA StutterInv ==
    ASSUME Inv, UNCHANGED <<up, client, sent, conv, out, seen, connected, failed>>
    PROVE  Inv'
<1>1. Count("finish")' = Count("finish") /\ Count("error")' = Count("error") /\ (Ended' <=> Ended)
  BY DEF Count, Ended
<1>2. QED
  BY <1>1 DEF Inv

LEMMA NextInv ==
    ASSUME Inv, [Next]_vars
    PROVE  Inv'
<1>1. ASSUME NEW e \in UpstreamEvents, HandleEvent(e) \/ StreamEndsWith(e)
      PROVE  Inv'
  BY <1>1, HandlesInv
<1>2. CASE Deliver
  BY <1>2, DeliverInv
<1>3. CASE ClientLeaves
  BY <1>3, LeavesInv
<1>4. CASE StreamEnds
  BY <1>4, StutterInv DEF StreamEnds, endpoints
<1>5. CASE Finish
  BY <1>5, FinishInv
<1>6. CASE UNCHANGED vars
  BY <1>6, StutterInv DEF vars
<1>7. QED
  BY <1>1, <1>2, <1>3, <1>4, <1>5, <1>6 DEF Next

LEMMA InvHolds == Spec => []Inv
  BY InitInv, NextInv, PTL DEF Spec

\* Only what is delivered is seen, and it is allowed.
LEMMA StepKeepsPromise ==
    ASSUME Inv, [Next]_vars
    PROVE  [Promise!Arrive]_seen
<1>1. CASE Deliver
  <2>1. Promise!Legal(Head(out)) /\ IsSeq(seen) /\ seen' = Append(seen, Head(out))
    BY <1>1, DeliverInv
  <2>2. PICK S : seen \in Seq(S) /\ Head(out) \in S
    <3>1. PICK S : seen \in Seq(S)
      BY <2>1 DEF IsSeq
    <3>2. seen \in Seq(S \cup {Head(out)}) /\ Head(out) \in S \cup {Head(out)}
      BY <3>1
    <3>3. QED
      BY <3>2
  <2>3. Len(seen') = Len(seen) + 1 /\ seen'[Len(seen')] = Head(out)
    BY <2>1, <2>2
  <2>4. Promise!IsPrefix(seen, seen')
    BY <2>1, <2>2 DEF Promise!IsPrefix
  <2>5. Promise!Last(seen') = Head(out)
    BY <2>3 DEF Promise!Last
  <2>6. QED
    BY <2>1, <2>3, <2>4, <2>5 DEF Promise!Arrive
<1>2. CASE ~Deliver
  <2>1. seen' = seen
    BY <1>2 DEF Next, vars, HandleEvent, StreamEndsWith, ClientLeaves, StreamEnds, Finish
  <2>2. QED
    BY <2>1
<1>3. QED
  BY <1>1, <1>2

\* What either converter sends a client, and what the passthrough forwards,
\* implements ClientStream: the stream is started once, items are numbered as
\* they are opened, text and thinking go into the newest item and into none that
\* is closed, and nothing but an error follows the end - for every order of the
\* upstream's events, and wherever the client leaves (stream_loop.rs,
\* anthropic_converter.rs, openai_responses_converter.rs).
THEOREM ClientPromiseHolds == Spec => ClientPromise
<1>1. Init => Promise!Init
  BY DEF Init, Promise!Init
<1>2. Inv /\ [Next]_vars => [Promise!Arrive]_seen
  BY StepKeepsPromise
<1>3. QED
  BY <1>1, <1>2, InvHolds, PTL DEF Spec, ClientPromise, Promise!Spec

LEMMA AtMostOne ==
    \A n \in Nat : Min({1, n}) = IF n > 0 THEN 1 ELSE 0
<1> SUFFICES ASSUME NEW n \in Nat
             PROVE  Min({1, n}) = IF n > 0 THEN 1 ELSE 0
  OBVIOUS
<1>1. CASE n > 0
  <2>1. \A x \in {1, n} : (\A y \in {1, n} : x =< y) <=> x = 1
    BY <1>1
  <2>2. QED
    BY <1>1, <2>1 DEF Min
<1>2. CASE n = 0
  <2>1. \A x \in {1, n} : (\A y \in {1, n} : x =< y) <=> x = 0
    BY <1>2
  <2>2. QED
    BY <1>2, <2>1 DEF Min
<1>3. QED
  BY <1>1, <1>2

LEMMA InvCountsEnds ==
    ASSUME Inv
    PROVE  EndAndErrorOnce
<1> SUFFICES ASSUME Converts, out = <<>>, connected
             PROVE  /\ client # OpenAiChat => Has("end") = Min({1, Count("finish")})
                    /\ Has("error") = Min({1, Count("error")})
  BY DEF EndAndErrorOnce
<1> DEFINE v == View(seen)
<1>1. Told(up, client, conv, v, failed, Ended)
  <2>1. seen \o <<>> = seen
    BY SeqOne DEF Inv
  <2>2. QED
    BY <2>1 DEF Inv
<1>2. Has("end") = v.ends /\ Has("error") = v.errors
  BY Zenon DEF Has, View, At
<1> HIDE DEF v
<1>3. v.errors = IF failed THEN 1 ELSE 0
  BY <1>1 DEF Told, Converts
<1>4. Count("error") \in Nat /\ (failed <=> Count("error") > 0)
  BY DEF Inv
<1>5. \A n \in Nat : Min({1, n}) = IF n > 0 THEN 1 ELSE 0
  BY AtMostOne
<1>6. Count("finish") \in Nat /\ (Ended <=> Count("finish") > 0)
  BY DEF Inv, Ended
<1>7. ASSUME client # OpenAiChat
      PROVE  v.ends = Min({1, Count("finish")})
  <2>1. CASE client = Anthropic
    <3>1. FitsA(conv, v) /\ conv.finished = conv.stopped /\ (conv.finished <=> Ended)
      BY <1>1, <2>1 DEF Told, Converts
    <3>2. v.ends = IF Ended THEN 1 ELSE 0
      BY <3>1 DEF FitsA
    <3>3. QED
      BY <1>5, <1>6, <3>2
  <2>2. CASE client = OpenAiResponse
    <3>1. FitsR(conv, v) /\ (conv.finished <=> conv.completed) /\ (conv.finished <=> Ended)
      BY <1>1, <2>2 DEF Told, Converts
    <3>2. v.ends = IF Ended THEN 1 ELSE 0
      BY <3>1 DEF FitsR
    <3>3. QED
      BY <1>5, <1>6, <3>2
  <2>3. QED
    BY <1>7, <2>1, <2>2 DEF Inv, Endpoints
<1>8. QED
  BY <1>2, <1>3, <1>4, <1>5, <1>7

\* A client that stays is told of the end exactly when the upstream finished,
\* once, however often usage or another finish follows the first, and of an error
\* exactly when there was one, once, however many follow (run_conversion_loop,
\* handle_finish of both converters).
THEOREM EndAndErrorOnceHolds == Spec => []EndAndErrorOnce
<1>1. Inv => EndAndErrorOnce
  BY InvCountsEnds
<1>2. QED
  BY <1>1, InvHolds, PTL

-----------------------------------------------------------------------------
(* The tool calls of the log.  A delta carries at most one of them.        *)

LEMMA OneConverted ==
    ASSUME NEW c, NEW t
    PROVE  FoldLeft(AddConverted, c, <<t>>) = AddConverted(c, t)
<1> DEFINE one == AddConverted(c, t)
           f == [s \in SUBSET {1} |-> IF s = {} THEN c ELSE one]
           Rec(g) == g = [s \in SUBSET {1} |-> IF s = {} THEN c
                            ELSE LET x == Max(s) IN AddConverted(g[s \ {x}], <<t>>[x])]
<1>1. \A s \in SUBSET {1} : s = {} \/ (s = {1} /\ Max(s) = 1)
  <2>1. Max({1}) = 1
    BY DEF Max
  <2>2. QED
    BY <2>1
<1>2. Rec(f)
  BY <1>1
<1>3. FoldLeft(AddConverted, c, <<t>>) = (CHOOSE g : Rec(g))[{1}]
  BY DOMAIN <<t>> = {1} DEF FoldLeft, MapThenFoldSet
<1>4. ASSUME NEW g, Rec(g)
      PROVE  g[{1}] = one
  <2>1. g[{}] = c
    BY <1>4
  <2>2. Max({1}) = 1 /\ {1} \ {1} = {} /\ {1} # {} /\ <<t>>[1] = t
    BY <1>1
  <2>3. g[{1}] = AddConverted(g[{1} \ {Max({1})}], <<t>>[Max({1})])
    BY <1>4, <2>2
  <2>4. QED
    BY <2>1, <2>2, <2>3
<1>5. QED
  BY <1>2, <1>3, <1>4

LEMMA OneChat ==
    ASSUME NEW c, NEW t
    PROVE  FoldLeft(AddChat, c, <<t>>) = AddChat(c, t)
<1> DEFINE one == AddChat(c, t)
           f == [s \in SUBSET {1} |-> IF s = {} THEN c ELSE one]
           Rec(g) == g = [s \in SUBSET {1} |-> IF s = {} THEN c
                            ELSE LET x == Max(s) IN AddChat(g[s \ {x}], <<t>>[x])]
<1>1. \A s \in SUBSET {1} : s = {} \/ (s = {1} /\ Max(s) = 1)
  <2>1. Max({1}) = 1
    BY DEF Max
  <2>2. QED
    BY <2>1
<1>2. Rec(f)
  BY <1>1
<1>3. FoldLeft(AddChat, c, <<t>>) = (CHOOSE g : Rec(g))[{1}]
  BY DOMAIN <<t>> = {1} DEF FoldLeft, MapThenFoldSet
<1>4. ASSUME NEW g, Rec(g)
      PROVE  g[{1}] = one
  <2>1. g[{}] = c
    BY <1>4
  <2>2. Max({1}) = 1 /\ {1} \ {1} = {} /\ {1} # {} /\ <<t>>[1] = t
    BY <1>1
  <2>3. g[{1}] = AddChat(g[{1} \ {Max({1})}], <<t>>[Max({1})])
    BY <1>4, <2>2
  <2>4. QED
    BY <2>1, <2>2, <2>3
<1>5. QED
  BY <1>2, <1>3, <1>4

LEMMA OneResponses ==
    ASSUME NEW c, NEW t
    PROVE  FoldLeft(AddResponses, c, <<t>>) = AddResponses(c, t)
<1> DEFINE one == AddResponses(c, t)
           f == [s \in SUBSET {1} |-> IF s = {} THEN c ELSE one]
           Rec(g) == g = [s \in SUBSET {1} |-> IF s = {} THEN c
                            ELSE LET x == Max(s) IN AddResponses(g[s \ {x}], <<t>>[x])]
<1>1. \A s \in SUBSET {1} : s = {} \/ (s = {1} /\ Max(s) = 1)
  <2>1. Max({1}) = 1
    BY DEF Max
  <2>2. QED
    BY <2>1
<1>2. Rec(f)
  BY <1>1
<1>3. FoldLeft(AddResponses, c, <<t>>) = (CHOOSE g : Rec(g))[{1}]
  BY DOMAIN <<t>> = {1} DEF FoldLeft, MapThenFoldSet
<1>4. ASSUME NEW g, Rec(g)
      PROVE  g[{1}] = one
  <2>1. g[{}] = c
    BY <1>4
  <2>2. Max({1}) = 1 /\ {1} \ {1} = {} /\ {1} # {} /\ <<t>>[1] = t
    BY <1>1
  <2>3. g[{1}] = AddResponses(g[{1} \ {Max({1})}], <<t>>[Max({1})])
    BY <1>4, <2>2
  <2>4. QED
    BY <2>1, <2>2, <2>3
<1>5. QED
  BY <1>2, <1>3, <1>4

LEMMA NoneConverted ==
    ASSUME NEW c
    PROVE  FoldLeft(AddConverted, c, <<>>) = c
<1> DEFINE Rec(g) == g = [s \in SUBSET {} |-> IF s = {} THEN c
                            ELSE LET x == Max(s) IN AddConverted(g[s \ {x}], <<>>[x])]
           f == [s \in SUBSET {} |-> c]
<1>1. Rec(f)
  OBVIOUS
<1>2. FoldLeft(AddConverted, c, <<>>) = (CHOOSE g : Rec(g))[{}]
  BY DOMAIN <<>> = {} DEF FoldLeft, MapThenFoldSet
<1>3. ASSUME NEW g, Rec(g)
      PROVE  g[{}] = c
  BY <1>3
<1>4. QED
  BY <1>1, <1>2, <1>3

LEMMA NoneChat ==
    ASSUME NEW c
    PROVE  FoldLeft(AddChat, c, <<>>) = c
<1> DEFINE Rec(g) == g = [s \in SUBSET {} |-> IF s = {} THEN c
                            ELSE LET x == Max(s) IN AddChat(g[s \ {x}], <<>>[x])]
           f == [s \in SUBSET {} |-> c]
<1>1. Rec(f)
  OBVIOUS
<1>2. FoldLeft(AddChat, c, <<>>) = (CHOOSE g : Rec(g))[{}]
  BY DOMAIN <<>> = {} DEF FoldLeft, MapThenFoldSet
<1>3. ASSUME NEW g, Rec(g)
      PROVE  g[{}] = c
  BY <1>3
<1>4. QED
  BY <1>1, <1>2, <1>3

LEMMA NoneResponses ==
    ASSUME NEW c
    PROVE  FoldLeft(AddResponses, c, <<>>) = c
<1> DEFINE Rec(g) == g = [s \in SUBSET {} |-> IF s = {} THEN c
                            ELSE LET x == Max(s) IN AddResponses(g[s \ {x}], <<>>[x])]
           f == [s \in SUBSET {} |-> c]
<1>1. Rec(f)
  OBVIOUS
<1>2. FoldLeft(AddResponses, c, <<>>) = (CHOOSE g : Rec(g))[{}]
  BY DOMAIN <<>> = {} DEF FoldLeft, MapThenFoldSet
<1>3. ASSUME NEW g, Rec(g)
      PROVE  g[{}] = c
  BY <1>3
<1>4. QED
  BY <1>1, <1>2, <1>3

ToolKinds == {"toolStart", "toolArgs"}

\* Where the events of some kinds about the call k are.
About(s, k, kinds) == {i \in DOMAIN s : s[i].kind \in kinds /\ s[i].call = k}
MadeIn(s) == {k \in 1 .. MaxCalls : About(s, k, ToolKinds) # {}}
ArgsOf(s, k) == Cardinality(About(s, k, {"toolArgs"}))
LoggedAs(s, k) == [id |-> k, args |-> [i \in 1 .. ArgsOf(s, k) |-> k]]

LEMMA CallsOfIs ==
    ASSUME NEW s
    PROVE  CallsOf(s) = [k \in 1 .. Cardinality(MadeIn(s)) |-> LoggedAs(s, k)]
  BY DEF CallsOf, MadeIn, About, LoggedAs, ArgsOf, ToolKinds

\* One more event touches the call it is about, and no other.
LEMMA AboutGrows ==
    ASSUME NEW s, IsSeq(s), NEW e
    PROVE  LET t == Append(s, e)
           IN  /\ e.kind \notin ToolKinds => MadeIn(t) = MadeIn(s)
               /\ e.kind \in ToolKinds /\ e.call \in 1 .. MaxCalls =>
                      MadeIn(t) = MadeIn(s) \cup {e.call}
               /\ \A k : /\ ArgsOf(s, k) \in Nat
                         /\ ArgsOf(t, k) = IF e.kind = "toolArgs" /\ e.call = k
                                           THEN ArgsOf(s, k) + 1 ELSE ArgsOf(s, k)
               /\ \A k \in 1 .. MaxCalls : k \notin MadeIn(s) => ArgsOf(s, k) = 0
<1> DEFINE t == Append(s, e)
           n == Len(s) + 1
<1>1. /\ Len(s) \in Nat /\ DOMAIN s = 1 .. Len(s)
      /\ DOMAIN t = DOMAIN s \cup {n} /\ t[n] = e /\ n \notin DOMAIN s
      /\ \A i \in DOMAIN s : t[i] = s[i]
  BY DEF IsSeq
<1>2. IsFiniteSet(DOMAIN s)
  BY <1>1, FS_Interval
<1> HIDE DEF t, n
<1>3. ASSUME NEW k, NEW kinds
      PROVE  /\ About(t, k, kinds) = IF e.kind \in kinds /\ e.call = k
                                     THEN About(s, k, kinds) \cup {n} ELSE About(s, k, kinds)
             /\ n \notin About(s, k, kinds) /\ IsFiniteSet(About(s, k, kinds))
  <2>1. IsFiniteSet(About(s, k, kinds))
    BY <1>2, FS_Subset DEF About
  <2>2. QED
    BY <1>1, <2>1 DEF About
<1>4. \A k : /\ ArgsOf(s, k) \in Nat
             /\ ArgsOf(t, k) = IF e.kind = "toolArgs" /\ e.call = k
                               THEN ArgsOf(s, k) + 1 ELSE ArgsOf(s, k)
  BY <1>3, FS_AddElement, FS_CardinalityType DEF ArgsOf
<1>5. \A k \in 1 .. MaxCalls : k \notin MadeIn(s) => ArgsOf(s, k) = 0
  <2>1. SUFFICES ASSUME NEW k \in 1 .. MaxCalls, k \notin MadeIn(s)
                 PROVE  About(s, k, {"toolArgs"}) = {}
    BY FS_EmptySet DEF ArgsOf
  <2>2. QED
    BY <2>1 DEF MadeIn, About, ToolKinds
<1>6. /\ e.kind \notin ToolKinds => MadeIn(t) = MadeIn(s)
      /\ e.kind \in ToolKinds /\ e.call \in 1 .. MaxCalls => MadeIn(t) = MadeIn(s) \cup {e.call}
  BY <1>3 DEF MadeIn
<1>7. QED
  BY <1>4, <1>5, <1>6 DEF t

\* n calls were made so far: the calls are numbered as they are made, a start
\* begins the next, and the pieces of a block of Anthropic's belong to the last.
Numbered(s, n) ==
    /\ n \in Nat /\ MadeIn(s) = 1 .. n
    /\ up # OpenAiResponse => Cardinality({i \in DOMAIN s : s[i].kind = "toolStart"}) = n
    /\ up = OpenAiResponse => \A i \in DOMAIN s : s[i].kind # "toolStart"
    /\ up = Anthropic /\ s # <<>> /\ s[Len(s)].kind \in ToolKinds => s[Len(s)].call = n

LEMMA UpToSize ==
    ASSUME NEW n \in Nat
    PROVE  Cardinality(1 .. n) = n
<1>1. Cardinality(1 .. n) = IF 1 > n THEN 0 ELSE n - 1 + 1
  BY FS_Interval
<1>2. QED
  BY <1>1

LEMMA LoggedLength ==
    ASSUME NEW s, NEW n, Numbered(s, n)
    PROVE  CallsOf(s) = [k \in 1 .. n |-> LoggedAs(s, k)]
<1>1. Cardinality(MadeIn(s)) = n
  BY UpToSize DEF Numbered
<1>2. QED
  BY <1>1, CallsOfIs

\* An event that is about no call leaves them alone.
LEMMA NoneGrows ==
    ASSUME NEW s, IsSeq(s), NEW n, Numbered(s, n), NEW e, e.kind \notin ToolKinds
    PROVE  CallsOf(Append(s, e)) = CallsOf(s)
<1> DEFINE t == Append(s, e)
<1>1. MadeIn(t) = MadeIn(s) /\ \A k : ArgsOf(t, k) = ArgsOf(s, k)
  BY AboutGrows DEF ToolKinds
<1>2. \A k : LoggedAs(t, k) = LoggedAs(s, k)
  BY <1>1 DEF LoggedAs
<1> HIDE DEF t
<1>3. CallsOf(t) = CallsOf(s)
  BY <1>1, <1>2, CallsOfIs
<1>4. QED
  BY <1>3 DEF t

\* The first event of a call appends it.
LEMMA CallGrows ==
    ASSUME NEW s, IsSeq(s), NEW n, Numbered(s, n), NEW e, e.kind \in ToolKinds,
           e.call = n + 1, n + 1 \in 1 .. MaxCalls
    PROVE  CallsOf(Append(s, e)) =
               Append(CallsOf(s), [id |-> n + 1,
                                   args |-> IF e.kind = "toolArgs" THEN <<n + 1>> ELSE <<>>])
<1> DEFINE t == Append(s, e)
           m == n + 1
           new == [id |-> m, args |-> IF e.kind = "toolArgs" THEN <<m>> ELSE <<>>]
<1>1. n \in Nat /\ MadeIn(s) = 1 .. n /\ m \in Nat /\ m \notin MadeIn(s)
  BY DEF Numbered
<1>2. /\ MadeIn(t) = MadeIn(s) \cup {m}
      /\ \A k : ArgsOf(t, k) = IF e.kind = "toolArgs" /\ m = k
                               THEN ArgsOf(s, k) + 1 ELSE ArgsOf(s, k)
      /\ ArgsOf(s, m) = 0
  BY <1>1, AboutGrows
<1>3. MadeIn(t) = 1 .. m /\ Cardinality(1 .. m) = m
  <2>1. 1 .. m = (1 .. n) \cup {m}
    BY <1>1
  <2>2. Cardinality(1 .. m) = m
    BY <1>1, UpToSize
  <2>3. QED
    BY <1>1, <1>2, <2>1, <2>2
<1>4. \A k \in 1 .. n : LoggedAs(t, k) = LoggedAs(s, k)
  BY <1>1, <1>2 DEF LoggedAs
<1>5. LoggedAs(t, m) = new
  <2>1. ArgsOf(t, m) = IF e.kind = "toolArgs" THEN 1 ELSE 0
    BY <1>2
  <2>2. [i \in 1 .. ArgsOf(t, m) |-> m] = IF e.kind = "toolArgs" THEN <<m>> ELSE <<>>
    BY <2>1
  <2>3. QED
    BY <2>2 DEF LoggedAs
<1> HIDE DEF t, new
<1>6. CallsOf(t) = [k \in 1 .. m |-> LoggedAs(t, k)]
  BY <1>3, CallsOfIs
<1>7. CallsOf(s) = [k \in 1 .. n |-> LoggedAs(s, k)]
  BY LoggedLength
<1>8. CallsOf(t) = Append(CallsOf(s), new)
  <2> DEFINE a == CallsOf(t)
             b == CallsOf(s)
             S == {LoggedAs(s, k) : k \in 1 .. n} \cup {new}
  <2>1. b \in Seq(S) /\ Len(b) = n
    BY <1>1, <1>7
  <2>2. a \in Seq(S) /\ Len(a) = m
    BY <1>1, <1>4, <1>5, <1>6
  <2>3. new \in S
    OBVIOUS
  <2>4. \A k \in 1 .. n : a[k] = b[k]
    BY <1>1, <1>4, <1>6, <1>7
  <2>5. a[m] = new
    BY <1>1, <1>5, <1>6
  <2> HIDE DEF a, b, S
  <2>6. Append(b, new) \in Seq(S) /\ Len(Append(b, new)) = m
        /\ \A k \in 1 .. m : Append(b, new)[k] = IF k = m THEN new ELSE b[k]
    BY <1>1, <2>1, <2>3
  <2>7. \A k \in 1 .. m : a[k] = Append(b, new)[k]
    BY <1>1, <2>4, <2>5, <2>6
  <2>8. a = Append(b, new)
    BY <2>2, <2>6, <2>7, SeqEqual
  <2>9. QED
    BY <2>8 DEF a, b
<1>9. QED
  BY <1>8 DEF t, new

\* A piece of arguments is added to its call.
LEMMA ArgsGrow ==
    ASSUME NEW s, IsSeq(s), NEW n, Numbered(s, n), NEW e, e.kind = "toolArgs", e.call \in 1 .. n
    PROVE  /\ CallsOf(s)[e.call].id = e.call
           /\ CallsOf(Append(s, e)) =
                  [CallsOf(s) EXCEPT ![e.call] =
                      [id |-> e.call, args |-> CallsOf(s)[e.call].args \o <<e.call>>]]
<1> DEFINE t == Append(s, e)
           m == e.call
<1>1. n \in Nat /\ MadeIn(s) = 1 .. n /\ m \in 1 .. n /\ m \in 1 .. MaxCalls
  BY DEF Numbered, MadeIn
<1>2. /\ MadeIn(t) = 1 .. n
      /\ \A k : ArgsOf(t, k) = IF m = k THEN ArgsOf(s, k) + 1 ELSE ArgsOf(s, k)
      /\ ArgsOf(s, m) \in Nat
  <2>1. e.kind \in ToolKinds
    BY DEF ToolKinds
  <2>2. MadeIn(t) = MadeIn(s) \cup {m}
    BY <1>1, <2>1, AboutGrows
  <2>3. MadeIn(t) = 1 .. n
    BY <1>1, <2>2
  <2>4. \A k : /\ ArgsOf(s, k) \in Nat
               /\ ArgsOf(t, k) = IF e.kind = "toolArgs" /\ e.call = k
                                 THEN ArgsOf(s, k) + 1 ELSE ArgsOf(s, k)
    BY AboutGrows
  <2>5. QED
    BY <2>3, <2>4
<1>3. Cardinality(1 .. n) = n
  BY <1>1, UpToSize
<1>4. \A k \in 1 .. n : k # m => LoggedAs(t, k) = LoggedAs(s, k)
  BY <1>2 DEF LoggedAs
<1>5. LoggedAs(t, m) = [id |-> m, args |-> LoggedAs(s, m).args \o <<m>>]
  <2> DEFINE a == [i \in 1 .. ArgsOf(t, m) |-> m]
             b == [i \in 1 .. ArgsOf(s, m) |-> m]
  <2>1. ArgsOf(t, m) = ArgsOf(s, m) + 1
    BY <1>2
  <2>2. a \in Seq({m}) /\ Len(a) = ArgsOf(s, m) + 1
    BY <1>2, <2>1
  <2>3. b \in Seq({m}) /\ Len(b) = ArgsOf(s, m) /\ <<m>> \in Seq({m})
    BY <1>2
  <2>4. b \o <<m>> \in Seq({m}) /\ Len(b \o <<m>>) = ArgsOf(s, m) + 1
    BY <1>2, <2>3
  <2>5. \A i \in 1 .. ArgsOf(s, m) + 1 : a[i] = (b \o <<m>>)[i]
    <3>1. \A q \in Seq({m}) : \A i \in 1 .. Len(q) : q[i] = m
      OBVIOUS
    <3> HIDE DEF a, b
    <3>2. QED
      BY <2>2, <2>4, <3>1
  <2> HIDE DEF a, b
  <2>6. a = b \o <<m>>
    BY <2>2, <2>4, <2>5, SeqEqual
  <2>7. LoggedAs(t, m) = [id |-> m, args |-> a] /\ LoggedAs(s, m).args = b
    BY DEF LoggedAs, a, b
  <2>8. QED
    BY <2>6, <2>7
<1> HIDE DEF t
<1>6. CallsOf(t) = [k \in 1 .. n |-> LoggedAs(t, k)]
  BY <1>2, <1>3, CallsOfIs
<1>7. CallsOf(s) = [k \in 1 .. n |-> LoggedAs(s, k)]
  BY LoggedLength
<1>8. CallsOf(s)[m] = LoggedAs(s, m)
  BY <1>1, <1>7
<1>9. LoggedAs(s, m).id = m
  BY DEF LoggedAs
<1>10. CallsOf(t) = [CallsOf(s) EXCEPT ![m] = LoggedAs(t, m)]
  <2> DEFINE logged == LoggedAs(t, m)
  <2>1. logged = LoggedAs(t, m)
    OBVIOUS
  <2> HIDE DEF logged
  <2>2. QED
    BY <1>1, <1>4, <1>6, <1>7, <2>1
<1>11. QED
  BY <1>5, <1>8, <1>9, <1>10 DEF t

\* What an upstream may say of its calls next.
LEMMA NextOfCalls ==
    ASSUME up \in Endpoints, NEW n, Numbered(sent, n), NEW e \in UpstreamEvents,
           e.kind \in ToolKinds
    PROVE  /\ e.call \in 1 .. MaxCalls
           /\ \/ e.kind = "toolStart" /\ up # OpenAiResponse /\ e.call = n + 1
              \/ e.kind = "toolArgs" /\ e.call \in 1 .. n /\ (up = Anthropic => e.call = n)
              \/ e.kind = "toolArgs" /\ e.call = n + 1 /\ up = OpenAiResponse
<1>1. e \in ToolStarts \cup ToolArgs /\ e.call \in 1 .. MaxCalls
  <2>1. e \in Begins \cup Contents \cup ToolStarts \cup ToolArgs \cup Rest
    BY DEF UpstreamEvents
  <2>2. e \notin Begins \cup Contents \cup Rest
    BY DEF Begins, Contents, Rest, Event, ToolKinds
  <2>3. QED
    BY <2>1, <2>2 DEF ToolStarts, ToolArgs, Event
<1>2. Follows(e)
  BY DEF UpstreamEvents
<1>3. n \in Nat /\ MadeIn(sent) = 1 .. n
  BY DEF Numbered
<1>4. CASE e.kind = "toolStart"
  <2>1. up # OpenAiResponse /\ e.call = Count("toolStart") + 1
    BY <1>2, <1>4 DEF Follows
  <2>2. Count("toolStart") = n
    BY <2>1 DEF Numbered, Count
  <2>3. QED
    BY <1>1, <1>4, <2>1, <2>2
<1>5. CASE e.kind = "toolArgs" /\ up = OpenAiChat
  <2>1. e.call <= Count("toolStart")
    BY <1>2, <1>5 DEF Follows, OpenAiChat, Anthropic, OpenAiResponse
  <2>2. Count("toolStart") = n
    BY <1>5 DEF Numbered, Count, OpenAiChat, OpenAiResponse
  <2>3. QED
    BY <1>1, <1>3, <1>5, <2>1, <2>2 DEF OpenAiChat, Anthropic
<1>6. CASE e.kind = "toolArgs" /\ up = Anthropic
  <2>1. sent # <<>> /\ sent[Len(sent)].kind \in ToolKinds /\ sent[Len(sent)].call = e.call
    BY <1>2, <1>6 DEF Follows, OpenAiChat, Anthropic, OpenAiResponse, Last, ToolKinds
  <2>2. e.call = n
    BY <1>6, <2>1 DEF Numbered
  <2>3. QED
    BY <1>1, <1>3, <1>6, <2>2
<1>7. CASE e.kind = "toolArgs" /\ up = OpenAiResponse
  <2>1. \A k \in 1 .. e.call - 1 :
            \E i \in DOMAIN sent : sent[i].kind = "toolArgs" /\ sent[i].call = k
    BY <1>2, <1>7 DEF Follows, OpenAiChat, Anthropic, OpenAiResponse
  <2>2. \A k \in 1 .. e.call - 1 : k \in MadeIn(sent)
    BY <1>1, <2>1, StreamLoopAssumption DEF MadeIn, About, ToolKinds
  <2>3. e.call <= n + 1
    <3>1. CASE e.call = 1
      BY <1>3, <3>1
    <3>2. CASE e.call # 1
      <4>1. e.call - 1 \in 1 .. e.call - 1
        BY <1>1, <3>2
      <4>2. e.call - 1 \in 1 .. n
        BY <1>3, <2>2, <4>1
      <4>3. QED
        BY <1>1, <1>3, <4>2
    <3>3. QED
      BY <3>1, <3>2
  <2>4. QED
    BY <1>1, <1>3, <1>7, <2>3 DEF Anthropic, OpenAiResponse
<1>8. QED
  BY <1>4, <1>5, <1>6, <1>7 DEF Endpoints, ToolKinds

\* The numbering is kept.
LEMMA NumberedGrows ==
    ASSUME up \in Endpoints, IsSeq(sent), NEW n, Numbered(sent, n), NEW e \in UpstreamEvents
    PROVE  \E m : Numbered(Append(sent, e), m)
<1> DEFINE t == Append(sent, e)
           k == Len(sent) + 1
           m == IF e.kind \in ToolKinds /\ e.call = n + 1 THEN n + 1 ELSE n
           A == {i \in DOMAIN sent : sent[i].kind = "toolStart"}
           B == {i \in DOMAIN t : t[i].kind = "toolStart"}
<1>1. n \in Nat /\ MadeIn(sent) = 1 .. n
  BY DEF Numbered
<1>2. /\ Len(sent) \in Nat /\ DOMAIN sent = 1 .. Len(sent)
      /\ DOMAIN t = DOMAIN sent \cup {k} /\ t[k] = e /\ k \notin DOMAIN sent
      /\ Len(t) = k /\ t # <<>>
      /\ \A i \in DOMAIN sent : t[i] = sent[i]
  BY DEF IsSeq
<1>3. e.kind \in ToolKinds =>
          /\ e.call \in 1 .. MaxCalls
          /\ \/ e.kind = "toolStart" /\ up # OpenAiResponse /\ e.call = n + 1
             \/ e.kind = "toolArgs" /\ e.call \in 1 .. n /\ (up = Anthropic => e.call = n)
             \/ e.kind = "toolArgs" /\ e.call = n + 1 /\ up = OpenAiResponse
  BY NextOfCalls
<1>4. MadeIn(t) = IF e.kind \in ToolKinds THEN MadeIn(sent) \cup {e.call} ELSE MadeIn(sent)
  BY <1>3, AboutGrows
<1>5. MadeIn(t) = 1 .. m /\ m \in Nat
  <2>1. CASE e.kind \in ToolKinds /\ e.call = n + 1
    <3>1. m = n + 1 /\ 1 .. n + 1 = (1 .. n) \cup {n + 1}
      BY <1>1, <2>1
    <3>2. QED
      BY <1>1, <1>4, <2>1, <3>1
  <2>2. CASE e.kind \in ToolKinds /\ e.call # n + 1
    <3>1. m = n /\ e.call \in 1 .. n
      BY <1>3, <2>2
    <3>2. (1 .. n) \cup {e.call} = 1 .. n
      BY <3>1
    <3>3. QED
      BY <1>1, <1>4, <2>2, <3>1, <3>2
  <2>3. CASE e.kind \notin ToolKinds
    BY <1>1, <1>4, <2>3
  <2>4. QED
    BY <2>1, <2>2, <2>3
<1>6. Cardinality(B) = IF e.kind = "toolStart" THEN Cardinality(A) + 1 ELSE Cardinality(A)
  <2>1. IsFiniteSet(A)
    <3>1. IsFiniteSet(DOMAIN sent)
      BY <1>2, FS_Interval
    <3>2. QED
      BY <3>1, FS_Subset
  <2>2. k \notin A /\ B = IF e.kind = "toolStart" THEN A \cup {k} ELSE A
    BY <1>2
  <2> HIDE DEF A, B
  <2>3. QED
    BY <2>1, <2>2, FS_AddElement
<1>7. /\ up # OpenAiResponse => Cardinality(A) = n
      /\ up = OpenAiResponse => \A i \in DOMAIN sent : sent[i].kind # "toolStart"
  BY DEF Numbered
<1>8. up # OpenAiResponse => Cardinality(B) = m
  <2> HIDE DEF A, B
  <2>1. e.kind = "toolStart" => e.kind \in ToolKinds
    BY DEF ToolKinds
  <2>2. QED
    BY <1>1, <1>3, <1>6, <1>7, <2>1
<1>9. up = OpenAiResponse => \A i \in DOMAIN t : t[i].kind # "toolStart"
  <2>1. up = OpenAiResponse => e.kind # "toolStart"
    BY <1>3 DEF ToolKinds
  <2>2. QED
    BY <1>2, <1>7, <2>1
<1>10. up = Anthropic /\ t[Len(t)].kind \in ToolKinds => t[Len(t)].call = m
  BY <1>1, <1>2, <1>3 DEF Anthropic, OpenAiResponse
<1> HIDE DEF t, m
<1>11. Numbered(t, m)
  BY <1>5, <1>8, <1>9, <1>10 DEF Numbered
<1>12. QED
  BY <1>11 DEF t

\* What is decoded of the events about calls.
LEMMA ToolsDecoded ==
    ASSUME up \in Endpoints, NEW e
    PROVE  /\ e.kind \notin ToolKinds => Decode(up, e).tools = <<>>
           /\ e.kind = "toolStart" /\ up \in {OpenAiChat, Anthropic} =>
                  Decode(up, e) = ToolDelta(e.call, e.call, <<>>)
           /\ e.kind = "toolArgs" /\ up \in {OpenAiChat, Anthropic} =>
                  Decode(up, e) = ToolDelta(e.call, NoId, <<e.call>>)
           /\ e.kind = "toolArgs" /\ up = OpenAiResponse =>
                  Decode(up, e) = ToolDelta(0, e.call, <<e.call>>)
<1>1. EmptyDelta.tools = <<>> /\ NoDelta.tools = <<>>
  BY DEF EmptyDelta, NoDelta
<1>2. TextDelta(e).tools = <<>>
  BY DEF EmptyDelta, TextDelta
<1>3. /\ [EmptyDelta EXCEPT !.finish = TRUE].tools = <<>>
      /\ [EmptyDelta EXCEPT !.finish = TRUE, !.usage = TRUE].tools = <<>>
      /\ [NoDelta EXCEPT !.usage = TRUE].tools = <<>>
  BY DEF EmptyDelta, NoDelta
<1>4. CASE up = OpenAiChat
  <2>1. Decode(up, e) = DecodeChat(e)
    BY <1>4 DEF Decode, OpenAiChat, Anthropic, OpenAiResponse
  <2>2. QED
    BY <1>1, <1>2, <1>3, <1>4, <2>1 DEF DecodeChat, ToolKinds, OpenAiChat, OpenAiResponse
<1>5. CASE up = Anthropic
  <2>1. Decode(up, e) = DecodeAnthropic(e)
    BY <1>5 DEF Decode, OpenAiChat, Anthropic, OpenAiResponse
  <2>2. QED
    BY <1>1, <1>2, <1>3, <1>5, <2>1 DEF DecodeAnthropic, ToolKinds, Anthropic, OpenAiResponse
<1>6. CASE up = OpenAiResponse
  <2>1. Decode(up, e) = DecodeResponses(e)
    BY <1>6 DEF Decode, OpenAiChat, Anthropic, OpenAiResponse
  <2>2. QED
    BY <1>1, <1>2, <1>3, <1>6, <2>1
       DEF DecodeResponses, ToolKinds, OpenAiChat, Anthropic, OpenAiResponse
<1>7. QED
  BY <1>4, <1>5, <1>6 DEF Endpoints

LEMMA ToolsOfDelta ==
    ASSUME NEW index, NEW id, NEW args
    PROVE  /\ ToolDelta(index, id, args).tools = <<[index |-> index, id |-> id, args |-> args]>>
           /\ ToolDelta(index, id, args) # NoDelta
<1>1. ToolDelta(index, id, args).choice = TRUE /\ NoDelta.choice = FALSE
  BY DEF ToolDelta, EmptyDelta, NoDelta
<1>2. ToolDelta(index, id, args).tools = <<[index |-> index, id |-> id, args |-> args]>>
  BY DEF ToolDelta, EmptyDelta
<1>3. QED
  BY <1>1, <1>2

LEMMA LastReplaced ==
    ASSUME NEW c, IsSeq(c), NEW a, NEW b, NEW k, k = Len(c) + 1
    PROVE  [Append(c, a) EXCEPT ![k] = b] = Append(c, b)
<1>0. PICK S : c \in Seq(S)
  BY DEF IsSeq
<1> DEFINE T == S \cup {a, b}
           p == Append(c, a)
           q == Append(c, b)
           r == [p EXCEPT ![k] = b]
<1>1. c \in Seq(T) /\ Len(c) \in Nat /\ k \in Nat
  BY <1>0
<1>2. p \in Seq(T) /\ q \in Seq(T) /\ Len(p) = k /\ Len(q) = k
  BY <1>1
<1>3. \A i \in 1 .. Len(c) : p[i] = c[i] /\ q[i] = c[i]
  BY <1>1
<1>4. p[k] = a /\ q[k] = b
  BY <1>1
<1> HIDE DEF p, q
<1>5. r \in Seq(T) /\ Len(r) = k
  BY <1>1, <1>2
<1>6. \A i \in 1 .. k : r[i] = q[i]
  BY <1>1, <1>2, <1>3, <1>4
<1> HIDE DEF r
<1>7. r = q
  BY <1>2, <1>5, <1>6, SeqEqual
<1>8. QED
  BY <1>7 DEF p, q, r

\* What one more event makes of the calls.
LEMMA NextCall ==
    ASSUME up \in Endpoints, IsSeq(sent), NEW n, Numbered(sent, n), NEW e \in UpstreamEvents
    PROVE  LET c == CallsOf(sent)
               t == CallsOf(Append(sent, e))
               k == e.call
           IN  /\ n \in Nat /\ IsSeq(c) /\ DOMAIN c = 1 .. n /\ Len(c) = n
               /\ \A i \in 1 .. n : c[i].id = i /\ c[i] = [id |-> i, args |-> c[i].args]
               /\ e.kind \notin ToolKinds => t = c
               /\ e.kind = "toolStart" =>
                     /\ up # OpenAiResponse /\ k = n + 1
                     /\ t = Append(c, [id |-> k, args |-> <<>>])
               /\ e.kind = "toolArgs" =>
                     \/ /\ k \in 1 .. n /\ (up = Anthropic => k = n)
                        /\ t = [c EXCEPT ![k] = [id |-> k, args |-> c[k].args \o <<k>>]]
                     \/ /\ up = OpenAiResponse /\ k = n + 1
                        /\ t = Append(c, [id |-> k, args |-> <<k>>])
<1> DEFINE c == CallsOf(sent)
           t == CallsOf(Append(sent, e))
           k == e.call
<1>1. n \in Nat
  BY DEF Numbered
<1>2. c = [i \in 1 .. n |-> LoggedAs(sent, i)]
  BY LoggedLength
<1>3. IsSeq(c) /\ DOMAIN c = 1 .. n /\ Len(c) = n
  <2>1. c \in Seq({LoggedAs(sent, i) : i \in 1 .. n})
    BY <1>1, <1>2
  <2> HIDE DEF c
  <2>2. IsSeq(c)
    BY <2>1 DEF IsSeq
  <2>3. QED
    BY <1>1, <1>2, <2>2
<1>4. \A i \in 1 .. n : c[i].id = i /\ c[i] = [id |-> i, args |-> c[i].args]
  <2> HIDE DEF c
  <2>1. QED
    BY <1>2 DEF LoggedAs
<1>5. e.kind \notin ToolKinds => t = c
  BY NoneGrows
<1>6. e.kind = "toolStart" =>
          up # OpenAiResponse /\ k = n + 1 /\ t = Append(c, [id |-> k, args |-> <<>>])
  <2>1. SUFFICES ASSUME e.kind = "toolStart"
                 PROVE  up # OpenAiResponse /\ k = n + 1 /\ t = Append(c, [id |-> k, args |-> <<>>])
    OBVIOUS
  <2>2. up # OpenAiResponse /\ k = n + 1 /\ k \in 1 .. MaxCalls
    BY <2>1, NextOfCalls DEF ToolKinds
  <2>3. t = Append(c, [id |-> n + 1, args |-> <<>>])
    BY <2>1, <2>2, CallGrows DEF ToolKinds
  <2>4. QED
    BY <2>2, <2>3
<1>7. e.kind = "toolArgs" =>
          \/ /\ k \in 1 .. n /\ (up = Anthropic => k = n)
             /\ t = [c EXCEPT ![k] = [id |-> k, args |-> c[k].args \o <<k>>]]
          \/ /\ up = OpenAiResponse /\ k = n + 1
             /\ t = Append(c, [id |-> k, args |-> <<k>>])
  <2>1. SUFFICES ASSUME e.kind = "toolArgs"
                 PROVE  \/ /\ k \in 1 .. n /\ (up = Anthropic => k = n)
                           /\ t = [c EXCEPT ![k] = [id |-> k, args |-> c[k].args \o <<k>>]]
                        \/ /\ up = OpenAiResponse /\ k = n + 1
                           /\ t = Append(c, [id |-> k, args |-> <<k>>])
    OBVIOUS
  <2>2. /\ k \in 1 .. MaxCalls
        /\ \/ k \in 1 .. n /\ (up = Anthropic => k = n)
           \/ k = n + 1 /\ up = OpenAiResponse
    BY <2>1, NextOfCalls DEF ToolKinds
  <2>3. CASE k \in 1 .. n
    <3>1. t = [c EXCEPT ![k] = [id |-> k, args |-> c[k].args \o <<k>>]]
      BY <2>1, <2>3, ArgsGrow
    <3>2. up = Anthropic => k = n
      BY <1>1, <2>2, <2>3
    <3>3. QED
      BY <2>3, <3>1, <3>2
  <2>4. CASE k = n + 1
    <3>1. t = Append(c, [id |-> n + 1, args |-> <<n + 1>>])
      BY <2>1, <2>2, <2>4, CallGrows DEF ToolKinds
    <3>2. up = OpenAiResponse
      BY <1>1, <2>2, <2>4
    <3>3. QED
      BY <2>4, <3>1, <3>2
  <2>5. QED
    BY <2>2, <2>3, <2>4
<1> HIDE DEF c, t, k
<1>8. QED
  BY <1>1, <1>3, <1>4, <1>5, <1>6, <1>7 DEF c, t, k

\* The pieces of a stream of chat completions are put where they belong,
\* whatever their order.
LEMMA ChatCollected ==
    ASSUME up = OpenAiChat, IsSeq(sent), NEW n, Numbered(sent, n), NEW e \in UpstreamEvents
    PROVE  CollectChat(CallsOf(sent), DecodeChat(e)) = CallsOf(Append(sent, e))
<1> DEFINE c == CallsOf(sent)
           t == CallsOf(Append(sent, e))
           d == DecodeChat(e)
           k == e.call
<1>1. d = Decode(up, e) /\ up \in Endpoints
  BY DEF Decode, OpenAiChat, Anthropic, OpenAiResponse, Endpoints
<1>2. /\ n \in Nat /\ IsSeq(c) /\ Len(c) = n /\ DOMAIN c = 1 .. n
      /\ \A i \in 1 .. n : c[i].id = i
      /\ e.kind \notin ToolKinds => t = c
      /\ e.kind = "toolStart" => k = n + 1 /\ t = Append(c, [id |-> k, args |-> <<>>])
      /\ e.kind = "toolArgs" =>
             k \in 1 .. n /\ t = [c EXCEPT ![k] = [id |-> k, args |-> c[k].args \o <<k>>]]
  BY <1>1, NextCall DEF OpenAiChat, OpenAiResponse
<1>3. /\ e.kind \notin ToolKinds => d.tools = <<>>
      /\ e.kind = "toolStart" => d = ToolDelta(k, k, <<>>)
      /\ e.kind = "toolArgs" => d = ToolDelta(k, NoId, <<k>>)
  BY <1>1, ToolsDecoded
<1> HIDE DEF c, d, t, k
<1>4. CASE e.kind \notin ToolKinds
  BY <1>2, <1>3, <1>4, NoneChat DEF CollectChat, c, d, t
<1>5. CASE e.kind = "toolStart"
  <2> DEFINE one == [index |-> k, id |-> k, args |-> <<>>]
             new == [id |-> k, args |-> <<>>]
             long == c \o [i \in 1 .. k - Len(c) |-> NoCall]
  <2>1. CollectChat(c, d) = AddChat(c, one)
    <3>1. d.tools = <<one>>
      BY <1>3, <1>5, ToolsOfDelta
    <3>2. QED
      BY <3>1, OneChat, Zenon DEF CollectChat
  <2>2. k = n + 1 /\ k # 0 /\ ~(Len(c) >= k)
    BY <1>2, <1>5
  <2>3. AddChat(c, one) = [long EXCEPT ![k] = [id |-> k, args |-> long[k].args \o <<>>]]
    BY <2>2 DEF AddChat, NoId
  <2>4. [i \in 1 .. k - Len(c) |-> NoCall] = <<NoCall>>
    BY <1>2, <2>2
  <2>5. long = Append(c, NoCall) /\ Len(long) = k /\ long[k] = NoCall
    <3>1. long = c \o <<NoCall>>
      BY <2>4
    <3>2. c \o <<NoCall>> = Append(c, NoCall)
      BY <1>2, SeqOne
    <3>3. PICK S : c \in Seq(S)
      BY <1>2 DEF IsSeq
    <3>4. QED
      BY <1>2, <2>2, <3>1, <3>2, <3>3
  <2>6. NoCall.args \o <<>> = <<>>
    BY SeqOne, <<>> \in Seq({}) DEF NoCall, IsSeq
  <2> HIDE DEF long, one
  <2>7. AddChat(c, one) = [Append(c, NoCall) EXCEPT ![k] = new]
    BY <2>3, <2>5, <2>6
  <2>8. [Append(c, NoCall) EXCEPT ![k] = new] = Append(c, new)
    <3>1. IsSeq(c) /\ k = Len(c) + 1
      BY <1>2, <2>2
    <3> HIDE DEF new
    <3>2. \A i : i = Len(c) + 1 => [Append(c, NoCall) EXCEPT ![i] = new] = Append(c, new)
      BY <3>1, LastReplaced
    <3>3. QED
      BY <3>1, <3>2
  <2>9. QED
    BY <1>2, <1>5, <2>1, <2>7, <2>8 DEF c, d, t
<1>6. CASE e.kind = "toolArgs"
  <2> DEFINE one == [index |-> k, id |-> NoId, args |-> <<k>>]
  <2>1. CollectChat(c, d) = AddChat(c, one)
    <3>1. d.tools = <<one>>
      BY <1>3, <1>6, ToolsOfDelta
    <3>2. QED
      BY <3>1, OneChat, Zenon DEF CollectChat
  <2>2. k \in 1 .. n /\ c[k].id = k /\ Len(c) >= k
    BY <1>2, <1>6
  <2>3. AddChat(c, one) = [c EXCEPT ![k] = [id |-> c[k].id, args |-> c[k].args \o <<k>>]]
    BY <2>2 DEF AddChat
  <2>4. QED
    BY <1>2, <1>6, <2>1, <2>2, <2>3 DEF c, d, t
<1>7. QED
  BY <1>4, <1>5, <1>6 DEF ToolKinds

\* Those of a stream of Responses go to the call that is named.
LEMMA ResponsesCollected ==
    ASSUME up = OpenAiResponse, IsSeq(sent), NEW n, Numbered(sent, n), NEW e \in UpstreamEvents
    PROVE  CollectResponses(CallsOf(sent), DecodeResponses(e)) = CallsOf(Append(sent, e))
<1> DEFINE c == CallsOf(sent)
           t == CallsOf(Append(sent, e))
           d == DecodeResponses(e)
           k == e.call
           one == [index |-> 0, id |-> k, args |-> <<k>>]
           at == {i \in DOMAIN c : c[i].id = one.id}
<1>1. d = Decode(up, e) /\ up \in Endpoints
  BY DEF Decode, OpenAiChat, Anthropic, OpenAiResponse, Endpoints
<1>2. /\ n \in Nat /\ DOMAIN c = 1 .. n
      /\ \A i \in 1 .. n : c[i].id = i /\ c[i] = [id |-> i, args |-> c[i].args]
      /\ e.kind # "toolArgs" => t = c
      /\ e.kind = "toolArgs" =>
             \/ k \in 1 .. n /\ t = [c EXCEPT ![k] = [id |-> k, args |-> c[k].args \o <<k>>]]
             \/ k = n + 1 /\ t = Append(c, [id |-> k, args |-> <<k>>])
  <2>1. e.kind # "toolStart"
    BY <1>1, NextCall
  <2>2. QED
    BY <1>1, <2>1, NextCall DEF ToolKinds
<1>3. /\ e.kind # "toolArgs" => d.tools = <<>>
      /\ e.kind = "toolArgs" => d = ToolDelta(0, k, <<k>>)
  <2>1. e.kind # "toolStart"
    BY <1>1, NextCall
  <2>2. QED
    BY <1>1, <2>1, ToolsDecoded DEF ToolKinds
<1> HIDE DEF c, d, t, k
<1>4. CASE e.kind # "toolArgs"
  BY <1>2, <1>3, <1>4, NoneResponses DEF CollectResponses, c, d, t
<1>5. CASE e.kind = "toolArgs"
  <2>1. CollectResponses(c, d) = AddResponses(c, one)
    <3>1. d.tools = <<one>>
      BY <1>3, <1>5, ToolsOfDelta
    <3>2. QED
      BY <3>1, OneResponses, Zenon DEF CollectResponses
  <2>2. CASE k \in 1 .. n
    <3>1. at = {k}
      BY <1>2, <2>2
    <3>2. Min({k}) = k
      BY DEF Min
    <3>3. AddResponses(c, one) = [c EXCEPT ![k].args = c[k].args \o <<k>>]
      BY <3>1, <3>2 DEF AddResponses
    <3>4. k \in DOMAIN c /\ c[k] = [id |-> k, args |-> c[k].args]
      BY <1>2, <2>2
    <3>5. [c[k] EXCEPT !.args = c[k].args \o <<k>>] = [id |-> k, args |-> c[k].args \o <<k>>]
      BY <3>4
    <3>6. [c EXCEPT ![k].args = c[k].args \o <<k>>]
              = [c EXCEPT ![k] = [id |-> k, args |-> c[k].args \o <<k>>]]
      BY <3>5
    <3>7. t = [c EXCEPT ![k] = [id |-> k, args |-> c[k].args \o <<k>>]]
      BY <1>2, <1>5, <2>2
    <3>8. QED
      BY <2>1, <3>3, <3>6, <3>7 DEF c, d, t
  <2>3. CASE k = n + 1
    <3>1. at = {}
      BY <1>2, <2>3
    <3>2. AddResponses(c, one) = Append(c, [id |-> k, args |-> <<k>>])
      BY <3>1 DEF AddResponses
    <3>3. t = Append(c, [id |-> k, args |-> <<k>>])
      BY <1>2, <1>5, <2>3
    <3>4. QED
      BY <2>1, <3>2, <3>3 DEF c, d, t
  <2>4. QED
    BY <1>2, <1>5, <2>2, <2>3
<1>6. QED
  BY <1>4, <1>5

\* A call with other arguments.
CallWith(k, args) == [id |-> k, args |-> args]

WithArgs(call, more) == [call EXCEPT !.args = more]

LEMMA OtherArgs ==
    ASSUME NEW k, NEW args, NEW more
    PROVE  WithArgs(CallWith(k, args), more) = CallWith(k, more)
<1> DEFINE new == WithArgs(CallWith(k, args), more)
           as == CallWith(k, more)
<1>1. new = [x \in {"id", "args"} |-> new[x]] /\ as = [x \in {"id", "args"} |-> as[x]]
  BY DEF CallWith, WithArgs
<1>2. new["id"] = as["id"] /\ new["args"] = as["args"]
  BY DEF CallWith, WithArgs
<1> HIDE DEF new, as
<1>3. new = as
  BY <1>1, <1>2
<1>4. QED
  BY <1>3 DEF new, as

\* A stream whose calls can be told apart had calls that could be.
LEMMA ToldApartSoFar ==
    ASSUME NEW s, IsSeq(s), NEW e, ToldApart(Append(s, e))
    PROVE  ToldApart(s)
<1> DEFINE t == Append(s, e)
<1>1. \A i \in DOMAIN s : i \in DOMAIN t /\ t[i] = s[i]
  BY DEF IsSeq
<1> HIDE DEF t
<1>2. OneByOne(t) => OneByOne(s)
  BY <1>1 DEF OneByOne
<1>3. InOnePiece(t) => InOnePiece(s)
  BY <1>1 DEF InOnePiece
<1>4. ToldApart(t)
  BY DEF t
<1>5. QED
  BY <1>2, <1>3, <1>4 DEF ToldApart

\* In such a stream a piece of arguments belongs to the last call, or is one.
LEMMA PieceOfLast ==
    ASSUME up \in Endpoints, IsSeq(sent), NEW n, Numbered(sent, n), NEW e \in UpstreamEvents,
           e.kind = "toolArgs", ToldApart(Append(sent, e))
    PROVE  e.call = IF up = OpenAiResponse THEN n + 1 ELSE n
<1> DEFINE t == Append(sent, e)
           j == Len(sent) + 1
<1>1. /\ Len(sent) \in Nat /\ DOMAIN sent = 1 .. Len(sent)
      /\ j \in DOMAIN t /\ t[j] = e
      /\ \A i \in DOMAIN sent : i \in DOMAIN t /\ t[i] = sent[i] /\ i < j
  BY DEF IsSeq
<1> HIDE DEF t, j
<1>2. /\ n \in Nat /\ MadeIn(sent) = 1 .. n
      /\ up = OpenAiResponse => \A i \in DOMAIN sent : sent[i].kind # "toolStart"
  BY DEF Numbered
<1>3. \A k \in 1 .. n : \E i \in DOMAIN sent : sent[i].kind \in ToolKinds /\ sent[i].call = k
  BY <1>2 DEF MadeIn, About
<1>4. \/ e.call \in 1 .. n /\ (up = Anthropic => e.call = n)
      \/ e.call = n + 1 /\ up = OpenAiResponse
  BY NextOfCalls DEF ToolKinds
<1>5. ToldApart(t)
  BY DEF t
<1>6. CASE up = Anthropic
  BY <1>4, <1>6 DEF Anthropic, OpenAiResponse
<1>7. CASE up = OpenAiChat
  <2>1. OneByOne(t) /\ up # OpenAiResponse
    BY <1>5, <1>7 DEF ToldApart, OpenAiChat, OpenAiResponse
  <2>2. e.call \in 1 .. n
    BY <1>4, <2>1
  <2>3. n \in 1 .. n
    BY <1>2, <2>2
  <2>4. PICK i \in DOMAIN sent : sent[i].kind \in ToolKinds /\ sent[i].call = n
    BY <1>3, <2>3
  <2>5. n <= e.call
    BY <1>1, <2>1, <2>4 DEF OneByOne, ToolKinds
  <2>6. QED
    BY <1>2, <2>1, <2>2, <2>5
<1>8. CASE up = OpenAiResponse
  <2>1. InOnePiece(t)
    BY <1>5, <1>8 DEF ToldApart, OpenAiChat, OpenAiResponse
  <2>2. e.call \notin 1 .. n
    <3> SUFFICES ASSUME e.call \in 1 .. n
                 PROVE  FALSE
      OBVIOUS
    <3>1. PICK i \in DOMAIN sent : sent[i].kind \in ToolKinds /\ sent[i].call = e.call
      BY <1>3
    <3>2. sent[i].kind = "toolArgs"
      BY <1>2, <1>8, <3>1 DEF ToolKinds
    <3>3. QED
      BY <1>1, <2>1, <3>1, <3>2 DEF InOnePiece
  <2>3. QED
    BY <1>4, <1>8, <2>2
<1>9. QED
  BY <1>6, <1>7, <1>8 DEF Endpoints

\* Its pieces are put where they belong when it is converted.
LEMMA ConvertedCollected ==
    ASSUME up \in Endpoints, IsSeq(sent), NEW n, Numbered(sent, n), NEW e \in UpstreamEvents,
           ToldApart(Append(sent, e))
    PROVE  /\ CollectConverted(CallsOf(sent), Decode(up, e)) = CallsOf(Append(sent, e))
           /\ Decode(up, e) = NoDelta => CallsOf(Append(sent, e)) = CallsOf(sent)
<1> DEFINE c == CallsOf(sent)
           t == CallsOf(Append(sent, e))
           d == Decode(up, e)
           k == e.call
<1>1. e.kind = "toolArgs" => k = IF up = OpenAiResponse THEN n + 1 ELSE n
  BY PieceOfLast
<1>2. /\ n \in Nat /\ DOMAIN c = 1 .. n /\ Len(c) = n
      /\ \A i \in 1 .. n : c[i] = [id |-> i, args |-> c[i].args]
      /\ e.kind \notin ToolKinds => t = c
      /\ e.kind = "toolStart" =>
             up # OpenAiResponse /\ k = n + 1 /\ t = Append(c, [id |-> k, args |-> <<>>])
      /\ e.kind = "toolArgs" /\ up # OpenAiResponse =>
             k \in 1 .. n /\ k = n /\ t = [c EXCEPT ![k] = [id |-> k, args |-> c[k].args \o <<k>>]]
      /\ e.kind = "toolArgs" /\ up = OpenAiResponse =>
             k = n + 1 /\ t = Append(c, [id |-> k, args |-> <<k>>])
  <2>1. /\ n \in Nat /\ DOMAIN c = 1 .. n /\ Len(c) = n
        /\ \A i \in 1 .. n : c[i] = [id |-> i, args |-> c[i].args]
        /\ e.kind \notin ToolKinds => t = c
        /\ e.kind = "toolStart" =>
               up # OpenAiResponse /\ k = n + 1 /\ t = Append(c, [id |-> k, args |-> <<>>])
        /\ e.kind = "toolArgs" =>
               \/ k \in 1 .. n /\ t = [c EXCEPT ![k] = [id |-> k, args |-> c[k].args \o <<k>>]]
               \/ up = OpenAiResponse /\ k = n + 1 /\ t = Append(c, [id |-> k, args |-> <<k>>])
    BY NextCall
  <2> HIDE DEF c, t, k
  <2>2. n + 1 \notin 1 .. n
    BY <2>1
  <2>3. QED
    BY <1>1, <2>1, <2>2
<1>3. /\ e.kind \notin ToolKinds => d.tools = <<>>
      /\ e.kind = "toolStart" => d = ToolDelta(k, k, <<>>)
      /\ e.kind = "toolArgs" /\ up # OpenAiResponse => d = ToolDelta(k, NoId, <<k>>)
      /\ e.kind = "toolArgs" /\ up = OpenAiResponse => d = ToolDelta(0, k, <<k>>)
  BY <1>2, ToolsDecoded DEF Endpoints
<1>4. d = NoDelta => t = c
  <2>1. d = NoDelta => e.kind \notin {"toolStart", "toolArgs"}
    <3>1. /\ ToolDelta(k, k, <<>>) # NoDelta /\ ToolDelta(k, NoId, <<k>>) # NoDelta
          /\ ToolDelta(0, k, <<k>>) # NoDelta
      BY ToolsOfDelta
    <3> HIDE DEF d
    <3>2. QED
      BY <1>3, <3>1
  <2>2. QED
    BY <1>2, <2>1 DEF ToolKinds
<1> HIDE DEF c, d, t, k
<1>5. CASE e.kind \notin ToolKinds
  BY <1>2, <1>3, <1>4, <1>5, NoneConverted DEF CollectConverted, c, d, t
<1>6. CASE e.kind = "toolStart"
  <2> DEFINE one == [index |-> k, id |-> k, args |-> <<>>]
  <2>1. CollectConverted(c, d) = AddConverted(c, one)
    <3>1. d.tools = <<one>>
      BY <1>3, <1>6, ToolsOfDelta
    <3>2. QED
      BY <3>1, OneConverted, Zenon DEF CollectConverted
  <2>2. k # NoId
    BY <1>2, <1>6 DEF NoId
  <2>3. AddConverted(c, one) = Append(c, [id |-> k, args |-> <<>>])
    BY <2>2 DEF AddConverted
  <2>4. QED
    BY <1>2, <1>4, <1>6, <2>1, <2>3 DEF c, d, t
<1>7. CASE e.kind = "toolArgs" /\ up # OpenAiResponse
  <2> DEFINE one == [index |-> k, id |-> NoId, args |-> <<k>>]
  <2>1. CollectConverted(c, d) = AddConverted(c, one)
    <3>1. d.tools = <<one>>
      BY <1>3, <1>7, ToolsOfDelta
    <3>2. QED
      BY <3>1, OneConverted, Zenon DEF CollectConverted
  <2>2. k = n /\ k \in DOMAIN c /\ Len(c) = k /\ c # <<>> /\ c[k] = [id |-> k, args |-> c[k].args]
    <3>1. k = n /\ k \in 1 .. n /\ k \in DOMAIN c /\ Len(c) = k
      BY <1>2, <1>7
    <3>2. c[k] = [id |-> k, args |-> c[k].args]
      BY <1>2, <3>1
    <3>3. c # <<>>
      BY <3>1, DOMAIN <<>> = {}
    <3>4. QED
      BY <3>1, <3>2, <3>3
  <2>3. AddConverted(c, one) = [c EXCEPT ![k].args = c[k].args \o <<k>>]
    BY <2>2 DEF AddConverted
  <2>4. [c[k] EXCEPT !.args = c[k].args \o <<k>>] = [id |-> k, args |-> c[k].args \o <<k>>]
    <3> DEFINE call == c[k]
               args == c[k].args
    <3>1. call = CallWith(k, args)
      BY <2>2 DEF CallWith
    <3> HIDE DEF call, args
    <3>2. WithArgs(call, args \o <<k>>) = CallWith(k, args \o <<k>>)
      BY <3>1, OtherArgs
    <3>3. QED
      BY <3>2 DEF call, args, CallWith, WithArgs
  <2>5. [c EXCEPT ![k].args = c[k].args \o <<k>>]
            = [c EXCEPT ![k] = [id |-> k, args |-> c[k].args \o <<k>>]]
    BY <2>4
  <2>6. t = [c EXCEPT ![k] = [id |-> k, args |-> c[k].args \o <<k>>]]
    BY <1>2, <1>7
  <2>7. QED
    BY <1>4, <2>1, <2>3, <2>5, <2>6 DEF c, d, t
<1>8. CASE e.kind = "toolArgs" /\ up = OpenAiResponse
  <2> DEFINE one == [index |-> 0, id |-> k, args |-> <<k>>]
  <2>1. CollectConverted(c, d) = AddConverted(c, one)
    <3>1. d.tools = <<one>>
      BY <1>3, <1>8, ToolsOfDelta
    <3>2. QED
      BY <3>1, OneConverted, Zenon DEF CollectConverted
  <2>2. k # NoId
    BY <1>2, <1>8 DEF NoId
  <2>3. AddConverted(c, one) = Append(c, [id |-> k, args |-> <<k>>])
    BY <2>2 DEF AddConverted
  <2>4. QED
    BY <1>2, <1>4, <1>8, <2>1, <2>3 DEF c, d, t
<1>9. QED
  BY <1>5, <1>6, <1>7, <1>8 DEF ToolKinds

LEMMA PassedCollected ==
    ASSUME up \in Endpoints, up # Anthropic, IsSeq(sent), NEW n, Numbered(sent, n),
           NEW e \in UpstreamEvents
    PROVE  CollectCalls(up, CallsOf(sent), e) = CallsOf(Append(sent, e))
<1>1. CASE up = OpenAiChat
  BY <1>1, ChatCollected DEF CollectCalls, Anthropic, OpenAiChat, OpenAiResponse
<1>2. CASE up = OpenAiResponse
  BY <1>2, ResponsesCollected DEF CollectCalls, Anthropic, OpenAiChat, OpenAiResponse
<1>3. QED
  BY <1>1, <1>2 DEF Endpoints

-----------------------------------------------------------------------------
(* The log holds the calls of the events that were handled.                *)

LogInv ==
    /\ up \in Endpoints /\ IsSeq(sent)
    /\ \E n : Numbered(sent, n)
    /\ whole \in Nat /\ whole <= Len(sent)
    /\ phase = "reading" => whole = Len(sent)
    /\ LoggedCallsComplete

LEMMA InitLog ==
    ASSUME Init
    PROVE  LogInv
<1> DEFINE nothing == <<>>
<1>1. /\ up \in Endpoints /\ sent = nothing /\ whole = 0 /\ calls = nothing /\ IsSeq(nothing)
  BY SeqOne, <<>> \in Seq({}) DEF Init, IsSeq
<1>2. DOMAIN nothing = {} /\ Len(nothing) = 0
  OBVIOUS
<1>3. MadeIn(nothing) = {} /\ 1 .. 0 = {}
  BY <1>2 DEF MadeIn, About
<1>4. Cardinality({i \in DOMAIN nothing : nothing[i].kind = "toolStart"}) = 0
  BY <1>2, FS_EmptySet
<1> HIDE DEF nothing
<1>5. Numbered(nothing, 0)
  BY <1>2, <1>3, <1>4 DEF Numbered, nothing
<1>6. CallsOf(nothing) = nothing
  <2>1. CallsOf(nothing) = [k \in 1 .. 0 |-> LoggedAs(nothing, k)]
    BY <1>1, <1>5, LoggedLength
  <2>2. QED
    BY <1>3, <2>1 DEF nothing
<1>7. SubSeq(sent, 1, whole) = nothing
  BY <1>1 DEF nothing
<1>8. LoggedCallsComplete
  BY <1>1, <1>6, <1>7 DEF LoggedCallsComplete
<1>9. QED
  BY <1>1, <1>2, <1>5, <1>8 DEF LogInv

LEMMA WholeOf ==
    ASSUME NEW s, IsSeq(s), NEW e, NEW w \in Nat, w <= Len(s)
    PROVE  /\ SubSeq(s, 1, Len(s)) = s
           /\ SubSeq(Append(s, e), 1, Len(s) + 1) = Append(s, e)
           /\ SubSeq(Append(s, e), 1, w) = SubSeq(s, 1, w)
           /\ Len(Append(s, e)) = Len(s) + 1 /\ Len(s) \in Nat
           /\ IsSeq(Append(s, e))
<1>1. PICK S : s \in Seq(S)
  BY DEF IsSeq
<1>2. s \in Seq(S \cup {e}) /\ e \in S \cup {e}
  BY <1>1
<1> DEFINE t == Append(s, e)
<1>3. t \in Seq(S \cup {e}) /\ Len(t) = Len(s) + 1 /\ Len(s) \in Nat
  BY <1>2
<1>4. SubSeq(s, 1, Len(s)) = s
  BY <1>1
<1>5. SubSeq(t, 1, w) = SubSeq(s, 1, w)
  BY <1>2, <1>3
<1> HIDE DEF t
<1>6. SubSeq(t, 1, Len(s) + 1) = t
  BY <1>3
<1>7. IsSeq(t)
  BY <1>3 DEF IsSeq
<1>8. QED
  BY <1>3, <1>4, <1>5, <1>6, <1>7 DEF t

LEMMA EventLogged ==
    ASSUME LogInv, NEW e \in UpstreamEvents, HandleEvent(e)
    PROVE  LogInv'
<1>1. /\ phase = "reading" /\ sent' = Append(sent, e) /\ whole' = Len(sent) + 1
      /\ up' = up /\ client' = client
      /\ Converts => ConvertEvent(e, TRUE)
      /\ ~Converts => PassEvent(e)
  BY DEF HandleEvent, endpoints
<1>2. PICK n : Numbered(sent, n)
  BY DEF LogInv
<1>3. /\ IsSeq(sent) /\ up \in Endpoints /\ whole = Len(sent) /\ whole \in Nat
  BY <1>1 DEF LogInv
<1>4. /\ SubSeq(sent, 1, whole) = sent /\ SubSeq(sent', 1, whole') = sent'
      /\ Len(sent') = whole' /\ whole' \in Nat /\ IsSeq(sent')
  BY <1>1, <1>3, WholeOf
<1>5. (\E m : Numbered(sent, m))'
  <2>1. PICK m : Numbered(Append(sent, e), m)
    BY <1>2, <1>3, NumberedGrows
  <2>2. Numbered(sent, m)'
    BY <1>1, <2>1 DEF Numbered
  <2>3. QED
    BY <2>2
<1>6. LoggedCallsComplete'
  <2>1. CASE Converts
    <3>1. ASSUME ToldApart(sent')
          PROVE  calls' = CallsOf(sent')
      <4>1. ToldApart(sent)
        BY <1>1, <1>3, <3>1, ToldApartSoFar
      <4>2. calls = CallsOf(sent)
        BY <1>4, <2>1, <4>1 DEF LogInv, LoggedCallsComplete
      <4>3. /\ CollectConverted(calls, Decode(up, e)) = CallsOf(sent')
            /\ Decode(up, e) = NoDelta => CallsOf(sent') = calls
        BY <1>1, <1>2, <1>3, <3>1, <4>2, ConvertedCollected
      <4>4. FirstError(e) => Decode(up, e) = NoDelta
        BY <1>3, Decodes DEF FirstError
      <4>5. QED
        BY <1>1, <2>1, <4>2, <4>3, <4>4 DEF ConvertEvent
    <3>2. (LET events == SubSeq(sent, 1, whole)
           IN  ToldApart(events) => calls = CallsOf(events))'
      BY <1>1, <1>4, <3>1 DEF ToldApart
    <3>3. QED
      BY <1>1, <2>1, <3>2 DEF LoggedCallsComplete, Converts
  <2>2. CASE ~Converts /\ up # Anthropic
    <3>1. calls = CallsOf(sent) /\ calls' = CollectCalls(up, calls, e)
      BY <1>1, <2>2 DEF LogInv, LoggedCallsComplete, PassEvent
    <3>2. CollectCalls(up, calls, e) = CallsOf(sent')
      BY <1>1, <1>2, <1>3, <2>2, <3>1, PassedCollected
    <3>3. QED
      BY <1>1, <2>2, <3>1, <3>2 DEF LoggedCallsComplete, Converts
  <2>3. QED
    BY <1>1, <2>1, <2>2 DEF LoggedCallsComplete, Converts
<1>7. QED
  BY <1>1, <1>3, <1>4, <1>5, <1>6 DEF LogInv

LEMMA ResidualLogged ==
    ASSUME LogInv, NEW e \in UpstreamEvents, StreamEndsWith(e)
    PROVE  LogInv'
<1>1. /\ phase = "reading" /\ phase' = "finishing" /\ sent' = Append(sent, e) /\ whole' = whole
      /\ up' = up /\ client' = client
      /\ Converts => calls' = calls
      /\ ~Converts => calls' = CollectCalls(up, calls, e)
  BY DEF StreamEndsWith, ConvertEvent, PassResidual, endpoints
<1>2. PICK n : Numbered(sent, n)
  BY DEF LogInv
<1>3. /\ IsSeq(sent) /\ up \in Endpoints /\ whole \in Nat /\ whole <= Len(sent)
  BY DEF LogInv
<1>4. /\ SubSeq(sent', 1, whole') = SubSeq(sent, 1, whole)
      /\ Len(sent') = Len(sent) + 1 /\ IsSeq(sent') /\ Len(sent) \in Nat
  BY <1>1, <1>3, WholeOf
<1>5. (\E m : Numbered(sent, m))'
  <2>1. PICK m : Numbered(Append(sent, e), m)
    BY <1>2, <1>3, NumberedGrows
  <2>2. Numbered(sent, m)'
    BY <1>1, <2>1 DEF Numbered
  <2>3. QED
    BY <2>2
<1>6. LoggedCallsComplete'
  <2>1. CASE Converts
    BY <1>1, <1>4, <2>1 DEF LogInv, LoggedCallsComplete, Converts, ToldApart
  <2>2. CASE ~Converts /\ up # Anthropic
    <3>1. calls = CallsOf(sent)
      BY <2>2 DEF LogInv, LoggedCallsComplete
    <3>2. CollectCalls(up, calls, e) = CallsOf(sent')
      BY <1>1, <1>2, <1>3, <2>2, <3>1, PassedCollected
    <3>3. QED
      BY <1>1, <2>2, <3>2 DEF LoggedCallsComplete, Converts
  <2>3. QED
    BY <1>1, <2>1, <2>2 DEF LoggedCallsComplete, Converts
<1>7. QED
  BY <1>1, <1>3, <1>4, <1>5, <1>6 DEF LogInv

LEMMA OthersLogged ==
    ASSUME LogInv, UNCHANGED <<up, client, sent, whole, calls>>,
           phase' = "reading" => phase = "reading"
    PROVE  LogInv'
<1>1. (\E n : Numbered(sent, n))'
  <2>1. PICK n : Numbered(sent, n)
    BY DEF LogInv
  <2>2. Numbered(sent, n)'
    BY <2>1 DEF Numbered
  <2>3. QED
    BY <2>2
<1>2. LoggedCallsComplete'
  BY DEF LogInv, LoggedCallsComplete, Converts, ToldApart
<1>3. QED
  BY <1>1, <1>2 DEF LogInv

\* The log has every tool call of the upstream once, with all its arguments and
\* no others: when chat completions or Responses are passed through, whatever the
\* order the pieces of parallel calls arrive in (collect_sse_content), and when
\* events are converted (run_conversion_loop), always for Anthropic, for chat
\* completions that send one call after the other, and for Responses that send
\* each call in one event.  Of what Anthropic sends and is passed through, no
\* call is logged, and the formula says nothing.
THEOREM LoggedCallsCompleteHolds == Spec => []LoggedCallsComplete
<1>1. Init => LogInv
  BY InitLog
<1>2. LogInv /\ [Next]_vars => LogInv'
  <2> SUFFICES ASSUME LogInv, [Next]_vars
               PROVE  LogInv'
    OBVIOUS
  <2>1. ASSUME NEW e \in UpstreamEvents, HandleEvent(e)
        PROVE  LogInv'
    BY <2>1, EventLogged
  <2>2. ASSUME NEW e \in UpstreamEvents, StreamEndsWith(e)
        PROVE  LogInv'
    BY <2>2, ResidualLogged
  <2>3. CASE Deliver \/ StreamEnds \/ Finish \/ UNCHANGED vars
    BY <2>3, OthersLogged DEF Deliver, StreamEnds, Finish, vars, endpoints
  <2>4. CASE ClientLeaves
    BY <2>4, OthersLogged DEF ClientLeaves, endpoints
  <2>5. QED
    BY <2>1, <2>2, <2>3, <2>4 DEF Next
<1>3. LogInv => LoggedCallsComplete
  BY DEF LogInv
<1>4. QED
  BY <1>1, <1>2, <1>3, PTL DEF Spec
=============================================================================
