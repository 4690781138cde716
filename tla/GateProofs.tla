------------------------------- MODULE GateProofs -------------------------------
(***************************************************************************)
(* Machine-checked proofs about Gate, for any keys, requests, limits and   *)
(* window: no stretch as long as a window lets more requests through than  *)
(* two windows, and tokens and cost pass their limits only by what was     *)
(* under way.                                                              *)
(*                                                                         *)
(* The first needs sums over the history, so induction: the least-element  *)
(* principle of the library takes a set, and a set can be instantiated     *)
(* where a predicate cannot.                                               *)
(***************************************************************************)
EXTENDS Gate, FiniteSetTheorems, WellFoundedInduction, TLAPS

-----------------------------------------------------------------------------

\* Induction up to a bound, over a set.
LEMMA UpTo ==
    ASSUME NEW N \in Nat, NEW S, 0 \in S,
           \A n \in 0 .. (N - 1) : n \in S => n + 1 \in S
    PROVE  \A n \in 0 .. N : n \in S
<1> DEFINE less == {p \in Nat \X Nat : p[1] < p[2]}
           T == {n \in 0 .. N : n \notin S}
<1> SUFFICES ASSUME T # {}
             PROVE  FALSE
  OBVIOUS
<1>1. IsWellFoundedOn(less, Nat)
  BY NatLessThanWellFounded DEF OpToRel
<1>2. T \subseteq Nat
  OBVIOUS
<1>3. \A x, y \in Nat : <<x, y>> \in less <=> x < y
  OBVIOUS
<1> HIDE DEF less
<1>4. PICK m \in T : \A n \in T : ~(<<n, m>> \in less)
  <2> HIDE DEF T
  <2>1. QED
    BY <1>1, <1>2, WFMin
<1>5. ASSUME NEW n \in T, n < m
      PROVE  FALSE
  <2>1. <<n, m>> \in less
    BY <1>3, <1>5
  <2>2. QED
    BY <1>4, <2>1, Zenon
<1>6. m # 0 /\ m \in 0 .. N /\ m \notin S
  OBVIOUS
<1>7. m - 1 \in 0 .. (N - 1) /\ m - 1 \in 0 .. N /\ m - 1 < m /\ (m - 1) + 1 = m
  BY <1>6
<1>8. m - 1 \in S
  BY <1>5, <1>7
<1>9. QED
  BY <1>6, <1>7, <1>8

Noting  == [requests : Nat, tokens : Nat]
History == [0..(Window - 1) -> Noting]

\* Sums is what its recursion says: the function that the recursion asks for
\* exists, up to any length.
LEMMA SumsRecursion ==
    ASSUME GateAssumption, NEW h \in History
    PROVE  /\ Sums(h, "requests")[0] = 0
           /\ \A i \in 1..Window : Sums(h, "requests")[i]
                                     = Sums(h, "requests")[i - 1] + h[i - 1].requests
<1> DEFINE step(f, n) == [i \in 0..n |-> IF i = 0 THEN 0
                                         ELSE f[i - 1] + h[i - 1]["requests"]]
           S == {n \in 0..Window : \E f : f = step(f, n)}
<1>0. Window \in Nat
  BY DEF GateAssumption
<1>1. 0 \in S
  <2> DEFINE f == [i \in 0..0 |-> 0]
  <2>1. f = step(f, 0)
    OBVIOUS
  <2> HIDE DEF f
  <2>2. QED
    BY <1>0, <2>1
<1>2. ASSUME NEW n \in 0..(Window - 1), n \in S
      PROVE  n + 1 \in S
  <2>1. PICK f : f = step(f, n)
    BY <1>2
  <2> DEFINE g == [i \in 0..(n + 1) |-> IF i = n + 1 THEN f[n] + h[n]["requests"] ELSE f[i]]
  <2>2. ASSUME NEW i \in 0..(n + 1)
        PROVE  g[i] = step(g, n + 1)[i]
    <3>1. CASE i = n + 1
      <4>1. i # 0 /\ i - 1 = n /\ n \in 0..(n + 1) /\ n # n + 1
        BY <3>1
      <4>2. g[n] = f[n]
        BY <4>1
      <4>3. QED
        BY <3>1, <4>1, <4>2
    <3>2. CASE i # n + 1
      <4>1. i \in 0..n /\ g[i] = f[i]
        BY <3>2
      <4>2. f[i] = IF i = 0 THEN 0 ELSE f[i - 1] + h[i - 1]["requests"]
        BY <2>1, <4>1
      <4>3. i # 0 => i - 1 \in 0..(n + 1) /\ i - 1 # n + 1
        BY <4>1
      <4>4. i # 0 => g[i - 1] = f[i - 1]
        BY <4>3
      <4>5. QED
        BY <4>1, <4>2, <4>4
    <3>3. QED
      BY <3>1, <3>2
  <2>3. g = step(g, n + 1)
    <3> HIDE DEF g
    <3>1. g = [i \in 0..(n + 1) |-> g[i]]
      BY DEF g
    <3>2. QED
      BY <2>2, <3>1
  <2>4. n + 1 \in 0..Window
    BY <1>0
  <2> HIDE DEF g
  <2>5. QED
    BY <2>3, <2>4
<1> HIDE DEF S
<1>3. Window \in S
  BY <1>0, <1>1, <1>2, UpTo
<1>4. \E f : f = step(f, Window)
  BY <1>3 DEF S
<1>5. Sums(h, "requests") = CHOOSE f : f = step(f, Window)
  BY DEF Sums
<1>6. Sums(h, "requests") = step(Sums(h, "requests"), Window)
  BY <1>4, <1>5
<1>7. ASSUME NEW i \in 0..Window
      PROVE  Sums(h, "requests")[i] = IF i = 0 THEN 0
               ELSE Sums(h, "requests")[i - 1] + h[i - 1].requests
  BY <1>6, Zenon
<1>8. QED
  BY <1>0, <1>7

LEMMA SumsTypes ==
    ASSUME GateAssumption, NEW h \in History
    PROVE  \A i \in 0..Window : Sums(h, "requests")[i] \in Nat
<1> DEFINE sum == Sums(h, "requests")
           S == {i \in 0..Window : sum[i] \in Nat}
<1>0. Window \in Nat
  BY DEF GateAssumption
<1>1. 0 \in S
  BY <1>0, SumsRecursion
<1>2. ASSUME NEW i \in 0..(Window - 1), i \in S
      PROVE  i + 1 \in S
  <2>1. i + 1 \in 1..Window /\ (i + 1) - 1 = i /\ h[i].requests \in Nat
    BY <1>0 DEF History, Noting
  <2>2. sum[i + 1] = sum[i] + h[i].requests
    BY <2>1, SumsRecursion
  <2> HIDE DEF sum
  <2>3. QED
    BY <1>2, <2>1, <2>2
<1> HIDE DEF S
<1>3. \A i \in 0..Window : i \in S
  BY <1>0, <1>1, <1>2, UpTo
<1>4. QED
  BY <1>3 DEF S

\* The last tick of a window adds nothing negative.
LEMMA SumsGrow ==
    ASSUME GateAssumption, NEW h \in History
    PROVE  Sums(h, "requests")[Window - 1] <= Sums(h, "requests")[Window]
<1>1. Window \in 1..Window /\ Window - 1 \in 0..(Window - 1) /\ Window - 1 \in 0..Window
  BY DEF GateAssumption
<1>2. h[Window - 1].requests \in Nat
  BY <1>1 DEF History, Noting
<1>3. Sums(h, "requests")[Window] = Sums(h, "requests")[Window - 1] + h[Window - 1].requests
  BY <1>1, SumsRecursion
<1>4. Sums(h, "requests")[Window - 1] \in Nat
  BY <1>1, SumsTypes
<1>5. QED
  BY <1>2, <1>3, <1>4

\* A tick moves the sums on by one.
LEMMA SumsShift ==
    ASSUME GateAssumption, NEW h \in History, NEW g \in History,
           g[0].requests = 0,
           \A i \in 1..(Window - 1) : g[i] = h[i - 1]
    PROVE  \A j \in 1..Window : Sums(g, "requests")[j] = Sums(h, "requests")[j - 1]
<1> DEFINE a == Sums(g, "requests")
           b == Sums(h, "requests")
           S == {i \in 0..(Window - 1) : a[i + 1] = b[i]}
<1>0. Window \in Nat \ {0}
  BY DEF GateAssumption
<1>1. 0 \in S
  <2>1. 1 \in 1..Window /\ 1 - 1 = 0 /\ 0 + 1 = 1 /\ 0 \in 0..(Window - 1)
    BY <1>0
  <2>2. a[1] = a[0] + g[0].requests
    BY <2>1, SumsRecursion
  <2>3. a[0] = 0 /\ b[0] = 0
    BY SumsRecursion
  <2> HIDE DEF a, b
  <2>4. QED
    BY <2>1, <2>2, <2>3
<1>2. ASSUME NEW i \in 0..((Window - 1) - 1), i \in S
      PROVE  i + 1 \in S
  <2>1. /\ i + 1 \in 1..(Window - 1) /\ i + 1 \in 0..(Window - 1) /\ i + 1 \in 1..Window
        /\ (i + 1) - 1 = i
        /\ (i + 1) + 1 \in 1..Window /\ ((i + 1) + 1) - 1 = i + 1
    BY <1>0
  <2>2. a[(i + 1) + 1] = a[i + 1] + g[i + 1].requests
    BY <2>1, SumsRecursion
  <2>3. b[i + 1] = b[i] + h[i].requests
    BY <2>1, SumsRecursion
  <2>4. g[i + 1] = h[i]
    BY <2>1
  <2> HIDE DEF a, b
  <2>5. QED
    BY <1>2, <2>1, <2>2, <2>3, <2>4
<1> HIDE DEF S
<1>3. \A i \in 0..(Window - 1) : i \in S
  <2>1. Window - 1 \in Nat
    BY <1>0
  <2>2. QED
    BY <1>1, <1>2, <2>1, UpTo
<1>4. \A j \in 1..Window : j - 1 \in S /\ (j - 1) + 1 = j
  BY <1>0, <1>3
<1>5. QED
  BY <1>4 DEF S

\* What is noted in the current tick is in every sum but the empty one.
LEMMA SumsNote ==
    ASSUME GateAssumption, NEW h \in History, NEW g \in History,
           \A i \in 1..(Window - 1) : g[i].requests = h[i].requests
    PROVE  \A j \in 1..Window :
              Sums(g, "requests")[j]
                = Sums(h, "requests")[j] + (g[0].requests - h[0].requests)
<1> DEFINE a == Sums(g, "requests")
           b == Sums(h, "requests")
           d == g[0].requests - h[0].requests
           S == {i \in 0..(Window - 1) : a[i + 1] = b[i + 1] + d}
<1>0. Window \in Nat \ {0}
  BY DEF GateAssumption
<1>00. g[0].requests \in Nat /\ h[0].requests \in Nat
  BY <1>0 DEF History, Noting
<1>1. 0 \in S
  <2>1. 1 \in 1..Window /\ 1 - 1 = 0 /\ 0 + 1 = 1 /\ 0 \in 0..(Window - 1)
    BY <1>0
  <2>2. a[1] = a[0] + g[0].requests /\ b[1] = b[0] + h[0].requests
    BY <2>1, SumsRecursion
  <2>3. a[0] = 0 /\ b[0] = 0
    BY SumsRecursion
  <2> HIDE DEF a, b
  <2>4. QED
    BY <1>00, <2>1, <2>2, <2>3
<1>2. ASSUME NEW i \in 0..((Window - 1) - 1), i \in S
      PROVE  i + 1 \in S
  <2>1. /\ i + 1 \in 1..(Window - 1) /\ i + 1 \in 0..(Window - 1) /\ i + 1 \in 0..Window
        /\ (i + 1) + 1 \in 1..Window /\ ((i + 1) + 1) - 1 = i + 1
    BY <1>0
  <2>2. /\ a[(i + 1) + 1] = a[i + 1] + g[i + 1].requests
        /\ b[(i + 1) + 1] = b[i + 1] + h[i + 1].requests
    BY <2>1, SumsRecursion
  <2>3. g[i + 1].requests = h[i + 1].requests /\ g[i + 1].requests \in Nat
    BY <2>1 DEF History, Noting
  <2>4. b[i + 1] \in Nat /\ d \in Int
    BY <1>00, <2>1, SumsTypes
  <2> HIDE DEF a, b, d
  <2>5. QED
    BY <1>2, <2>1, <2>2, <2>3, <2>4
<1> HIDE DEF S
<1>3. \A i \in 0..(Window - 1) : i \in S
  <2>1. Window - 1 \in Nat
    BY <1>0
  <2>2. QED
    BY <1>1, <1>2, <2>1, UpTo
<1>4. \A j \in 1..Window : j - 1 \in S /\ (j - 1) + 1 = j
  BY <1>0, <1>3
<1>5. QED
  BY <1>4 DEF S

-----------------------------------------------------------------------------

\* What the operations do to the type of a window.
LEMMA WindowTypes ==
    ASSUME GateAssumption, NEW win \in WindowState
    PROVE  /\ win.known \in BOOLEAN /\ win.age \in 0..(2 * Window)
           /\ win.requests \in Nat /\ win.tokens \in Nat
           /\ NoWindow \in WindowState /\ FreshWindow \in WindowState
           /\ \A limit \in Nat : RpmChecked(win, limit) \in WindowState
           /\ \A n \in Nat : TokensRecorded(win, n) \in WindowState
           /\ WindowAged(win) \in WindowState
<1>0. Window \in Nat \ {0} /\ Cap \in Nat
  BY DEF GateAssumption
<1>1. /\ win.known \in BOOLEAN /\ win.age \in 0..(2 * Window)
      /\ win.requests \in Nat /\ win.tokens \in Nat
  BY DEF WindowState
<1>2. NoWindow \in WindowState /\ FreshWindow \in WindowState
  BY <1>0 DEF NoWindow, FreshWindow, WindowState
<1>3. Entered(win) \in WindowState
  BY <1>2 DEF Entered
<1>4. ASSUME NEW limit \in Nat
      PROVE  RpmChecked(win, limit) \in WindowState
  BY <1>3 DEF RpmChecked, WindowState
<1>5. ASSUME NEW n \in Nat
      PROVE  TokensRecorded(win, n) \in WindowState
  <2>1. \A m \in Nat : Capped(m) \in Nat
    BY <1>0 DEF Capped
  <2>2. QED
    BY <1>2, <2>1 DEF TokensRecorded, WindowState
<1>6. WindowAged(win) \in WindowState
  BY <1>0 DEF WindowAged, WindowState
<1>7. QED
  BY <1>1, <1>2, <1>4, <1>5, <1>6

LEMMA LimitTypes ==
    ASSUME GateAssumption, NEW l \in Limits
    PROVE  /\ l.rpm \in Nat /\ l.tpm \in Nat
           /\ \A p \in Period : l.budget[p] \in Nat
BY DEF GateAssumption

LEMMA TypeStep ==
    ASSUME GateAssumption, TypeOK, [Next]_vars
    PROVE  TypeOK'
<1>0. /\ Window \in Nat \ {0} /\ Cap \in Nat /\ MaxTokens \in Nat /\ MaxCost \in Nat
      /\ \A w \in Workers : KeyOf[w] \in ApiKeys
      /\ \A n \in Nat : Capped(n) \in Nat
  BY DEF GateAssumption, Capped
<1>00. 0 \in 0..MaxTokens /\ 0 \in 0..(Window - 1)
  BY <1>0
<1>1. \A k \in ApiKeys : /\ limits[k].rpm \in Nat /\ limits[k].tpm \in Nat
                         /\ \A p \in Period : limits[k].budget[p] \in Nat
  BY LimitTypes DEF TypeOK
<1>2. ASSUME NEW k \in ApiKeys, NEW limit, NEW n \in Nat,
             Noted(k, "requests", limit, n) \/ Noted(k, "tokens", limit, n)
      PROVE  recent' \in [ApiKeys -> [0..(Window - 1) -> [requests : Nat, tokens : Nat]]]
  <2>1. /\ recent \in [ApiKeys -> [0..(Window - 1) -> [requests : Nat, tokens : Nat]]]
        /\ recent[k] \in [0..(Window - 1) -> [requests : Nat, tokens : Nat]]
    BY DEF TypeOK
  <2>2. /\ recent[k][0].requests \in Nat /\ recent[k][0].tokens \in Nat
        /\ recent[k][0] \in [requests : Nat, tokens : Nat]
    BY <1>00, <2>1
  <2>3. /\ Capped(recent[k][0].requests + n) \in Nat
        /\ Capped(recent[k][0].tokens + n) \in Nat
    BY <1>0, <2>2
  <2>4. \/ recent' = recent
        \/ \E c \in Nat : \/ recent' = [recent EXCEPT ![k][0]["requests"] = c]
                         \/ recent' = [recent EXCEPT ![k][0]["tokens"] = c]
    BY <1>2, <2>3 DEF Noted
  <2>5. ASSUME NEW c \in Nat
        PROVE  /\ [recent[k][0] EXCEPT !["requests"] = c] \in [requests : Nat, tokens : Nat]
               /\ [recent[k][0] EXCEPT !["tokens"] = c] \in [requests : Nat, tokens : Nat]
    BY <2>2
  <2>6. ASSUME NEW c \in [requests : Nat, tokens : Nat]
        PROVE  [recent EXCEPT ![k][0] = c]
                  \in [ApiKeys -> [0..(Window - 1) -> [requests : Nat, tokens : Nat]]]
    BY <2>1
  <2>7. ASSUME NEW c \in Nat,
               \/ recent' = [recent EXCEPT ![k][0]["requests"] = c]
               \/ recent' = [recent EXCEPT ![k][0]["tokens"] = c]
        PROVE  \E x \in [requests : Nat, tokens : Nat] : recent' = [recent EXCEPT ![k][0] = x]
    <3>1. CASE recent' = [recent EXCEPT ![k][0]["requests"] = c]
      <4>1. recent' = [recent EXCEPT ![k][0] = [recent[k][0] EXCEPT !["requests"] = c]]
        BY <3>1
      <4>2. QED
        BY <2>5, <4>1
    <3>2. CASE recent' = [recent EXCEPT ![k][0]["tokens"] = c]
      <4>1. recent' = [recent EXCEPT ![k][0] = [recent[k][0] EXCEPT !["tokens"] = c]]
        BY <3>2
      <4>2. QED
        BY <2>5, <4>1
    <3>3. QED
      BY <2>7, <3>1, <3>2
  <2>8. QED
    BY <2>1, <2>4, <2>6, <2>7
<1>3. ASSUME NEW w \in Workers, CheckRpm(w)
      PROVE  TypeOK'
  <2>1. windows' \in [ApiKeys -> WindowState]
    BY <1>0, <1>1, <1>3, WindowTypes DEF CheckRpm, TypeOK
  <2>2. recent' \in [ApiKeys -> [0..(Window - 1) -> [requests : Nat, tokens : Nat]]]
    BY <1>0, <1>2, <1>3 DEF CheckRpm, TypeOK
  <2>3. QED
    BY <1>3, <2>1, <2>2 DEF CheckRpm, TypeOK
<1>4. ASSUME NEW w \in Workers,
             \/ CheckTpm(w) \/ PassBudget(w) \/ Refuse(w) \/ Disconnect(w)
      PROVE  TypeOK'
  <2>1. at' \in [Workers -> {"rpm", "tpm", "budget", "relay", "count"}]
    BY <1>4 DEF CheckTpm, PassBudget, Refuse, Disconnect, TypeOK
  <2>2. tokens' \in [Workers -> 0..MaxTokens]
    BY <1>00, <1>4 DEF CheckTpm, PassBudget, Refuse, Disconnect, TypeOK
  <2>3. UNCHANGED <<limits, windows, spent, recent>>
    BY <1>4 DEF CheckTpm, PassBudget, Refuse, Disconnect
  <2>4. QED
    BY <2>1, <2>2, <2>3 DEF TypeOK
<1>5. ASSUME NEW w \in Workers, NEW n \in 0..MaxTokens, NEW cost \in 0..MaxCost,
             NEW outcome \in {"saved", "partly", "lost"},
             SaveRecord(w, n, cost, outcome)
      PROVE  TypeOK'
  <2>1. spent' \in [ApiKeys -> [Period -> Nat]]
    <3>1. KeyOf[w] \in ApiKeys /\ spent[KeyOf[w]] \in [Period -> Nat] /\ cost \in Nat
      BY <1>0 DEF TypeOK
    <3>2. [p \in Period |-> IF limits[KeyOf[w]].budget[p] = 0 THEN 0
                            ELSE spent[KeyOf[w]][p] + cost] \in [Period -> Nat]
      BY <3>1
    <3>3. \/ spent' = spent
          \/ spent' = [spent EXCEPT ![KeyOf[w]] =
                          [p \in Period |-> IF limits[KeyOf[w]].budget[p] = 0 THEN 0
                                            ELSE spent[KeyOf[w]][p] + cost]]
      BY <1>5 DEF SaveRecord
    <3>4. QED
      BY <3>2, <3>3 DEF TypeOK
  <2>2. tokens' \in [Workers -> 0..MaxTokens]
    BY <1>0, <1>5 DEF SaveRecord, TypeOK
  <2>3. QED
    BY <1>5, <2>1, <2>2 DEF SaveRecord, TypeOK
<1>6. ASSUME NEW w \in Workers, RecordTokens(w)
      PROVE  TypeOK'
  <2>1. tokens[w] \in Nat
    BY <1>0 DEF TypeOK
  <2>2. windows' \in [ApiKeys -> WindowState]
    BY <1>0, <1>6, <2>1, WindowTypes DEF RecordTokens, TypeOK
  <2>3. recent' \in [ApiKeys -> [0..(Window - 1) -> [requests : Nat, tokens : Nat]]]
    BY <1>0, <1>2, <1>6, <2>1 DEF RecordTokens
  <2>4. /\ tokens' \in [Workers -> 0..MaxTokens]
        /\ at' \in [Workers -> {"rpm", "tpm", "budget", "relay", "count"}]
    BY <1>00, <1>6 DEF RecordTokens, TypeOK
  <2>5. QED
    BY <1>6, <2>2, <2>3, <2>4 DEF RecordTokens, TypeOK
<1>7. CASE Cleanup
  BY <1>7, WindowTypes DEF Cleanup, TypeOK
<1>8. CASE Tick
  <2>1. windows' \in [ApiKeys -> WindowState]
    BY <1>8, WindowTypes DEF Tick, TypeOK
  <2>2. recent' \in [ApiKeys -> [0..(Window - 1) -> [requests : Nat, tokens : Nat]]]
    BY <1>0, <1>8 DEF Tick, TypeOK
  <2>3. QED
    BY <1>8, <2>1, <2>2 DEF Tick, TypeOK
<1>9. ASSUME NEW month \in BOOLEAN, NewDay(month)
      PROVE  TypeOK'
  BY <1>9 DEF NewDay, TypeOK
<1>10. CASE UNCHANGED vars
  BY <1>10 DEF vars, TypeOK
<1>11. QED
  BY <1>3, <1>4, <1>5, <1>6, <1>7, <1>8, <1>9, <1>10 DEF Next, Step

-----------------------------------------------------------------------------

\* What a window and a history of one key have to do with each other: a window
\* that lives counts what was let through since it began, and before it no
\* more than one other window's worth is in the history; without one, nothing
\* has been let through in this tick.
RateOK(win, h, limit) ==
    LET sum == Sums(h, "requests")
    IN  IF Runs(win)
        THEN /\ sum[win.age + 1] <= win.requests /\ win.requests <= limit
             /\ sum[Window] - sum[win.age + 1] <= limit
        ELSE h[0].requests = 0 /\ sum[Window] <= limit

\* A request let through, or refused.
LEMMA RateLetThrough ==
    ASSUME GateAssumption, NEW win \in WindowState, NEW h \in History, NEW g \in History,
           NEW limit \in Nat \ {0}, RateOK(win, h, limit),
           Entered(win).requests < limit,
           g[0].requests <= h[0].requests + 1,
           \A i \in 1..(Window - 1) : g[i].requests = h[i].requests
    PROVE  RateOK(RpmChecked(win, limit), g, limit)
<1> DEFINE a == Sums(h, "requests")
           b == Sums(g, "requests")
           d == g[0].requests - h[0].requests
<1>0. Window \in Nat \ {0} /\ 0 \in 0..(Window - 1) /\ 1 \in 1..Window /\ Window \in 1..Window
  BY DEF GateAssumption
<1>1. g[0].requests \in Nat /\ h[0].requests \in Nat /\ d \in Int /\ d <= 1
  BY <1>0 DEF History, Noting
<1>2. /\ \A j \in 1..Window : b[j] = a[j] + d
      /\ \A j \in 0..Window : a[j] \in Nat /\ b[j] \in Nat
  BY SumsNote, SumsTypes
<1>3. /\ win.known \in BOOLEAN /\ win.age \in 0..(2 * Window) /\ win.requests \in Nat
      /\ RpmChecked(win, limit) = [Entered(win) EXCEPT !.requests = @ + 1]
  BY WindowTypes DEF RpmChecked
<1>4. a[1] = h[0].requests
  <2>1. a[0] = 0 /\ a[1] = a[0] + h[0].requests
    <3>1. 1 - 1 = 0
      OBVIOUS
    <3>2. QED
      BY <1>0, <3>1, SumsRecursion
  <2> HIDE DEF a
  <2>2. QED
    BY <1>1, <2>1
<1>5. CASE Runs(win)
  <2>1. /\ RpmChecked(win, limit).known = TRUE
        /\ RpmChecked(win, limit).age = win.age
        /\ RpmChecked(win, limit).requests = win.requests + 1
        /\ win.requests < limit /\ win.age < Window
    BY <1>3, <1>5 DEF Entered, Runs, WindowState
  <2>2. Runs(RpmChecked(win, limit)) /\ win.age + 1 \in 1..Window /\ win.age + 1 \in 0..Window
    BY <1>0, <1>3, <2>1 DEF Runs
  <2>3. a[win.age + 1] <= win.requests /\ a[Window] - a[win.age + 1] <= limit
    BY <1>5 DEF RateOK
  <2>4. /\ b[win.age + 1] = a[win.age + 1] + d /\ b[Window] = a[Window] + d
        /\ a[win.age + 1] \in Nat /\ a[Window] \in Nat
    BY <1>0, <1>2, <2>2
  <2> HIDE DEF a, b, d
  <2>5. /\ b[win.age + 1] <= win.requests + 1 /\ win.requests + 1 <= limit
        /\ b[Window] - b[win.age + 1] <= limit
    BY <1>1, <1>3, <2>1, <2>3, <2>4
  <2>6. QED
    BY <2>1, <2>2, <2>5 DEF RateOK, b
<1>6. CASE ~Runs(win)
  <2>1. /\ RpmChecked(win, limit).known = TRUE
        /\ RpmChecked(win, limit).age = 0
        /\ RpmChecked(win, limit).requests = 1
    BY <1>3, <1>6 DEF Entered, FreshWindow
  <2>2. Runs(RpmChecked(win, limit))
    BY <1>0, <2>1 DEF Runs
  <2>3. h[0].requests = 0 /\ a[Window] <= limit
    BY <1>6 DEF RateOK
  <2>4. b[1] = a[1] + d /\ b[Window] = a[Window] + d /\ a[Window] \in Nat
    BY <1>0, <1>2
  <2> HIDE DEF a, b, d
  <2>5. b[1] <= 1 /\ 1 <= limit /\ b[Window] - b[1] <= limit
    BY <1>1, <1>4, <2>3, <2>4
  <2>6. 0 + 1 = 1
    OBVIOUS
  <2>7. QED
    BY <2>1, <2>2, <2>5, <2>6 DEF RateOK, b
<1>7. QED
  BY <1>5, <1>6

\* A refusal finds the limit reached, so the window lives and stays as it is.
LEMMA RateRefused ==
    ASSUME NEW win, NEW limit \in Nat \ {0}, ~(Entered(win).requests < limit)
    PROVE  RpmChecked(win, limit) = win
<1>1. CASE Runs(win)
  BY <1>1 DEF RpmChecked, Entered
<1>2. CASE ~Runs(win)
  BY <1>2 DEF Entered, FreshWindow
<1>3. QED
  BY <1>1, <1>2

\* Tokens recorded: a window may begin, in a tick that let nothing through.
LEMMA RateTokens ==
    ASSUME GateAssumption, NEW win \in WindowState, NEW h \in History, NEW g \in History,
           NEW limit \in Nat \ {0}, NEW n \in Nat, RateOK(win, h, limit),
           \A i \in 0..(Window - 1) : g[i].requests = h[i].requests
    PROVE  RateOK(TokensRecorded(win, n), g, limit)
<1> DEFINE a == Sums(h, "requests")
           b == Sums(g, "requests")
<1>0. /\ Window \in Nat \ {0} /\ 0 \in 0..(Window - 1) /\ 1 \in 1..Window /\ Window \in 1..Window
      /\ 1 - 1 = 0 /\ 0 + 1 = 1
  BY DEF GateAssumption
<1>1. \A j \in 1..Window : b[j] = a[j] /\ a[j] \in Nat
  <2>1. g[0].requests = h[0].requests /\ h[0].requests \in Nat
    BY <1>0 DEF History, Noting
  <2>2. \A i \in 1..(Window - 1) : g[i].requests = h[i].requests
    OBVIOUS
  <2>3. \A j \in 1..Window : b[j] = a[j] + (g[0].requests - h[0].requests)
    BY <2>2, SumsNote
  <2>4. \A j \in 1..Window : a[j] \in Nat
    BY SumsTypes
  <2> HIDE DEF a, b
  <2>5. QED
    BY <2>1, <2>3, <2>4
<1>2. a[1] = h[0].requests
  <2>1. a[0] = 0 /\ a[1] = a[0] + h[0].requests /\ h[0].requests \in Nat
    BY <1>0, SumsRecursion DEF History, Noting
  <2> HIDE DEF a
  <2>2. QED
    BY <2>1
<1>3. CASE win.known
  <2>1. /\ Runs(TokensRecorded(win, n)) <=> Runs(win)
        /\ TokensRecorded(win, n).age = win.age
        /\ TokensRecorded(win, n).requests = win.requests
    BY <1>3 DEF TokensRecorded, Runs, WindowState
  <2>2. Runs(win) => win.age + 1 \in 1..Window
    BY <1>0 DEF Runs, WindowState
  <2>3. QED
    BY <1>0, <1>1, <2>1, <2>2 DEF RateOK
<1>4. CASE ~win.known
  <2>1. ~Runs(win)
    BY <1>4 DEF Runs
  <2>2. Runs(FreshWindow)
    BY <1>0 DEF Runs, FreshWindow
  <2>3. /\ Runs(TokensRecorded(win, n))
        /\ TokensRecorded(win, n).age = 0
        /\ TokensRecorded(win, n).requests = 0
    BY <1>4, <2>2 DEF TokensRecorded, Runs, FreshWindow
  <2>4. h[0].requests = 0 /\ a[Window] <= limit
    BY <2>1 DEF RateOK
  <2>5. b[1] = 0 /\ b[Window] = a[Window] /\ b[Window] \in Nat
    BY <1>0, <1>1, <1>2, <2>4
  <2> HIDE DEF a, b
  <2>6. b[1] <= 0 /\ 0 <= limit /\ b[Window] - b[1] <= limit
    BY <2>4, <2>5
  <2>7. QED
    BY <1>0, <2>3, <2>6 DEF RateOK, b
<1>5. QED
  BY <1>3, <1>4

\* Time passes for the window and the history.
LEMMA RateTick ==
    ASSUME GateAssumption, NEW win \in WindowState, NEW h \in History, NEW g \in History,
           NEW limit \in Nat \ {0}, RateOK(win, h, limit),
           g[0].requests = 0,
           \A i \in 1..(Window - 1) : g[i] = h[i - 1]
    PROVE  RateOK(WindowAged(win), g, limit)
<1> DEFINE a == Sums(h, "requests")
           b == Sums(g, "requests")
<1>0. Window \in Nat \ {0} /\ Window \in 1..Window /\ Window \in 0..Window /\ Window - 1 \in 0..Window
  BY DEF GateAssumption
<1>1. /\ \A j \in 1..Window : b[j] = a[j - 1]
      /\ \A j \in 0..Window : a[j] \in Nat
      /\ a[Window - 1] <= a[Window]
  BY SumsShift, SumsTypes, SumsGrow
<1>2. win.known \in BOOLEAN /\ win.age \in Nat /\ win.requests \in Nat
  BY <1>0 DEF WindowState
<1>3. CASE Runs(win)
  <2>1. /\ win.age < Window /\ win.known
        /\ a[win.age + 1] <= win.requests /\ win.requests <= limit
        /\ a[Window] - a[win.age + 1] <= limit
    BY <1>3 DEF RateOK, Runs
  <2>2. WindowAged(win) = [win EXCEPT !.age = @ + 1]
    BY <1>0, <1>2, <2>1 DEF WindowAged
  <2>3. /\ WindowAged(win).known = win.known /\ WindowAged(win).age = win.age + 1
        /\ WindowAged(win).requests = win.requests
    BY <2>2 DEF WindowState
  <2>4. b[Window] = a[Window - 1] /\ a[Window] \in Nat /\ a[Window - 1] \in Nat
    BY <1>0, <1>1
  <2>5. CASE win.age + 1 < Window
    <3>1. Runs(WindowAged(win))
      BY <2>1, <2>3, <2>5 DEF Runs
    <3>2. /\ (win.age + 1) + 1 \in 1..Window /\ ((win.age + 1) + 1) - 1 = win.age + 1
          /\ win.age + 1 \in 0..Window
      BY <1>0, <1>2, <2>5
    <3>3. b[(win.age + 1) + 1] = a[win.age + 1] /\ a[win.age + 1] \in Nat
      BY <1>1, <3>2
    <3> HIDE DEF a, b
    <3>4. /\ b[(win.age + 1) + 1] <= win.requests
          /\ b[Window] - b[(win.age + 1) + 1] <= limit
      BY <1>1, <2>1, <2>4, <3>3
    <3>5. QED
      BY <2>1, <2>3, <3>1, <3>4 DEF RateOK, b
  <2>6. CASE ~(win.age + 1 < Window)
    <3>1. ~Runs(WindowAged(win))
      BY <2>3, <2>6 DEF Runs
    <3>2. win.age + 1 = Window
      BY <1>0, <1>2, <2>1, <2>6
    <3> HIDE DEF a, b
    <3>3. b[Window] <= limit
      BY <1>1, <1>2, <2>1, <2>4, <3>2
    <3>4. QED
      BY <3>1, <3>3 DEF RateOK, b
  <2>7. QED
    BY <2>5, <2>6
<1>4. CASE ~Runs(win)
  <2>1. a[Window] <= limit
    BY <1>4 DEF RateOK
  <2>2. ~Runs(WindowAged(win))
    BY <1>0, <1>2, <1>4 DEF Runs, WindowAged, WindowState
  <2>3. b[Window] = a[Window - 1] /\ a[Window] \in Nat /\ a[Window - 1] \in Nat
    BY <1>0, <1>1
  <2> HIDE DEF a, b
  <2>4. b[Window] <= limit
    BY <1>1, <2>1, <2>3
  <2>5. QED
    BY <2>2, <2>4 DEF RateOK, b
<1>5. QED
  BY <1>3, <1>4

\* A clean-up drops windows that are long over.
LEMMA RateCleanup ==
    ASSUME GateAssumption, NEW win \in WindowState, NEW h, NEW limit,
           RateOK(win, h, limit), ~(win.age < 2 * Window)
    PROVE  RateOK(NoWindow, h, limit)
<1>1. ~Runs(NoWindow)
  BY DEF Runs, NoWindow
<1>2. ~Runs(win)
  BY DEF Runs, GateAssumption, WindowState
<1>3. QED
  BY <1>1, <1>2 DEF RateOK

RatesOK == \A k \in ApiKeys : limits[k].rpm > 0 => RateOK(windows[k], recent[k], limits[k].rpm)

\* Every step keeps the windows and the histories of all keys together.
LEMMA RatesStep ==
    ASSUME GateAssumption, TypeOK, TypeOK', RatesOK, [Next]_vars
    PROVE  RatesOK'
<1>0. /\ Window \in Nat \ {0} /\ 0 \in 0..(Window - 1)
      /\ \A n \in Nat : Capped(n) <= n
  BY DEF GateAssumption, Capped
<1>1. \A k \in ApiKeys :
         /\ windows[k] \in WindowState /\ recent[k] \in History /\ recent'[k] \in History
         /\ limits[k].rpm \in Nat
  BY LimitTypes DEF TypeOK, History, Noting
<1> SUFFICES ASSUME NEW k \in ApiKeys, limits'[k].rpm > 0
             PROVE  RateOK(windows'[k], recent'[k], limits'[k].rpm)
  BY DEF RatesOK
<1>2. limits' = limits
  BY DEF Next, Step, CheckRpm, CheckTpm, PassBudget, Refuse, SaveRecord, RecordTokens,
         Disconnect, Cleanup, Tick, NewDay, vars
<1>3. limits[k].rpm \in Nat \ {0} /\ RateOK(windows[k], recent[k], limits[k].rpm)
  BY <1>1, <1>2 DEF RatesOK
<1>4. CASE UNCHANGED <<windows, recent>>
  BY <1>2, <1>3, <1>4
<1>5. ASSUME NEW w \in Workers, CheckRpm(w)
      PROVE  RateOK(windows'[k], recent'[k], limits[k].rpm)
  <2>1. CASE KeyOf[w] # k
    <3>1. windows'[k] = windows[k] /\ recent'[k] = recent[k]
      BY <1>5, <2>1 DEF CheckRpm, Noted, TypeOK
    <3>2. QED
      BY <1>3, <3>1
  <2>2. CASE KeyOf[w] = k
    <3>1. windows'[k] = RpmChecked(windows[k], limits[k].rpm)
      BY <1>5, <2>2 DEF CheckRpm, TypeOK
    <3>2. CASE Entered(windows[k]).requests < limits[k].rpm
      <4>1. recent' = [recent EXCEPT ![k][0]["requests"] = Capped(@ + 1)]
        BY <1>3, <1>5, <2>2, <3>2 DEF CheckRpm, RpmOpen, Noted
      <4>2. recent'[k] = [recent[k] EXCEPT ![0]["requests"] = Capped(@ + 1)]
        BY <4>1 DEF TypeOK
      <4>3. recent'[k][0].requests = Capped(recent[k][0].requests + 1)
        BY <1>0, <1>1, <4>2 DEF History, Noting
      <4>4. \A i \in 1..(Window - 1) : recent'[k][i].requests = recent[k][i].requests
        BY <1>0, <1>1, <4>2 DEF History
      <4>5. recent'[k][0].requests <= recent[k][0].requests + 1
        BY <1>0, <1>1, <4>3 DEF History, Noting
      <4>6. QED
        BY <1>1, <1>3, <3>1, <3>2, <4>4, <4>5, RateLetThrough
    <3>3. CASE ~(Entered(windows[k]).requests < limits[k].rpm)
      <4>1. recent' = recent
        BY <1>3, <1>5, <2>2, <3>3 DEF CheckRpm, RpmOpen
      <4>2. windows'[k] = windows[k]
        BY <1>3, <3>1, <3>3, RateRefused
      <4>3. QED
        BY <1>3, <4>1, <4>2
    <3>4. QED
      BY <3>2, <3>3
  <2>3. QED
    BY <2>1, <2>2
<1>6. ASSUME NEW w \in Workers, RecordTokens(w)
      PROVE  RateOK(windows'[k], recent'[k], limits[k].rpm)
  <2>1. CASE KeyOf[w] # k
    <3>1. windows'[k] = windows[k] /\ recent'[k] = recent[k]
      BY <1>6, <2>1 DEF RecordTokens, Noted, TypeOK
    <3>2. QED
      BY <1>3, <3>1
  <2>2. CASE KeyOf[w] = k
    <3>1. windows'[k] = TokensRecorded(windows[k], tokens[w])
      BY <1>6, <2>2 DEF RecordTokens, TypeOK
    <3>2. tokens[w] \in Nat
      BY DEF TypeOK, GateAssumption
    <3>3. \/ recent'[k] = recent[k]
          \/ recent'[k] = [recent[k] EXCEPT ![0]["tokens"] = Capped(@ + tokens[w])]
      BY <1>6, <2>2 DEF RecordTokens, Noted, TypeOK
    <3>4. ASSUME NEW i \in 0..(Window - 1)
          PROVE  recent'[k][i].requests = recent[k][i].requests
      <4>1. recent[k][i] \in Noting /\ DOMAIN recent[k] = 0..(Window - 1)
        BY <1>1 DEF History
      <4>2. CASE recent'[k] = [recent[k] EXCEPT ![0]["tokens"] = Capped(@ + tokens[w])]
        <5>1. CASE i = 0
          <6>1. recent'[k][0]
                  = [recent[k][0] EXCEPT !["tokens"] = Capped(recent[k][0].tokens + tokens[w])]
            BY <1>0, <4>1, <4>2
          <6>2. QED
            BY <4>1, <5>1, <6>1 DEF Noting
        <5>2. CASE i # 0
          BY <4>1, <4>2, <5>2
        <5>3. QED
          BY <5>1, <5>2
      <4>3. QED
        BY <3>3, <4>2
    <3>5. QED
      BY <1>1, <1>3, <3>1, <3>2, <3>4, RateTokens
  <2>3. QED
    BY <2>1, <2>2
<1>7. CASE Cleanup
  <2>1. recent'[k] = recent[k]
    BY <1>7 DEF Cleanup
  <2>2. windows'[k] = windows[k] \/ (~(windows[k].age < 2 * Window) /\ windows'[k] = NoWindow)
    BY <1>7 DEF Cleanup
  <2>3. RateOK(windows'[k], recent'[k], limits[k].rpm)
    BY <1>1, <1>3, <2>1, <2>2, RateCleanup
  <2>4. QED
    BY <1>2, <2>3
<1>8. CASE Tick
  <2>1. windows'[k] = WindowAged(windows[k])
    BY <1>8 DEF Tick
  <2>2. recent'[k] = [i \in 0..(Window - 1) |->
                        IF i = 0 THEN [requests |-> 0, tokens |-> 0] ELSE recent[k][i - 1]]
    BY <1>8 DEF Tick
  <2>3. /\ recent'[k][0].requests = 0
        /\ \A i \in 1..(Window - 1) : recent'[k][i] = recent[k][i - 1]
    BY <1>0, <2>2
  <2>4. RateOK(windows'[k], recent'[k], limits[k].rpm)
    BY <1>1, <1>3, <2>1, <2>3, RateTick
  <2>5. QED
    BY <1>2, <2>4
<1>9. QED
  BY <1>2, <1>4, <1>5, <1>6, <1>7, <1>8
  DEF Next, Step, CheckTpm, PassBudget, Refuse, SaveRecord, Disconnect, NewDay, vars

-----------------------------------------------------------------------------

LEMMA TimesGrows ==
    ASSUME NEW d \in Nat, NEW x \in Nat, NEW y \in Nat, x <= y
    PROVE  d * x <= d * y /\ d * x \in Nat /\ d * y \in Nat
OBVIOUS

LEMMA TimesLess ==
    ASSUME NEW d \in Nat, NEW x \in Nat \ {0}
    PROVE  d * (x - 1) = d * x - d
OBVIOUS

\* How many requests of a key are at some places, before and after one of them
\* has moved.
LEMMA UnderWaySteps ==
    ASSUME GateAssumption, TypeOK, NEW k, NEW places, NEW w \in Workers, NEW to,
           at' = [at EXCEPT ![w] = to]
    PROVE  /\ Cardinality(UnderWay(k, places)) \in Nat
           /\ Cardinality(UnderWay(k, places)') \in Nat
           /\ WorkersOf(k) \in Nat
           /\ Cardinality(UnderWay(k, places)) <= WorkersOf(k)
           /\ Cardinality(UnderWay(k, places)') <= WorkersOf(k)
           /\ KeyOf[w] # k \/ to \notin places \/ at[w] \in places =>
                Cardinality(UnderWay(k, places)') <= Cardinality(UnderWay(k, places))
           /\ KeyOf[w] = k /\ at[w] \in places /\ to \notin places =>
                /\ Cardinality(UnderWay(k, places)) # 0
                /\ Cardinality(UnderWay(k, places)') = Cardinality(UnderWay(k, places)) - 1
<1> DEFINE U == UnderWay(k, places)
           All == {v \in Workers : KeyOf[v] = k}
<1>1. U \subseteq All /\ U' \subseteq All /\ All \subseteq Workers
  BY DEF UnderWay
<1>2. IsFiniteSet(All) /\ IsFiniteSet(U) /\ IsFiniteSet(U')
  BY <1>1, FS_Subset DEF GateAssumption
<1>3. /\ Cardinality(U) \in Nat /\ Cardinality(U') \in Nat /\ Cardinality(All) \in Nat
      /\ Cardinality(U) <= Cardinality(All) /\ Cardinality(U') <= Cardinality(All)
  BY <1>1, <1>2, FS_CardinalityType, FS_Subset
<1>4. WorkersOf(k) = Cardinality(All)
  BY DEF WorkersOf
<1>5. ASSUME KeyOf[w] # k \/ to \notin places \/ at[w] \in places
      PROVE  Cardinality(U') <= Cardinality(U)
  <2>1. U' \subseteq U
    BY <1>5 DEF UnderWay, TypeOK
  <2>2. QED
    BY <1>2, <2>1, FS_Subset
<1>6. ASSUME KeyOf[w] = k, at[w] \in places, to \notin places
      PROVE  Cardinality(U) # 0 /\ Cardinality(U') = Cardinality(U) - 1
  <2>1. U' = U \ {w} /\ w \in U
    BY <1>6 DEF UnderWay, TypeOK
  <2>2. Cardinality(U') = Cardinality(U) - 1
    BY <1>2, <2>1, FS_RemoveElement
  <2> HIDE DEF U
  <2>3. QED
    BY <1>3, <2>2
<1> HIDE DEF All
<1>7. QED
  BY <1>3, <1>4, <1>5, <1>6

\* Where no request moves, as many are under way as before.
LEMMA UnderWayStays ==
    ASSUME GateAssumption, NEW k, NEW places, at' = at
    PROVE  /\ Cardinality(UnderWay(k, places)) \in Nat
           /\ WorkersOf(k) \in Nat
           /\ UnderWay(k, places)' = UnderWay(k, places)
<1>1. IsFiniteSet(Workers)
  BY DEF GateAssumption
<1>2. UnderWay(k, places) \subseteq Workers /\ {w \in Workers : KeyOf[w] = k} \subseteq Workers
  BY DEF UnderWay
<1>3. Cardinality(UnderWay(k, places)) \in Nat /\ WorkersOf(k) \in Nat
  BY <1>1, <1>2, FS_Subset, FS_CardinalityType DEF WorkersOf
<1>4. QED
  BY <1>3 DEF UnderWay

\* An overrun is bounded by what is under way, through every kind of step: what
\* is booked stays or falls while nobody joins those under way; somebody joins
\* below the limit; or somebody leaves and books no more than one request.
LEMMA OverrunArithmetic ==
    ASSUME NEW d \in Nat, NEW all \in Nat, NEW limit \in Nat \ {0},
           NEW c \in Nat, NEW c2 \in Nat, NEW x \in Nat, NEW x2 \in Nat,
           c <= all, c2 <= all,
           \/ x2 = 0
           \/ x2 < limit
           \/ x + d * c <= limit - 1 + d * all /\ x2 <= x /\ c2 <= c
           \/ /\ x + d * c <= limit - 1 + d * all \/ x = 0
              /\ x2 <= x + d /\ c # 0 /\ c2 = c - 1
    PROVE  x2 + d * c2 <= limit - 1 + d * all
<1>1. /\ d * c2 \in Nat /\ d * c \in Nat /\ d * all \in Nat
      /\ d * c2 <= d * all /\ d * c <= d * all
      /\ c2 <= c => d * c2 <= d * c
      /\ c # 0 /\ c2 = c - 1 => d * c2 = d * c - d
  BY TimesGrows, TimesLess
<1> DEFINE e == d * c
           e2 == d * c2
           f == d * all
<1>2. /\ e2 \in Nat /\ e \in Nat /\ f \in Nat
      /\ e2 <= f /\ e <= f
      /\ c2 <= c => e2 <= e
      /\ c # 0 /\ c2 = c - 1 => e2 = e - d
      /\ \/ x2 = 0
         \/ x2 < limit
         \/ x + e <= limit - 1 + f /\ x2 <= x /\ c2 <= c
         \/ /\ x + e <= limit - 1 + f \/ x = 0
            /\ x2 <= x + d /\ c # 0 /\ c2 = c - 1
  BY <1>1
<1> HIDE DEF e, e2, f
<1>3. x2 + e2 <= limit - 1 + f
  BY <1>2
<1>4. QED
  BY <1>3 DEF e2, f

\* check_rpm and record_tokens, and time: the tokens of a window that lives.
LEMMA LivingTokens ==
    ASSUME GateAssumption, NEW win \in WindowState
    PROVE  /\ \A limit \in Nat : LET after == RpmChecked(win, limit)
                               IN  Runs(after) => \/ after.tokens = 0
                                                  \/ Runs(win) /\ after.tokens = win.tokens
           /\ \A n \in Nat : LET after == TokensRecorded(win, n)
                           IN  Runs(after) => \/ ~win.known /\ after.tokens <= n
                                              \/ Runs(win) /\ after.tokens <= win.tokens + n
           /\ Runs(WindowAged(win)) => Runs(win) /\ WindowAged(win).tokens = win.tokens
           /\ ~Runs(NoWindow)
<1>0. Window \in Nat \ {0} /\ Cap \in Nat /\ \A n \in Nat : Capped(n) <= n
  BY DEF GateAssumption, Capped
<1>1. /\ win.known \in BOOLEAN /\ win.age \in 0..(2 * Window)
      /\ win.requests \in Nat /\ win.tokens \in Nat
  BY DEF WindowState
<1>2. ASSUME NEW limit \in Nat, Runs(RpmChecked(win, limit))
      PROVE  \/ RpmChecked(win, limit).tokens = 0
             \/ Runs(win) /\ RpmChecked(win, limit).tokens = win.tokens
  <2>1. CASE Runs(win)
    BY <2>1 DEF RpmChecked, Entered, WindowState
  <2>2. CASE ~Runs(win)
    BY <1>2, <2>2 DEF RpmChecked, Entered, FreshWindow
  <2>3. QED
    BY <2>1, <2>2
<1>3. ASSUME NEW n \in Nat, Runs(TokensRecorded(win, n))
      PROVE  \/ ~win.known /\ TokensRecorded(win, n).tokens <= n
             \/ Runs(win) /\ TokensRecorded(win, n).tokens <= win.tokens + n
  <2>1. CASE win.known
    <3>1. Runs(win)
      BY <1>3, <2>1 DEF TokensRecorded
    <3>2. TokensRecorded(win, n).tokens = Capped(win.tokens + n)
      BY <2>1, <3>1 DEF TokensRecorded, WindowState
    <3>3. QED
      BY <1>0, <1>1, <3>1, <3>2
  <2>2. CASE ~win.known
    <3>1. Runs(FreshWindow)
      BY <1>0 DEF Runs, FreshWindow
    <3>2. TokensRecorded(win, n).tokens = Capped(0 + n)
      BY <2>2, <3>1 DEF TokensRecorded, FreshWindow
    <3>3. QED
      BY <1>0, <2>2, <3>2
  <2>3. QED
    BY <2>1, <2>2
<1>4. ASSUME Runs(WindowAged(win))
      PROVE  Runs(win) /\ WindowAged(win).tokens = win.tokens
  BY <1>0, <1>1, <1>4 DEF Runs, WindowAged, WindowState
<1>5. ~Runs(NoWindow)
  BY DEF Runs, NoWindow
<1>6. QED
  BY <1>2, <1>3, <1>4, <1>5

Counted == {"budget", "relay", "count"}

\* The tokens of one key, one step on: only check_tpm brings a request to
\* those that will be counted, below the limit; record_tokens books one
\* request's tokens and takes it away.
LEMMA TokensStep ==
    ASSUME GateAssumption, TypeOK, TypeOK', TokensBounded, [Next]_vars
    PROVE  TokensBounded'
<1> SUFFICES ASSUME NEW k \in ApiKeys, limits'[k].tpm > 0, Runs(windows'[k])
             PROVE  windows'[k].tokens + MaxTokens * Cardinality(UnderWay(k, Counted)')
                      <= limits'[k].tpm - 1 + MaxTokens * WorkersOf(k)
  BY DEF TokensBounded, Counted, WorkersOf
<1> DEFINE c == Cardinality(UnderWay(k, Counted))
           c2 == Cardinality(UnderWay(k, Counted)')
           x == windows[k].tokens
           x2 == windows'[k].tokens
           limit == limits[k].tpm
           Bound == x2 + MaxTokens * c2 <= limit - 1 + MaxTokens * WorkersOf(k)
<1>0. MaxTokens \in Nat /\ \A w \in Workers : KeyOf[w] \in ApiKeys
  BY DEF GateAssumption
<1>1. limits' = limits
  BY DEF Next, Step, CheckRpm, CheckTpm, PassBudget, Refuse, SaveRecord, RecordTokens,
         Disconnect, Cleanup, Tick, NewDay, vars
<1>2. /\ limit \in Nat \ {0} /\ limits[k].rpm \in Nat /\ x \in Nat /\ x2 \in Nat
      /\ windows[k] \in WindowState
  <2>1. limits[k] \in Limits /\ windows[k] \in WindowState /\ windows'[k] \in WindowState
    BY DEF TypeOK
  <2>2. limits[k].tpm \in Nat /\ limits[k].rpm \in Nat
    BY <2>1, LimitTypes
  <2>3. QED
    BY <1>1, <2>1, <2>2 DEF WindowState
<1>3. Runs(windows[k]) =>
        x + MaxTokens * c <= limit - 1 + MaxTokens * WorkersOf(k)
  BY <1>1 DEF TokensBounded, Counted
<1>4. /\ \A v \in Workers : \A to :
           at' = [at EXCEPT ![v] = to] =>
             /\ c \in Nat /\ c2 \in Nat /\ WorkersOf(k) \in Nat
             /\ c <= WorkersOf(k) /\ c2 <= WorkersOf(k)
             /\ (KeyOf[v] # k \/ to \notin Counted \/ at[v] \in Counted => c2 <= c)
             /\ (KeyOf[v] = k /\ at[v] \in Counted /\ to \notin Counted =>
                   c # 0 /\ c2 = c - 1)
      /\ at' = at => c \in Nat /\ WorkersOf(k) \in Nat /\ c2 = c
  BY UnderWaySteps, UnderWayStays
<1> HIDE DEF c, c2
<1>5. ASSUME c \in Nat, c2 \in Nat, WorkersOf(k) \in Nat,
             c <= WorkersOf(k), c2 <= WorkersOf(k),
             \/ x2 = 0
             \/ x2 < limit
             \/ Runs(windows[k]) /\ x2 <= x /\ c2 <= c
             \/ /\ (Runs(windows[k]) /\ x2 <= x + MaxTokens) \/ x2 <= MaxTokens
                /\ c # 0 /\ c2 = c - 1
      PROVE  Bound
  <2> HIDE DEF x, x2, limit
  <2>1. CASE x2 <= MaxTokens /\ c # 0 /\ c2 = c - 1
    <3>1. x2 <= 0 + MaxTokens
      BY <1>0, <1>2, <2>1
    <3>2. QED
      BY <1>0, <1>2, <1>5, <2>1, <3>1, OverrunArithmetic
  <2>2. CASE ~(x2 <= MaxTokens /\ c # 0 /\ c2 = c - 1)
    BY <1>0, <1>2, <1>3, <1>5, <2>2, OverrunArithmetic
  <2>3. QED
    BY <2>1, <2>2
<1>6. ASSUME at' = at, x2 = 0 \/ (Runs(windows[k]) /\ x2 = x)
      PROVE  Bound
  <2>1. UnderWay(k, Counted) \subseteq {v \in Workers : KeyOf[v] = k}
    BY DEF UnderWay
  <2>2. c <= WorkersOf(k)
    BY <2>1, FS_Subset DEF GateAssumption, WorkersOf, c
  <2>3. c \in Nat /\ c2 = c /\ WorkersOf(k) \in Nat
    BY <1>4, <1>6
  <2> HIDE DEF x, x2, Bound, limit
  <2>4. x2 = 0 \/ (Runs(windows[k]) /\ x2 <= x /\ c2 <= c)
    BY <1>2, <1>6, <2>3
  <2>5. QED
    BY <1>5, <2>2, <2>3, <2>4
<1>7. ASSUME NEW w \in Workers, CheckRpm(w)
      PROVE  Bound
  <2>1. x2 = 0 \/ (Runs(windows[k]) /\ x2 = x)
    <3>1. CASE KeyOf[w] = k
      <4>1. windows'[k] = RpmChecked(windows[k], limits[k].rpm)
        BY <1>7, <3>1 DEF CheckRpm, TypeOK
      <4>2. QED
        BY <1>2, <4>1, LivingTokens
    <3>2. CASE KeyOf[w] # k
      BY <1>7, <3>2 DEF CheckRpm, TypeOK
    <3>3. QED
      BY <3>1, <3>2
  <2>2. CASE at' = at
    BY <1>6, <2>1, <2>2
  <2>3. CASE at' = [at EXCEPT ![w] = "tpm"]
    <3>1. /\ c \in Nat /\ c2 \in Nat /\ WorkersOf(k) \in Nat /\ c2 <= c
          /\ c <= WorkersOf(k) /\ c2 <= WorkersOf(k)
      <4>1. "tpm" \notin Counted
        BY DEF Counted
      <4>2. QED
        BY <1>4, <2>3, <4>1
    <3> HIDE DEF x, x2, Bound, limit
    <3>2. x2 = 0 \/ (Runs(windows[k]) /\ x2 <= x /\ c2 <= c)
      BY <1>2, <2>1, <3>1
    <3>3. QED
      BY <1>5, <3>1, <3>2
  <2>4. QED
    BY <1>7, <2>2, <2>3 DEF CheckRpm
<1>8. ASSUME NEW w \in Workers,
             \/ CheckTpm(w) \/ PassBudget(w) \/ Refuse(w) \/ Disconnect(w)
             \/ \E n \in 0..MaxTokens, cost \in 0..MaxCost,
                   outcome \in {"saved", "partly", "lost"} : SaveRecord(w, n, cost, outcome)
      PROVE  Bound
  <2>1. windows' = windows
    BY <1>8 DEF CheckTpm, PassBudget, Refuse, Disconnect, SaveRecord
  <2>2. x2 = x /\ Runs(windows[k])
    BY <2>1
  <2>3. PICK to : /\ at' = [at EXCEPT ![w] = to]
                  /\ \/ to \notin Counted \/ at[w] \in Counted
                     \/ TpmOpen(windows[KeyOf[w]], limits[KeyOf[w]].tpm)
    BY <1>8 DEF CheckTpm, PassBudget, Refuse, Disconnect, SaveRecord, Counted
  <2>4. /\ c \in Nat /\ c2 \in Nat /\ WorkersOf(k) \in Nat
        /\ c <= WorkersOf(k) /\ c2 <= WorkersOf(k)
        /\ (KeyOf[w] # k \/ to \notin Counted \/ at[w] \in Counted => c2 <= c)
    BY <1>4, <2>3
  <2>5. c2 <= c \/ x2 < limit
    <3>1. CASE c2 <= c
      BY <3>1
    <3>2. CASE ~(c2 <= c)
      BY <1>2, <2>2, <2>3, <2>4, <3>2 DEF TpmOpen
    <3>3. QED
      BY <3>1, <3>2
  <2> HIDE DEF x, x2, Bound, limit
  <2>6. QED
    BY <1>2, <1>5, <2>2, <2>4, <2>5
<1>9. ASSUME NEW w \in Workers, RecordTokens(w)
      PROVE  Bound
  <2>1. at' = [at EXCEPT ![w] = "rpm"] /\ at[w] \in Counted /\ "rpm" \notin Counted
    BY <1>9 DEF RecordTokens, Counted
  <2>2. /\ c \in Nat /\ c2 \in Nat /\ WorkersOf(k) \in Nat /\ c2 <= c
        /\ c <= WorkersOf(k) /\ c2 <= WorkersOf(k)
        /\ (KeyOf[w] = k => c # 0 /\ c2 = c - 1)
    BY <1>4, <2>1
  <2>3. CASE KeyOf[w] = k
    <3>1. windows'[k] = TokensRecorded(windows[k], tokens[w])
      BY <1>9, <2>3 DEF RecordTokens, TypeOK
    <3>2. tokens[w] \in Nat /\ tokens[w] <= MaxTokens
      BY <1>0 DEF TypeOK
    <3>3. x2 <= tokens[w] \/ (Runs(windows[k]) /\ x2 <= x + tokens[w])
      BY <1>2, <3>1, <3>2, LivingTokens
    <3> HIDE DEF x, x2, Bound, limit
    <3>4. x2 <= MaxTokens \/ (Runs(windows[k]) /\ x2 <= x + MaxTokens)
      BY <1>0, <1>2, <3>2, <3>3
    <3>5. QED
      BY <1>5, <2>2, <2>3, <3>4
  <2>4. CASE KeyOf[w] # k
    <3>1. windows'[k] = windows[k]
      BY <1>9, <2>4 DEF RecordTokens, TypeOK
    <3>2. x2 = x /\ Runs(windows[k])
      BY <3>1
    <3> HIDE DEF x, x2, Bound, limit
    <3>3. x2 <= x
      BY <1>2, <3>2
    <3>4. QED
      BY <1>5, <2>2, <3>2, <3>3
  <2>5. QED
    BY <2>3, <2>4
<1>10. ASSUME Cleanup
       PROVE  Bound
  <2>1. windows'[k] = windows[k] /\ at' = at
    BY <1>10, LivingTokens, <1>2 DEF Cleanup
  <2>2. QED
    BY <1>6, <2>1
<1>11. ASSUME Tick
       PROVE  Bound
  <2>1. windows'[k] = WindowAged(windows[k]) /\ at' = at
    BY <1>11 DEF Tick
  <2>2. x2 = x /\ Runs(windows[k])
    BY <1>2, <2>1, LivingTokens
  <2>3. QED
    BY <1>6, <2>1, <2>2
<1>12. ASSUME UNCHANGED <<windows, at>>
       PROVE  Bound
  BY <1>6, <1>12
<1>13. Bound
  BY <1>7, <1>8, <1>9, <1>10, <1>11, <1>12 DEF Next, Step, NewDay, vars
<1>14. QED
  BY <1>1, <1>13 DEF c2

\* The cost of one key in one period, one step on: only the budget's check
\* brings a request to the relay, below the limit; the record books one
\* request's cost and takes it away.
LEMMA SpendingStep ==
    ASSUME GateAssumption, TypeOK, TypeOK', SpendingBounded, [Next]_vars
    PROVE  SpendingBounded'
<1> SUFFICES ASSUME NEW k \in ApiKeys, NEW p \in Period, limits'[k].budget[p] > 0
             PROVE  spent'[k][p] + MaxCost * Cardinality(UnderWay(k, {"relay"})')
                      <= limits'[k].budget[p] - 1 + MaxCost * WorkersOf(k)
  BY DEF SpendingBounded, WorkersOf
<1> DEFINE c == Cardinality(UnderWay(k, {"relay"}))
           c2 == Cardinality(UnderWay(k, {"relay"})')
           x == spent[k][p]
           x2 == spent'[k][p]
           limit == limits[k].budget[p]
           Bound == x2 + MaxCost * c2 <= limit - 1 + MaxCost * WorkersOf(k)
<1>0. MaxCost \in Nat /\ \A w \in Workers : KeyOf[w] \in ApiKeys
  BY DEF GateAssumption
<1>1. limits' = limits
  BY DEF Next, Step, CheckRpm, CheckTpm, PassBudget, Refuse, SaveRecord, RecordTokens,
         Disconnect, Cleanup, Tick, NewDay, vars
<1>2. limit \in Nat \ {0} /\ x \in Nat /\ x2 \in Nat
  BY <1>1, LimitTypes DEF TypeOK
<1>3. x + MaxCost * c <= limit - 1 + MaxCost * WorkersOf(k)
  BY <1>1 DEF SpendingBounded
<1>4. /\ \A v \in Workers : \A to :
           at' = [at EXCEPT ![v] = to] =>
             /\ c \in Nat /\ c2 \in Nat /\ WorkersOf(k) \in Nat
             /\ c <= WorkersOf(k) /\ c2 <= WorkersOf(k)
             /\ (KeyOf[v] # k \/ to \notin {"relay"} \/ at[v] \in {"relay"} => c2 <= c)
             /\ (KeyOf[v] = k /\ at[v] \in {"relay"} /\ to \notin {"relay"} =>
                   c # 0 /\ c2 = c - 1)
      /\ at' = at => c \in Nat /\ WorkersOf(k) \in Nat /\ c2 = c
  BY UnderWaySteps, UnderWayStays
<1>5. ASSUME at' = at
      PROVE  c \in Nat /\ c2 \in Nat /\ WorkersOf(k) \in Nat /\ c <= WorkersOf(k) /\ c2 = c
  <2>1. UnderWay(k, {"relay"}) \subseteq {v \in Workers : KeyOf[v] = k}
    BY DEF UnderWay
  <2>2. c <= WorkersOf(k)
    BY <2>1, FS_Subset DEF GateAssumption, WorkersOf
  <2>3. QED
    BY <1>4, <1>5, <2>2
<1> HIDE DEF c, c2
<1>6. ASSUME c \in Nat, c2 \in Nat, WorkersOf(k) \in Nat,
             c <= WorkersOf(k), c2 <= WorkersOf(k),
             \/ x2 = 0
             \/ x2 < limit
             \/ x2 <= x /\ c2 <= c
             \/ x2 <= x + MaxCost /\ c # 0 /\ c2 = c - 1
      PROVE  Bound
  <2> HIDE DEF x, x2, limit
  <2>1. QED
    BY <1>0, <1>2, <1>3, <1>6, OverrunArithmetic
<1>7. ASSUME at' = at, x2 = 0 \/ x2 = x
      PROVE  Bound
  <2>1. c \in Nat /\ c2 \in Nat /\ WorkersOf(k) \in Nat /\ c <= WorkersOf(k) /\ c2 = c
    BY <1>5, <1>7
  <2> HIDE DEF x, x2, Bound, limit
  <2>2. x2 = 0 \/ (x2 <= x /\ c2 <= c)
    BY <1>2, <1>7, <2>1
  <2>3. c2 <= WorkersOf(k)
    BY <2>1
  <2>4. QED
    BY <1>6, <2>1, <2>2, <2>3
<1>8. ASSUME NEW w \in Workers,
             \/ CheckRpm(w) \/ CheckTpm(w) \/ Refuse(w) \/ RecordTokens(w) \/ Disconnect(w)
      PROVE  Bound
  <2>1. spent' = spent
    BY <1>8 DEF CheckRpm, CheckTpm, Refuse, RecordTokens, Disconnect
  <2>2. CASE at' = at
    BY <1>7, <2>1, <2>2
  <2>3. ASSUME NEW to, to \notin {"relay"}, at' = [at EXCEPT ![w] = to]
        PROVE  Bound
    <3>1. /\ c \in Nat /\ c2 \in Nat /\ WorkersOf(k) \in Nat
          /\ c <= WorkersOf(k) /\ c2 <= WorkersOf(k) /\ c2 <= c
      BY <1>4, <2>3
    <3>2. x2 = x
      BY <2>1
    <3> HIDE DEF x, x2, Bound, limit
    <3>3. x2 <= x
      BY <1>2, <3>2
    <3>4. QED
      BY <1>6, <3>1, <3>3
  <2>4. at' = at \/ \E to : to \notin {"relay"} /\ at' = [at EXCEPT ![w] = to]
    <3>1. "rpm" \notin {"relay"} /\ "tpm" \notin {"relay"} /\ "budget" \notin {"relay"}
      OBVIOUS
    <3>2. \/ at' = at \/ at' = [at EXCEPT ![w] = "rpm"] \/ at' = [at EXCEPT ![w] = "tpm"]
          \/ at' = [at EXCEPT ![w] = "budget"]
      BY <1>8 DEF CheckRpm, CheckTpm, Refuse, RecordTokens, Disconnect
    <3>3. QED
      BY <3>1, <3>2
  <2> HIDE DEF Bound
  <2>5. QED
    BY <2>2, <2>3, <2>4
<1>9. ASSUME NEW w \in Workers, PassBudget(w)
      PROVE  Bound
  <2>1. at' = [at EXCEPT ![w] = "relay"] /\ spent' = spent /\ UnderBudget(KeyOf[w])
    BY <1>9 DEF PassBudget
  <2>2. /\ c \in Nat /\ c2 \in Nat /\ WorkersOf(k) \in Nat
        /\ c <= WorkersOf(k) /\ c2 <= WorkersOf(k)
        /\ (KeyOf[w] # k => c2 <= c)
    BY <1>4, <2>1
  <2>3. x2 = x
    BY <2>1
  <2>4. KeyOf[w] = k => x2 < limit
    BY <1>2, <2>1 DEF UnderBudget
  <2> HIDE DEF x, x2, Bound, limit
  <2>5. x2 < limit \/ (x2 <= x /\ c2 <= c)
    BY <1>2, <2>2, <2>3, <2>4
  <2>6. QED
    BY <1>6, <2>2, <2>5
<1>10. ASSUME NEW w \in Workers, NEW n \in 0..MaxTokens, NEW cost \in 0..MaxCost,
              NEW outcome \in {"saved", "partly", "lost"}, SaveRecord(w, n, cost, outcome)
       PROVE  Bound
  <2>1. PICK to : to \notin {"relay"} /\ at' = [at EXCEPT ![w] = to] /\ at[w] = "relay"
    <3>1. at' = [at EXCEPT ![w] = "count"] \/ at' = [at EXCEPT ![w] = "rpm"]
      BY <1>10 DEF SaveRecord
    <3>2. at[w] = "relay" /\ "count" \notin {"relay"} /\ "rpm" \notin {"relay"}
      BY <1>10 DEF SaveRecord
    <3>3. QED
      BY <3>1, <3>2
  <2>2. /\ c \in Nat /\ c2 \in Nat /\ WorkersOf(k) \in Nat
        /\ c <= WorkersOf(k) /\ c2 <= WorkersOf(k) /\ c2 <= c
        /\ (KeyOf[w] = k => c # 0 /\ c2 = c - 1)
    BY <1>4, <2>1
  <2>3. x2 = x \/ (KeyOf[w] = k /\ x2 \in {0, x + cost})
    <3>1. CASE spent' = spent
      BY <3>1
    <3>2. CASE spent' = [spent EXCEPT ![KeyOf[w]] =
                            [q \in Period |-> IF limits[KeyOf[w]].budget[q] = 0 THEN 0
                                              ELSE spent[KeyOf[w]][q] + cost]]
      <4>1. CASE KeyOf[w] = k
        <5>1. spent'[k] = [q \in Period |-> IF limits[k].budget[q] = 0 THEN 0
                                            ELSE spent[k][q] + cost]
          BY <3>2, <4>1 DEF TypeOK
        <5>2. QED
          BY <4>1, <5>1
      <4>2. CASE KeyOf[w] # k
        BY <3>2, <4>2 DEF TypeOK
      <4>3. QED
        BY <4>1, <4>2
    <3>3. QED
      BY <1>10, <3>1, <3>2 DEF SaveRecord
  <2> HIDE DEF x, x2, Bound, limit
  <2>4. \/ x2 = 0 \/ (x2 <= x /\ c2 <= c)
        \/ (x2 <= x + MaxCost /\ c # 0 /\ c2 = c - 1)
    BY <1>0, <1>2, <2>2, <2>3
  <2>5. QED
    BY <1>6, <2>2, <2>4
<1>11. ASSUME UNCHANGED <<spent, at>>
       PROVE  Bound
  BY <1>7, <1>11
<1>12. ASSUME NEW month \in BOOLEAN, NewDay(month)
       PROVE  Bound
  BY <1>7, <1>12 DEF NewDay
<1>13. Bound
  BY <1>8, <1>9, <1>10, <1>11, <1>12 DEF Next, Step, Cleanup, Tick, vars
<1>14. QED
  BY <1>1, <1>13 DEF c2

-----------------------------------------------------------------------------

\* A history in which nothing is noted sums to nothing.
LEMMA SumsNothing ==
    ASSUME GateAssumption, NEW h \in History,
           \A i \in 0..(Window - 1) : h[i].requests = 0
    PROVE  Sums(h, "requests")[Window] = 0
<1> DEFINE sum == Sums(h, "requests")
           S == {i \in 0..Window : sum[i] = 0}
<1>0. Window \in Nat
  BY DEF GateAssumption
<1>1. 0 \in S
  BY <1>0, SumsRecursion
<1>2. ASSUME NEW i \in 0..(Window - 1), i \in S
      PROVE  i + 1 \in S
  <2>1. i + 1 \in 1..Window /\ i + 1 \in 0..Window /\ (i + 1) - 1 = i
    BY <1>0
  <2>2. sum[i + 1] = sum[i] + h[i].requests
    BY <2>1, SumsRecursion
  <2> HIDE DEF sum
  <2>3. QED
    BY <1>2, <2>1, <2>2
<1> HIDE DEF S
<1>3. Window \in S
  BY <1>0, <1>1, <1>2, UpTo
<1>4. QED
  BY <1>3 DEF S

IInv ==
    /\ TypeOK
    /\ RatesOK
    /\ OverrunUnderWay

LEMMA Initially ==
    ASSUME GateAssumption, Init
    PROVE  IInv
<1>0. /\ Window \in Nat \ {0} /\ 0 \in 0..(Window - 1) /\ 0 \in 0..(2 * Window)
      /\ MaxTokens \in Nat /\ MaxCost \in Nat /\ 0 \in 0..MaxTokens
  BY DEF GateAssumption
<1>1. TypeOK
  BY <1>0 DEF Init, TypeOK, WindowState, NoWindow
<1>2. ASSUME NEW k \in ApiKeys
      PROVE  ~Runs(windows[k])
  BY DEF Init, NoWindow, Runs
<1>3. RatesOK
  <2> SUFFICES ASSUME NEW k \in ApiKeys
               PROVE  RateOK(windows[k], recent[k], limits[k].rpm)
    BY DEF RatesOK
  <2>1. /\ recent[k] \in History
        /\ \A i \in 0..(Window - 1) : recent[k][i].requests = 0
    BY DEF Init, History, Noting
  <2>2. Sums(recent[k], "requests")[Window] = 0
    BY <2>1, SumsNothing
  <2>3. limits[k].rpm \in Nat
    BY LimitTypes DEF Init
  <2>4. QED
    BY <1>0, <1>2, <2>1, <2>2, <2>3 DEF RateOK
<1>4. TokensBounded
  BY <1>2 DEF TokensBounded
<1>5. SpendingBounded
  <2> SUFFICES ASSUME NEW k \in ApiKeys, NEW p \in Period, limits[k].budget[p] > 0
               PROVE  spent[k][p] + MaxCost * Cardinality(UnderWay(k, {"relay"}))
                        <= limits[k].budget[p] - 1 + MaxCost * WorkersOf(k)
    BY DEF SpendingBounded
  <2>1. UnderWay(k, {"relay"}) = {}
    BY DEF UnderWay, Init
  <2>2. Cardinality(UnderWay(k, {"relay"})) = 0
    BY <2>1, FS_EmptySet
  <2>3. WorkersOf(k) \in Nat
    <3>1. {w \in Workers : KeyOf[w] = k} \subseteq Workers
      OBVIOUS
    <3>2. QED
      BY <3>1, FS_Subset, FS_CardinalityType DEF WorkersOf, GateAssumption
  <2>4. spent[k][p] = 0
    BY DEF Init
  <2>5. limits[k].budget[p] \in Nat \ {0}
    BY LimitTypes DEF Init
  <2>6. MaxCost * 0 = 0 /\ MaxCost * WorkersOf(k) \in Nat
    BY <1>0, <2>3
  <2>7. QED
    BY <2>2, <2>4, <2>5, <2>6
<1>6. QED
  BY <1>1, <1>3, <1>4, <1>5 DEF IInv, OverrunUnderWay

LEMMA Inductive ==
    ASSUME GateAssumption, IInv, [Next]_vars
    PROVE  IInv'
<1>1. TypeOK'
  BY TypeStep DEF IInv
<1>2. RatesOK'
  BY <1>1, RatesStep DEF IInv
<1>3. TokensBounded' /\ SpendingBounded'
  BY <1>1, TokensStep, SpendingStep DEF IInv, OverrunUnderWay
<1>4. QED
  BY <1>1, <1>2, <1>3 DEF IInv, OverrunUnderWay

LEMMA Always ==
    ASSUME GateAssumption
    PROVE  Spec => []IInv
<1>1. Init => IInv
  BY Initially
<1>2. IInv /\ [Next]_vars => IInv'
  BY Inductive
<1>3. QED
  BY <1>1, <1>2, PTL DEF Spec

\* In no stretch as long as a window does a key get more requests through than
\* two windows allow, whatever is reset, inserted and cleaned up in between
\* (check_rpm, record_tokens, cleanup).
THEOREM RpmPerMinuteHolds ==
    ASSUME GateAssumption
    PROVE  Spec => []RpmPerMinute
<1>1. IInv => RpmPerMinute
  <2> SUFFICES ASSUME IInv, NEW k \in ApiKeys, limits[k].rpm > 0
               PROVE  Recently(k, "requests") <= 2 * limits[k].rpm
    BY DEF RpmPerMinute
  <2> DEFINE sum == Sums(recent[k], "requests")
             win == windows[k]
             limit == limits[k].rpm
  <2>1. RateOK(win, recent[k], limit)
    BY DEF IInv, RatesOK
  <2>2. win \in WindowState /\ recent[k] \in History /\ limit \in Nat
    BY LimitTypes DEF IInv, TypeOK, History, Noting
  <2>3. Window \in Nat \ {0} /\ Window \in 0..Window
    BY DEF GateAssumption
  <2>4. \A i \in 0..Window : sum[i] \in Nat
    BY <2>2, SumsTypes
  <2>5. CASE Runs(win)
    <3>1. /\ sum[win.age + 1] <= win.requests /\ win.requests <= limit
          /\ sum[Window] - sum[win.age + 1] <= limit
      BY <2>1, <2>5 DEF RateOK
    <3>2. win.age + 1 \in 0..Window /\ win.requests \in Nat
      BY <2>2, <2>3, <2>5 DEF Runs, WindowState
    <3>3. sum[win.age + 1] \in Nat /\ sum[Window] \in Nat
      BY <2>3, <2>4, <3>2
    <3> HIDE DEF sum
    <3>4. sum[Window] <= 2 * limit
      BY <2>2, <3>1, <3>2, <3>3
    <3>5. QED
      BY <3>4 DEF sum, Recently
  <2>6. CASE ~Runs(win)
    <3>1. sum[Window] <= limit /\ sum[Window] \in Nat
      BY <2>1, <2>3, <2>4, <2>6 DEF RateOK
    <3> HIDE DEF sum
    <3>2. sum[Window] <= 2 * limit
      BY <2>2, <3>1
    <3>3. QED
      BY <3>2 DEF sum, Recently
  <2>7. QED
    BY <2>5, <2>6
<1>2. Spec => []IInv
  BY Always
<1>3. QED
  BY <1>1, <1>2, PTL

\* The tokens of a window and the cost of a day or a month pass their limits
\* only by the requests under way when the limit was reached, one each
\* (check_tpm and record_tokens, check_budget and aggregate_cost).
THEOREM OverrunUnderWayHolds ==
    ASSUME GateAssumption
    PROVE  Spec => []OverrunUnderWay
<1>1. IInv => OverrunUnderWay
  BY DEF IInv
<1>2. Spec => []IInv
  BY Always
<1>3. QED
  BY <1>1, <1>2, PTL
=============================================================================
