--------------------------- MODULE RequestProofs ---------------------------
(***************************************************************************)
(* Proofs about the way of a request in: FrontDoor, which lets it in, and  *)
(* RouteEngine, which answers it.                                          *)
(*                                                                         *)
(* FrontDoor, for any number of connections, slots, clients, limiters and  *)
(* keys: no worker slot is lost or handed out twice; no client gets more   *)
(* than its budget in a window; and a limiter forgets a client with live   *)
(* hits only when its table is full of such clients.                       *)
(*                                                                         *)
(* RouteEngine, for any catalogs, sellers and requests: what is served is  *)
(* what was asked for; "cheapest" is cheapest; a miss is one and says      *)
(* what happened; and history never moves a candidate before a             *)
(* substantially better match.                                             *)
(***************************************************************************)
EXTENDS FrontDoor, RouteEngine, SequenceTheorems, FiniteSetsExt, FiniteSetTheorems,
        WellFoundedInduction, TLAPS

\* A set of natural numbers that is not empty has a least element.
LEMMA LeastNatural ==
    ASSUME NEW T \in SUBSET Nat, T # {}
    PROVE  \E m \in T : \A n \in T : m <= n
<1> DEFINE R == OpToRel(<, Nat)
<1>1. IsWellFoundedOn(R, Nat)
  BY NatLessThanWellFounded
<1>2. \A x, y \in Nat : x < y => <<x, y>> \in R
  BY DEF OpToRel
<1> HIDE DEF R
<1>3. PICK x \in T : \A y \in T : <<y, x>> \notin R
  BY <1>1, WFMin
<1>4. ASSUME NEW y \in T PROVE x <= y
  <2>1. x \in Nat /\ y \in Nat /\ <<y, x>> \notin R
    BY <1>3
  <2>2. ~(y < x)
    BY <1>2, <2>1
  <2> QED BY <2>1, <2>2
<1> QED BY <1>4

-----------------------------------------------------------------------------

\* What a connection's thread remembers, by what it is doing.
Threads ==
    [phase: {"none", "busy", "starting", "work", "ending"}]
        \cup [phase: {"head"}, left: Nat, more: Nat]
        \cup [phase: {"body"}, who: Client, kind: Kind, left: Nat, more: Nat, due: Nat]

Held == {c \in Conn : conn[c].phase \in Holding}

\* There are never more holders than slots, so the holders are finitely many,
\* however many connections there are.
SlotInv ==
    /\ conn \in [Conn -> Threads]
    /\ free \in Nat
    /\ IsFiniteSet(Held)
    /\ SlotsConserved

\* One connection moves to another phase.
Moves(c, t) == t \in Threads /\ conn' = [conn EXCEPT ![c] = t]

LEMMA HeldAfter ==
    ASSUME SlotInv, NEW c \in Conn, NEW t, Moves(c, t)
    PROVE  /\ conn' \in [Conn -> Threads]
           /\ Held' = IF t.phase \in Holding THEN Held \cup {c} ELSE Held \ {c}
BY DEF SlotInv, Moves, Held

\* A step that neither takes nor gives a slot back.
LEMMA SlotKept ==
    ASSUME SlotInv, NEW c \in Conn, NEW t, Moves(c, t), UNCHANGED free,
           conn[c].phase \in Holding <=> t.phase \in Holding
    PROVE  SlotInv'
<1>1. conn' \in [Conn -> Threads] /\ Held' = Held
  BY HeldAfter DEF Held
<1> QED BY <1>1 DEF SlotInv, SlotsConserved, Held

\* A connection gets a slot.
LEMMA SlotTaken ==
    ASSUME SlotInv, NEW c \in Conn, NEW t, Moves(c, t), free # 0, free' = free - 1,
           conn[c].phase \notin Holding, t.phase \in Holding
    PROVE  SlotInv'
<1>1. conn' \in [Conn -> Threads] /\ Held' = Held \cup {c} /\ c \notin Held
  BY HeldAfter DEF Held
<1>2. IsFiniteSet(Held') /\ Cardinality(Held') = Cardinality(Held) + 1
  BY <1>1, FS_AddElement DEF SlotInv
<1>3. Cardinality(Held) \in Nat
  BY FS_CardinalityType DEF SlotInv
<1> QED BY <1>1, <1>2, <1>3 DEF SlotInv, SlotsConserved, Held

\* A connection gives its slot back.
LEMMA SlotGiven ==
    ASSUME SlotInv, NEW c \in Conn, NEW t, Moves(c, t), free' = free + 1,
           conn[c].phase \in Holding, t.phase \notin Holding
    PROVE  SlotInv'
<1>1. conn' \in [Conn -> Threads] /\ Held' = Held \ {c} /\ c \in Held
  BY HeldAfter DEF Held
<1>2. IsFiniteSet(Held') /\ Cardinality(Held') = Cardinality(Held) - 1
  BY <1>1, FS_RemoveElement DEF SlotInv
<1>3. Cardinality(Held) \in Nat
  BY FS_CardinalityType DEF SlotInv
<1> QED BY <1>1, <1>2, <1>3 DEF SlotInv, SlotsConserved, Held

\* The phases a step leads to.
LEMMA PhaseTypes ==
    /\ \A x \in {"busy", "starting", "work", "ending"} : In(x) \in Threads /\ In(x).phase = x
    /\ Away \in Threads /\ Away.phase = "none"
    /\ [phase |-> "head", left |-> Patience, more |-> Pieces] \in Threads
    /\ \A w \in Client, k \in Kind, turn \in {"work", "body"} :
           Going(w, k, turn) \in Threads /\ Going(w, k, turn).phase = turn
BY FrontDoorAssumption DEF In, Away, Going, Threads

LEMMA SlotInit == Init => SlotInv
<1> SUFFICES ASSUME Init PROVE SlotInv
  OBVIOUS
<1>1. conn \in [Conn -> Threads] /\ Held = {}
  BY PhaseTypes DEF Init, Held, Holding
<1>2. free \in Nat /\ free = MaxHandlers
  BY FrontDoorAssumption DEF Init
<1>3. IsFiniteSet(Held) /\ Cardinality(Held) = 0
  BY <1>1, FS_EmptySet
<1>4. SlotsConserved
  BY <1>2, <1>3 DEF SlotsConserved, Held
<1> QED BY <1>1, <1>2, <1>3, <1>4 DEF SlotInv

LEMMA SlotStep == SlotInv /\ [Next]_vars => SlotInv'
<1> SUFFICES ASSUME SlotInv, [Next]_vars PROVE SlotInv'
  OBVIOUS
<1> USE PhaseTypes DEF Holding, Moves
<1>1. ASSUME NEW c \in Conn, Accept(c) PROVE SlotInv'
  <2>1. CASE free = 0
    BY <1>1, <2>1, SlotKept DEF Accept
  <2>2. CASE free # 0
    BY <1>1, <2>2, SlotTaken DEF Accept
  <2> QED BY <2>1, <2>2
<1>2. ASSUME NEW c \in Conn, NEW w \in Client, NEW k \in Kind, Dispatch(c, w, k) PROVE SlotInv'
  <2>1. \E t : Moves(c, t) /\ t.phase \in {"work", "body", "ending"}
    BY <1>2 DEF Dispatch, Charge, Pass
  <2> QED BY <1>2, <2>1, SlotKept DEF Dispatch
<1>3. ASSUME NEW c \in Conn, ReadBody(c) PROVE SlotInv'
  <2>1. conn[c].who \in Client /\ conn[c].kind \in Kind
    BY <1>3 DEF ReadBody, SlotInv, Threads
  <2>2. \E t : Moves(c, t) /\ t.phase \in {"work", "ending"}
    BY <1>3, <2>1 DEF ReadBody, Charge
  <2> QED BY <1>3, <2>2, SlotKept DEF ReadBody
<1>4. ASSUME NEW c \in Conn, StartThread(c) PROVE SlotInv'
  BY <1>4, SlotKept DEF StartThread
<1>5. ASSUME NEW c \in Conn, StartFails(c) \/ Release(c) PROVE SlotInv'
  BY <1>5, SlotGiven DEF StartFails, Release
<1>6. ASSUME NEW c \in Conn,
             Silence(c) \/ Answer(c) \/ Refuse(c) \/ BodyRefused(c) \/ Raise(c)
      PROVE  SlotInv'
  BY <1>6, SlotKept DEF Silence, Answer, Refuse, BodyRefused, Raise
<1>7. ASSUME NEW c \in Conn, Gone(c) \/ Drip(c) PROVE SlotInv'
  <2>1. CASE Gone(c)
    BY <2>1, SlotKept DEF Gone
  <2>2. CASE Drip(c)
    <3> DEFINE t == [conn[c] EXCEPT !.left = Patience, !.more = @ - 1]
    <3>1. t \in Threads /\ t.phase = conn[c].phase
      BY <2>2, FrontDoorAssumption DEF Drip, SlotInv, Threads
    <3>2. conn' = [conn EXCEPT ![c] = t]
      BY <2>2 DEF Drip, SlotInv
    <3> HIDE DEF t
    <3> QED BY <2>2, <3>1, <3>2, SlotKept DEF Drip
  <2> QED BY <1>7, <2>1, <2>2
<1>8. CASE Tick
  <2>1. conn' \in [Conn -> Threads] /\ \A c \in Conn : conn'[c].phase = conn[c].phase
    <3>1. ASSUME NEW t \in Threads PROVE Waited(t) \in Threads /\ Waited(t).phase = t.phase
      <4>1. CASE t \in [phase: {"none", "busy", "starting", "work", "ending"}]
        BY <4>1 DEF Waited, Threads
      <4>2. CASE t \in [phase: {"head"}, left: Nat, more: Nat]
        BY <4>2 DEF Waited, Less, Threads
      <4>3. CASE t \in [phase: {"body"}, who: Client, kind: Kind, left: Nat, more: Nat, due: Nat]
        <5>1. Less(t.left) \in Nat /\ Less(t.due) \in Nat
          BY <4>3 DEF Less
        <5>2. Waited(t) = [t EXCEPT !.left = Less(t.left), !.due = Less(t.due)]
          BY <4>3 DEF Waited
        <5>3. Waited(t) = [phase |-> t.phase, who |-> t.who, kind |-> t.kind,
                           left |-> Less(t.left), more |-> t.more, due |-> Less(t.due)]
          BY <4>3, <5>2
        <5> QED BY <4>3, <5>1, <5>3 DEF Threads
      <4> QED BY <4>1, <4>2, <4>3 DEF Threads
    <3>2. \A c \in Conn : conn[c] \in Threads
      BY DEF SlotInv
    <3> QED BY <1>8, <3>1, <3>2 DEF Tick
  <2>2. Held' = Held
    BY <2>1 DEF Held
  <2> QED BY <1>8, <2>1, <2>2 DEF Tick, SlotInv, SlotsConserved, Held
<1>9. CASE UNCHANGED vars
  BY <1>9 DEF vars, SlotInv, SlotsConserved, Held
<1> QED BY <1>1, <1>2, <1>3, <1>4, <1>5, <1>6, <1>7, <1>8, <1>9 DEF Next

\* However requests end, every worker slot is free or held by one connection.
THEOREM NoSlotLost == Spec => []SlotsConserved
<1>1. SlotInv => SlotsConserved
  BY DEF SlotInv
<1> QED BY <1>1, SlotInit, SlotStep, PTL DEF Spec

-----------------------------------------------------------------------------
(* Live goes through the ages one by one.  Its tables exist, and agree as  *)
(* far as their sequences do.                                              *)

KeptBody(g, s, n) ==
    IF n = 0 THEN <<>>
    ELSE IF s[n] < Window THEN Append(g[n - 1], s[n])
    ELSE g[n - 1]
IsKept(g, s) == g = [n \in 0..Len(s) |-> KeptBody(g, s, n)]

LEMMA LiveIs ==
    ASSUME NEW s
    PROVE  Live(s) = (CHOOSE g : IsKept(g, s))[Len(s)]
BY DEF Live, IsKept, KeptBody

LEMMA KeptExists ==
    ASSUME NEW s, Len(s) \in Nat
    PROVE  \E g : IsKept(g, s)
<1> DEFINE Has(m) == \E g : g = [n \in 0..m |-> KeptBody(g, s, n)]
           Lacking == {m \in Nat : ~Has(m)}
<1>1. Has(0)
  <2> DEFINE g == [n \in 0..0 |-> <<>>]
  <2>1. g = [n \in 0..0 |-> KeptBody(g, s, n)]
    BY DEF KeptBody
  <2> QED BY <2>1
<1>2. ASSUME NEW m \in Nat, Has(m) PROVE Has(m + 1)
  <2>1. PICK g : g = [n \in 0..m |-> KeptBody(g, s, n)]
    BY <1>2
  <2> DEFINE h == [n \in 0..(m + 1) |-> KeptBody(g, s, n)]
  <2>2. ASSUME NEW n \in 0..(m + 1) PROVE KeptBody(h, s, n) = KeptBody(g, s, n)
    <3>1. CASE n = 0
      BY <3>1 DEF KeptBody
    <3>2. CASE n # 0
      <4>1. n - 1 \in 0..m /\ n - 1 \in 0..(m + 1)
        BY <3>2
      <4>2. h[n - 1] = KeptBody(g, s, n - 1) /\ g[n - 1] = KeptBody(g, s, n - 1)
        BY <2>1, <4>1
      <4> HIDE DEF h
      <4> QED BY <4>2 DEF KeptBody
    <3> QED BY <3>1, <3>2
  <2>3. h = [n \in 0..(m + 1) |-> KeptBody(h, s, n)]
    BY <2>2
  <2> QED BY <2>3
<1> HIDE DEF Has
<1>3. Lacking = {}
  <2>1. SUFFICES ASSUME Lacking # {} PROVE FALSE
    OBVIOUS
  <2>2. PICK m \in Lacking : \A n \in Lacking : m <= n
    BY <2>1, LeastNatural
  <2>3. m \in Nat /\ m # 0 /\ ~Has(m)
    BY <1>1, <2>2
  <2>4. m - 1 \in Nat /\ m - 1 \notin Lacking
    BY <2>2, <2>3
  <2>5. Has((m - 1) + 1)
    BY <1>2, <2>4
  <2> QED BY <2>3, <2>5
<1>4. Has(Len(s))
  BY <1>3
<1> QED BY <1>4 DEF Has, IsKept

LEMMA KeptAgree ==
    ASSUME NEW s, NEW r, NEW g, NEW h, Len(s) \in Nat, Len(r) \in Nat,
           IsKept(g, s), IsKept(h, r), NEW m \in Nat, m <= Len(s), m <= Len(r),
           \A i \in 1..m : s[i] = r[i]
    PROVE  g[m] = h[m]
<1> DEFINE Bad == {n \in 0..m : g[n] # h[n]}
<1>1. SUFFICES ASSUME Bad # {} PROVE FALSE
  OBVIOUS
<1>2. PICK n \in Bad : \A k \in Bad : n <= k
  <2>1. Bad \in SUBSET Nat
    OBVIOUS
  <2> QED BY <1>1, <2>1, LeastNatural
<1>3. g[n] = KeptBody(g, s, n) /\ h[n] = KeptBody(h, r, n)
  <2>1. n \in 0..Len(s) /\ n \in 0..Len(r)
    OBVIOUS
  <2>2. /\ g = [i \in 0..Len(s) |-> KeptBody(g, s, i)]
        /\ h = [i \in 0..Len(r) |-> KeptBody(h, r, i)]
    BY DEF IsKept
  <2> QED BY <2>1, <2>2
<1>4. n # 0
  BY <1>3 DEF KeptBody
<1>5. g[n - 1] = h[n - 1] /\ s[n] = r[n]
  BY <1>2, <1>4
<1>6. g[n] = h[n]
  BY <1>3, <1>4, <1>5 DEF KeptBody
<1> QED BY <1>6

LEMMA LiveEmpty == Live(<<>>) = <<>>
<1> DEFINE e == <<>>
           g == CHOOSE g : IsKept(g, e)
<1>1. Len(e) = 0
  OBVIOUS
<1>2. IsKept(g, e)
  BY <1>1, KeptExists
<1>3. Live(e) = g[0]
  BY <1>1, LiveIs
<1> HIDE DEF g
<1>4. g[0] = <<>>
  BY <1>1, <1>2 DEF IsKept, KeptBody
<1> QED BY <1>3, <1>4

LEMMA LiveAppend ==
    ASSUME NEW s \in Seq(Nat), NEW a \in Nat
    PROVE  Live(Append(s, a)) = IF a < Window THEN Append(Live(s), a) ELSE Live(s)
<1> DEFINE r == Append(s, a)
           g == CHOOSE k : IsKept(k, r)
           h == CHOOSE k : IsKept(k, s)
<1>1. /\ Len(s) \in Nat /\ Len(r) = Len(s) + 1
      /\ r[Len(s) + 1] = a /\ \A i \in 1..Len(s) : s[i] = r[i]
  OBVIOUS
<1>2. IsKept(g, r) /\ IsKept(h, s)
  BY <1>1, KeptExists
<1>3. Live(r) = g[Len(s) + 1] /\ Live(s) = h[Len(s)]
  BY <1>1, LiveIs
<1> HIDE DEF g, h, r
<1>4. g[Len(s)] = h[Len(s)]
  <2>1. Len(r) \in Nat /\ Len(s) <= Len(s) /\ Len(s) <= Len(r) /\ \A i \in 1..Len(s) : r[i] = s[i]
    BY <1>1
  <2> QED BY <1>1, <1>2, <2>1, KeptAgree
<1>5. g[Len(s) + 1] = KeptBody(g, r, Len(s) + 1)
  <2>1. Len(s) + 1 \in 0..Len(r)
    BY <1>1
  <2>2. g = [n \in 0..Len(r) |-> KeptBody(g, r, n)]
    BY <1>2 DEF IsKept
  <2> QED BY <2>1, <2>2
<1>6. g[Len(s) + 1] = IF a < Window THEN Append(g[Len(s)], a) ELSE g[Len(s)]
  BY <1>1, <1>5 DEF KeptBody
<1> QED BY <1>3, <1>4, <1>6 DEF r

\* Induction over sequences: a shortest bad one is empty, or one element longer
\* than a good one.
LEMMA ShortestBad ==
    ASSUME NEW Bad \in SUBSET Seq(Nat), Bad # {}
    PROVE  \E s \in Bad : \/ s = <<>>
                          \/ \E r \in Seq(Nat), a \in Nat : s = Append(r, a) /\ r \notin Bad
<1> DEFINE Sizes == {Len(s) : s \in Bad}
<1>1. \A s \in Bad : s \in Seq(Nat) /\ Len(s) \in Nat
  BY LenProperties
<1>2. PICK m \in Sizes : \A n \in Sizes : m <= n
  <2>1. Sizes \in SUBSET Nat /\ Sizes # {}
    BY <1>1
  <2> QED BY <2>1, LeastNatural
<1>3. PICK s \in Bad : Len(s) = m
  OBVIOUS
<1>4. ASSUME s # <<>>
      PROVE  \E r \in Seq(Nat), a \in Nat : s = Append(r, a) /\ r \notin Bad
  <2>1. PICK r \in Seq(Nat), a \in Nat : s = Append(r, a)
    BY <1>1, <1>4, SequenceEmptyOrAppend
  <2>2. Len(s) = Len(r) + 1 /\ Len(r) \in Nat
    BY <2>1, AppendProperties, LenProperties
  <2>3. ASSUME r \in Bad PROVE FALSE
    <3>1. Len(r) \in Sizes
      BY <2>3
    <3>2. m <= Len(r)
      BY <1>2, <3>1
    <3> QED BY <1>3, <2>2, <3>2
  <2> QED BY <2>1, <2>3
<1> QED BY <1>3, <1>4

\* What Live keeps is young; it keeps no more than there is, and all of what is
\* young.
LEMMA LiveKeepsYoung ==
    \A s \in Seq(Nat) : /\ Live(s) \in Seq(0..(Window - 1))
                        /\ Len(Live(s)) <= Len(s)
                        /\ (\A i \in 1..Len(s) : s[i] < Window) => Live(s) = s
<1> DEFINE Young(s) == /\ Live(s) \in Seq(0..(Window - 1))
                       /\ Len(Live(s)) <= Len(s)
                       /\ (\A i \in 1..Len(s) : s[i] < Window) => Live(s) = s
           Bad == {s \in Seq(Nat) : ~Young(s)}
<1>1. SUFFICES ASSUME Bad # {} PROVE FALSE
  OBVIOUS
<1>2. PICK s \in Bad : \/ s = <<>>
                       \/ \E r \in Seq(Nat), a \in Nat : s = Append(r, a) /\ r \notin Bad
  <2>1. Bad \in SUBSET Seq(Nat)
    OBVIOUS
  <2> QED BY <1>1, <2>1, ShortestBad
<1>3. Window \in Nat
  BY FrontDoorAssumption
<1>4. CASE s = <<>>
  <2>1. Live(s) = <<>>
    BY <1>4, LiveEmpty
  <2>2. Live(s) \in Seq(0..(Window - 1)) /\ Len(Live(s)) = 0 /\ Len(s) = 0
    BY <1>4, <2>1, EmptySeq
  <2> QED BY <1>2, <1>4, <2>1, <2>2
<1>5. ASSUME NEW r \in Seq(Nat), NEW a \in Nat, s = Append(r, a), r \notin Bad PROVE FALSE
  <2>1. Young(r)
    BY <1>5
  <2>2. Live(s) = IF a < Window THEN Append(Live(r), a) ELSE Live(r)
    BY <1>5, LiveAppend
  <2>3. /\ Len(s) = Len(r) + 1 /\ Len(r) \in Nat /\ s[Len(s)] = a
        /\ \A i \in 1..Len(r) : s[i] = r[i]
    BY <1>5, AppendProperties, LenProperties
  <2>4. Len(Live(r)) \in Nat
    BY <2>1, LenProperties
  <2>5. CASE a < Window
    <3>1. a \in 0..(Window - 1)
      BY <1>3, <2>5
    <3>2. Live(s) \in Seq(0..(Window - 1)) /\ Len(Live(s)) = Len(Live(r)) + 1
      BY <2>1, <2>2, <2>5, <3>1, AppendProperties
    <3>3. (\A i \in 1..Len(s) : s[i] < Window) => Live(s) = s
      <4>1. (\A i \in 1..Len(s) : s[i] < Window) => \A i \in 1..Len(r) : r[i] < Window
        BY <2>3
      <4> QED BY <1>5, <2>1, <2>2, <2>5, <4>1
    <3>4. Len(Live(s)) <= Len(s)
      BY <2>1, <2>3, <2>4, <3>2
    <3> QED BY <1>2, <3>2, <3>3, <3>4
  <2>6. CASE ~(a < Window)
    <3>1. Live(s) = Live(r)
      BY <2>2, <2>6
    <3>2. Len(Live(s)) <= Len(s)
      BY <2>1, <2>3, <2>4, <3>1
    <3>3. ~\A i \in 1..Len(s) : s[i] < Window
      BY <2>3, <2>6
    <3> QED BY <1>2, <2>1, <3>1, <3>2, <3>3
  <2> QED BY <2>5, <2>6
<1> QED BY <1>2, <1>4, <1>5

Aged(s) == [j \in DOMAIN s |-> Older(s[j])]

LEMMA AgedAppend ==
    ASSUME NEW s \in Seq(Nat), NEW a \in Nat
    PROVE  /\ Older(a) \in Nat /\ (~(a < Window) => Older(a) = a)
           /\ Aged(s) \in Seq(Nat) /\ Len(Aged(s)) = Len(s)
           /\ Aged(Append(s, a)) = Append(Aged(s), Older(a))
<1>1. \A x \in Nat : Older(x) \in Nat
  BY DEF Older
<1>2. Older(a) \in Nat /\ (~(a < Window) => Older(a) = a)
  BY DEF Older
<1>3. ASSUME NEW t \in Seq(Nat)
      PROVE  /\ Aged(t) \in Seq(Nat) /\ Len(Aged(t)) = Len(t)
             /\ \A j \in 1..Len(t) : Aged(t)[j] = Older(t[j])
  <2>1. Len(t) \in Nat /\ DOMAIN t = 1..Len(t) /\ \A j \in 1..Len(t) : t[j] \in Nat
    BY LenProperties, ElementOfSeq
  <2>2. \A j \in 1..Len(t) : Older(t[j]) \in Nat
    BY <1>1, <2>1
  <2>3. Aged(t) = [j \in 1..Len(t) |-> Older(t[j])]
    BY <2>1 DEF Aged
  <2> QED BY <2>1, <2>2, <2>3
<1> DEFINE r == Append(s, a)
<1>4. /\ r \in Seq(Nat) /\ Len(r) = Len(s) + 1 /\ Len(s) \in Nat /\ r[Len(s) + 1] = a
      /\ \A j \in 1..Len(s) : r[j] = s[j]
  BY AppendProperties, LenProperties
<1> HIDE DEF r
<1>5. /\ Append(Aged(s), Older(a)) \in Seq(Nat)
      /\ Len(Append(Aged(s), Older(a))) = Len(s) + 1
      /\ \A j \in 1..Len(s) : Append(Aged(s), Older(a))[j] = Older(s[j])
      /\ Append(Aged(s), Older(a))[Len(s) + 1] = Older(a)
  <2>1. /\ Aged(s) \in Seq(Nat) /\ Len(Aged(s)) = Len(s)
        /\ \A j \in 1..Len(s) : Aged(s)[j] = Older(s[j])
    BY <1>3
  <2> QED BY <1>2, <2>1, AppendProperties
<1>6. ASSUME NEW j \in 1..Len(r) PROVE Aged(r)[j] = Append(Aged(s), Older(a))[j]
  <2>1. Aged(r)[j] = Older(r[j])
    BY <1>3, <1>4
  <2>2. CASE j \in 1..Len(s)
    BY <1>4, <1>5, <2>1, <2>2
  <2>3. CASE j = Len(s) + 1
    BY <1>4, <1>5, <2>1, <2>3
  <2>4. j \in 1..Len(s) \/ j = Len(s) + 1
    BY <1>4
  <2> QED BY <2>2, <2>3, <2>4
<1>7. Aged(r) = Append(Aged(s), Older(a))
  <2>1. Aged(r) \in Seq(Nat) /\ Len(Aged(r)) = Len(s) + 1
    BY <1>3, <1>4
  <2>2. \A j \in 1..Len(Aged(r)) : Aged(r)[j] = Append(Aged(s), Older(a))[j]
    BY <1>4, <1>6, <2>1
  <2> QED BY <1>5, <2>1, <2>2, SeqEqual
<1> QED BY <1>2, <1>3, <1>7 DEF r

\* Growing older and forgetting the old commute.
LEMMA LiveAged ==
    \A s \in Seq(Nat) : Live(Aged(s)) = Live(Aged(Live(s)))
<1> DEFINE Bad == {s \in Seq(Nat) : Live(Aged(s)) # Live(Aged(Live(s)))}
<1>1. SUFFICES ASSUME Bad # {} PROVE FALSE
  OBVIOUS
<1>2. PICK s \in Bad : \/ s = <<>>
                       \/ \E r \in Seq(Nat), a \in Nat : s = Append(r, a) /\ r \notin Bad
  <2>1. Bad \in SUBSET Seq(Nat)
    OBVIOUS
  <2> QED BY <1>1, <2>1, ShortestBad
<1>3. CASE s = <<>>
  <2>1. Aged(<<>>) = <<>>
    <3>1. DOMAIN <<>> = {}
      OBVIOUS
    <3> QED BY <3>1 DEF Aged
  <2> QED BY <1>2, <1>3, <2>1, LiveEmpty
<1>4. ASSUME NEW r \in Seq(Nat), NEW a \in Nat, s = Append(r, a), r \notin Bad PROVE FALSE
  <2>1. Live(Aged(r)) = Live(Aged(Live(r))) /\ Live(Aged(s)) # Live(Aged(Live(s)))
    BY <1>2, <1>4
  <2>2. Live(s) = IF a < Window THEN Append(Live(r), a) ELSE Live(r)
    BY <1>4, LiveAppend
  <2>3. Live(r) \in Seq(Nat)
    <3>1. Live(r) \in Seq(0..(Window - 1)) /\ 0..(Window - 1) \subseteq Nat
      BY LiveKeepsYoung, FrontDoorAssumption
    <3> QED BY <3>1, SeqMonotonic
  <2>4. Older(a) \in Nat /\ (~(a < Window) => Older(a) = a)
    BY AgedAppend
  <2>5. /\ Aged(r) \in Seq(Nat) /\ Aged(Live(r)) \in Seq(Nat)
        /\ Aged(s) = Append(Aged(r), Older(a))
        /\ Aged(Append(Live(r), a)) = Append(Aged(Live(r)), Older(a))
    BY <1>4, <2>3, AgedAppend
  <2>6. /\ Live(Aged(s)) = IF Older(a) < Window THEN Append(Live(Aged(r)), Older(a))
                           ELSE Live(Aged(r))
        /\ Live(Append(Aged(Live(r)), Older(a)))
               = IF Older(a) < Window THEN Append(Live(Aged(Live(r))), Older(a))
                 ELSE Live(Aged(Live(r)))
    BY <2>4, <2>5, LiveAppend
  <2>7. CASE a < Window
    BY <2>1, <2>2, <2>5, <2>6, <2>7
  <2>8. CASE ~(a < Window)
    BY <2>1, <2>2, <2>4, <2>6, <2>8
  <2> QED BY <2>7, <2>8
<1> QED BY <1>2, <1>3, <1>4

-----------------------------------------------------------------------------
(* A limiter's table is a dictionary: a key has one entry at most.         *)

Entries == [key: LimiterKeys, ages: Seq(Nat)]
IsTable(t) ==
    /\ t \in Seq(Entries)
    /\ \A i, j \in 1..Len(t) : t[i].key = t[j].key => i = j

\* Looking a key up.
LEMMA LookUp ==
    ASSUME NEW t, IsTable(t)
    PROVE  /\ Len(t) \in Nat /\ DOMAIN t = 1..Len(t)
           /\ \A i \in 1..Len(t) : /\ t[i] \in Entries
                                   /\ Entry(t, t[i].key) = {i}
                                   /\ Ages(t, t[i].key) = t[i].ages
           /\ \A x : /\ Entry(t, x) = {} => Ages(t, x) = <<>>
                     /\ Entry(t, x) # {} => \E i \in 1..Len(t) : t[i].key = x
                     /\ Ages(t, x) \in Seq(Nat)
<1>1. Len(t) \in Nat /\ DOMAIN t = 1..Len(t) /\ \A i \in 1..Len(t) : t[i] \in Entries
  BY LenProperties, ElementOfSeq DEF IsTable
<1>2. ASSUME NEW i \in 1..Len(t)
      PROVE  Entry(t, t[i].key) = {i} /\ Ages(t, t[i].key) = t[i].ages
  <2>1. Entry(t, t[i].key) = {i}
    BY <1>1 DEF Entry, IsTable
  <2>2. (CHOOSE j \in {i} : TRUE) = i
    OBVIOUS
  <2> QED BY <2>1, <2>2 DEF Ages
<1>3. ASSUME NEW x
      PROVE  /\ Entry(t, x) = {} => Ages(t, x) = <<>>
             /\ Entry(t, x) # {} => \E i \in 1..Len(t) : t[i].key = x
             /\ Ages(t, x) \in Seq(Nat)
  <2>1. Entry(t, x) = {} => Ages(t, x) = <<>> /\ Ages(t, x) \in Seq(Nat)
    BY EmptySeq DEF Ages
  <2>2. Entry(t, x) # {} => \E i \in 1..Len(t) : t[i].key = x
    BY <1>1 DEF Entry
  <2>3. Entry(t, x) # {} => Ages(t, x) \in Seq(Nat)
    BY <1>1, <1>2, <2>2 DEF Entries
  <2> QED BY <2>1, <2>2, <2>3
<1> QED BY <1>1, <1>2, <1>3

\* u is t without a key; the others have what they had.
IsPopped(t, u, key) ==
    /\ IsTable(u)
    /\ Entry(u, key) = {}
    /\ Len(u) = IF Entry(t, key) = {} THEN Len(t) ELSE Len(t) - 1
    /\ \A j \in 1..Len(u) : \E i \in 1..Len(t) : u[j] = t[i]
    /\ \A x : x # key => /\ Ages(u, x) = Ages(t, x)
                         /\ Entry(u, x) = {} <=> Entry(t, x) = {}

LEMMA Popped ==
    ASSUME NEW t, IsTable(t), NEW key
    PROVE  IsPopped(t, Without(t, key), key)
<1>1. CASE Entry(t, key) = {}
  <2>1. Without(t, key) = t
    BY <1>1 DEF Without
  <2> QED BY <1>1, <2>1 DEF IsPopped
<1>2. CASE Entry(t, key) # {}
  <2>1. PICK i \in 1..Len(t) : t[i].key = key
    BY <1>2, LookUp
  <2>2. Entry(t, key) = {i} /\ (CHOOSE j \in {i} : TRUE) = i
    BY <2>1, LookUp
  <2> DEFINE a == SubSeq(t, 1, i - 1)
             b == SubSeq(t, i + 1, Len(t))
             u == a \o b
  <2>3. Without(t, key) = u
    BY <2>2 DEF Without, RemoveAt
  <2>4. /\ Len(t) \in Nat /\ DOMAIN t = 1..Len(t) /\ \A j \in 1..Len(t) : t[j] \in Entries
    BY LookUp
  <2>5. a \in Seq(Entries) /\ Len(a) = i - 1 /\ \A j \in 1..(i - 1) : a[j] = t[j]
    <3>1. 1 \in Int /\ i - 1 \in Int /\ \A j \in 1..(i - 1) : t[j] \in Entries
      BY <2>4
    <3>2. /\ a \in Seq(Entries) /\ Len(a) = IF 1 <= i - 1 THEN (i - 1) - 1 + 1 ELSE 0
          /\ \A j \in 1..((i - 1) - 1 + 1) : a[j] = t[1 + j - 1]
      BY <3>1, SubSeqProperties
    <3> HIDE DEF a
    <3> QED BY <3>2, <2>4
  <2>6. b \in Seq(Entries) /\ Len(b) = Len(t) - i /\ \A j \in 1..(Len(t) - i) : b[j] = t[i + j]
    <3>1. i + 1 \in Int /\ Len(t) \in Int /\ \A j \in (i + 1)..Len(t) : t[j] \in Entries
      BY <2>4
    <3>2. /\ b \in Seq(Entries) /\ Len(b) = IF i + 1 <= Len(t) THEN Len(t) - (i + 1) + 1 ELSE 0
          /\ \A j \in 1..(Len(t) - (i + 1) + 1) : b[j] = t[(i + 1) + j - 1]
      BY <3>1, SubSeqProperties
    <3> HIDE DEF b
    <3>3. Len(b) = Len(t) - i
      <4>1. i \in Nat /\ Len(t) \in Nat /\ i <= Len(t)
        BY <2>4
      <4>2. (IF i + 1 <= Len(t) THEN Len(t) - (i + 1) + 1 ELSE 0) = Len(t) - i
        BY <4>1
      <4> QED BY <3>2, <4>2
    <3>4. \A j \in 1..(Len(t) - i) : j \in 1..(Len(t) - (i + 1) + 1) /\ (i + 1) + j - 1 = i + j
      BY <2>4
    <3>5. \A j \in 1..(Len(t) - i) : b[j] = t[i + j]
      BY <3>2, <3>4
    <3> QED BY <3>2, <3>3, <3>5
  <2>7. /\ u \in Seq(Entries) /\ Len(u) = Len(t) - 1
        /\ \A j \in 1..(Len(t) - 1) : u[j] = IF j <= i - 1 THEN t[j] ELSE t[j + 1]
    <3> HIDE DEF a, b
    <3>1. /\ u \in Seq(Entries) /\ Len(u) = Len(a) + Len(b)
          /\ \A j \in 1..(Len(a) + Len(b)) : u[j] = IF j <= Len(a) THEN a[j] ELSE b[j - Len(a)]
      BY <2>5, <2>6, ConcatProperties
    <3> QED BY <2>4, <2>5, <2>6, <3>1
  <2> HIDE DEF u
  <2>8. \A j \in 1..Len(u) : \E k \in 1..Len(t) : k # i /\ u[j] = t[k]
    BY <2>4, <2>7
  <2>9. \A k \in 1..Len(t) : k # i => \E j \in 1..Len(u) : u[j] = t[k]
    <3>1. ASSUME NEW k \in 1..Len(t), k # i PROVE \E j \in 1..Len(u) : u[j] = t[k]
      <4>1. CASE k < i
        BY <2>4, <2>7, <3>1, <4>1
      <4>2. CASE k > i
        <5>1. k - 1 \in 1..Len(u) /\ u[k - 1] = t[k]
          BY <2>4, <2>7, <3>1, <4>2
        <5> QED BY <5>1
      <4> QED BY <2>4, <3>1, <4>1, <4>2
    <3> QED BY <3>1
  <2>10. IsTable(u)
    <3>1. ASSUME NEW j \in 1..Len(u), NEW k \in 1..Len(u), u[j].key = u[k].key PROVE j = k
      <4> DEFINE f(n) == IF n <= i - 1 THEN n ELSE n + 1
      <4>1. f(j) \in 1..Len(t) /\ f(k) \in 1..Len(t) /\ u[j] = t[f(j)] /\ u[k] = t[f(k)]
        BY <2>4, <2>7
      <4>2. f(j) = f(k)
        BY <3>1, <4>1 DEF IsTable
      <4> QED BY <4>2, <2>4, <2>7
    <3> QED BY <2>7, <3>1 DEF IsTable
  <2>11. Entry(u, key) = {}
    <3>1. SUFFICES ASSUME Entry(u, key) # {} PROVE FALSE
      OBVIOUS
    <3>2. PICK j \in 1..Len(u) : u[j].key = key
      BY <2>10, <3>1, LookUp
    <3>3. PICK k \in 1..Len(t) : k # i /\ u[j] = t[k]
      BY <2>8
    <3> QED BY <2>1, <3>2, <3>3 DEF IsTable
  <2>12. ASSUME NEW x, x # key
         PROVE  Ages(u, x) = Ages(t, x) /\ (Entry(u, x) = {} <=> Entry(t, x) = {})
    <3>1. CASE Entry(t, x) = {}
      <4>1. Entry(u, x) = {}
        <5>1. SUFFICES ASSUME Entry(u, x) # {} PROVE FALSE
          OBVIOUS
        <5>2. PICK j \in 1..Len(u) : u[j].key = x
          BY <2>10, <5>1, LookUp
        <5>3. PICK k \in 1..Len(t) : u[j] = t[k]
          BY <2>8
        <5>4. Entry(t, x) = {k}
          BY <5>2, <5>3, LookUp
        <5> QED BY <3>1, <5>4
      <4> QED BY <2>10, <3>1, <4>1, LookUp
    <3>2. CASE Entry(t, x) # {}
      <4>1. PICK k \in 1..Len(t) : t[k].key = x
        BY <3>2, LookUp
      <4>2. PICK j \in 1..Len(u) : u[j] = t[k]
        BY <2>1, <2>9, <2>12, <4>1
      <4>3. Ages(u, x) = u[j].ages /\ Entry(u, x) = {j}
        <5>1. Ages(u, u[j].key) = u[j].ages /\ Entry(u, u[j].key) = {j}
          BY <2>10, LookUp
        <5> QED BY <4>1, <4>2, <5>1
      <4>4. Ages(t, x) = t[k].ages /\ Entry(t, x) = {k}
        BY <4>1, LookUp
      <4> QED BY <4>2, <4>3, <4>4
    <3> QED BY <3>1, <3>2
  <2> QED BY <1>2, <2>3, <2>7, <2>8, <2>10, <2>11, <2>12 DEF IsPopped
<1> QED BY <1>1, <1>2

\* u is t with `ages` stored for a key at the end; the others have what they had.
IsStored(t, u, key, ages) ==
    /\ IsTable(u)
    /\ Len(u) = IF Entry(t, key) = {} THEN Len(t) + 1 ELSE Len(t)
    /\ Ages(u, key) = ages
    /\ Entry(u, key) # {}
    /\ \A j \in 1..Len(u) : \/ u[j] = [key |-> key, ages |-> ages]
                            \/ \E i \in 1..Len(t) : u[j] = t[i]
    /\ \A x : x # key => /\ Ages(u, x) = Ages(t, x)
                         /\ Entry(u, x) = {} <=> Entry(t, x) = {}

LEMMA Stored ==
    ASSUME NEW t, IsTable(t), NEW key \in LimiterKeys, NEW ages \in Seq(Nat)
    PROVE  IsStored(t, AtEnd(t, key, ages), key, ages)
<1> DEFINE w == Without(t, key)
           e == [key |-> key, ages |-> ages]
           u == Append(w, e)
<1>1. AtEnd(t, key, ages) = u
  BY DEF AtEnd
<1>2. /\ IsTable(w) /\ Entry(w, key) = {}
      /\ Len(w) = IF Entry(t, key) = {} THEN Len(t) ELSE Len(t) - 1
      /\ \A j \in 1..Len(w) : \E i \in 1..Len(t) : w[j] = t[i]
      /\ \A x : x # key => /\ Ages(w, x) = Ages(t, x)
                           /\ Entry(w, x) = {} <=> Entry(t, x) = {}
  <2>1. IsPopped(t, w, key)
    BY Popped
  <2> HIDE DEF w
  <2> QED BY <2>1 DEF IsPopped
<1> HIDE DEF w
<1>3. e \in Entries /\ e.key = key /\ e.ages = ages
  <2>1. e.key = key /\ e.ages = ages
    OBVIOUS
  <2>2. e \in [key: LimiterKeys, ages: Seq(Nat)]
    OBVIOUS
  <2> QED BY <2>1, <2>2 DEF Entries
<1> HIDE DEF e
<1>4. /\ u \in Seq(Entries) /\ Len(u) = Len(w) + 1 /\ Len(w) \in Nat /\ Len(t) \in Nat
      /\ u[Len(w) + 1] = e /\ \A j \in 1..Len(w) : u[j] = w[j]
  <2>1. w \in Seq(Entries) /\ Len(w) \in Nat /\ Len(t) \in Nat
    BY <1>2, LookUp DEF IsTable
  <2> QED BY <1>3, <2>1, AppendProperties
<1> HIDE DEF u
<1>5. ASSUME NEW j \in 1..Len(w) PROVE w[j].key # key
  <2>1. Entry(w, w[j].key) = {j}
    BY <1>2, LookUp
  <2> QED BY <1>2, <2>1
<1>6. \A j \in 1..Len(u) : j \in 1..Len(w) \/ (j = Len(w) + 1 /\ u[j] = e)
  <2>1. ASSUME NEW j \in 1..Len(u) PROVE j \in 1..Len(w) \/ j = Len(w) + 1
    BY <1>4
  <2> QED BY <1>4, <2>1
<1>7. IsTable(u)
  <2>1. ASSUME NEW i \in 1..Len(u), NEW j \in 1..Len(u), u[i].key = u[j].key PROVE i = j
    <3>1. CASE i \in 1..Len(w) /\ j \in 1..Len(w)
      BY <1>2, <1>4, <2>1, <3>1 DEF IsTable
    <3>2. CASE i = Len(w) + 1 /\ j = Len(w) + 1
      BY <3>2
    <3>3. CASE i \in 1..Len(w) /\ j = Len(w) + 1
      BY <1>3, <1>4, <1>5, <2>1, <3>3
    <3>4. CASE i = Len(w) + 1 /\ j \in 1..Len(w)
      BY <1>3, <1>4, <1>5, <2>1, <3>4
    <3> QED BY <1>6, <3>1, <3>2, <3>3, <3>4
  <2> QED BY <1>4, <2>1 DEF IsTable
<1>8. Len(w) + 1 \in 1..Len(u)
  BY <1>4
<1>9. Ages(u, key) = ages /\ Entry(u, key) # {}
  <2>1. Entry(u, e.key) = {Len(w) + 1} /\ Ages(u, e.key) = e.ages
    BY <1>4, <1>7, <1>8, LookUp
  <2> QED BY <1>3, <2>1
<1>10. ASSUME NEW x, x # key
       PROVE  Ages(u, x) = Ages(t, x) /\ (Entry(u, x) = {} <=> Entry(t, x) = {})
  <2>1. Ages(w, x) = Ages(t, x) /\ (Entry(w, x) = {} <=> Entry(t, x) = {})
    BY <1>2, <1>10
  <2>2. CASE Entry(w, x) = {}
    <3>1. Entry(u, x) = {}
      <4>1. SUFFICES ASSUME Entry(u, x) # {} PROVE FALSE
        OBVIOUS
      <4>2. PICK j \in 1..Len(u) : u[j].key = x
        BY <1>7, <4>1, LookUp
      <4>3. j \in 1..Len(w) /\ w[j].key = x
        BY <1>3, <1>4, <1>6, <1>10, <4>2
      <4>4. Entry(w, x) = {j}
        BY <1>2, <4>3, LookUp
      <4> QED BY <2>2, <4>4
    <3>2. Ages(u, x) = <<>> /\ Ages(w, x) = <<>>
      BY <1>2, <1>7, <2>2, <3>1, LookUp
    <3> QED BY <2>1, <2>2, <3>1, <3>2
  <2>3. CASE Entry(w, x) # {}
    <3>1. PICK k \in 1..Len(w) : w[k].key = x
      BY <1>2, <2>3, LookUp
    <3>2. k \in 1..Len(u) /\ u[k] = w[k]
      BY <1>4
    <3>3. Ages(u, x) = w[k].ages /\ Entry(u, x) = {k}
      <4>1. Ages(u, u[k].key) = u[k].ages /\ Entry(u, u[k].key) = {k}
        BY <1>7, <3>2, LookUp
      <4> QED BY <3>1, <3>2, <4>1
    <3>4. Ages(w, x) = w[k].ages
      BY <1>2, <3>1, LookUp
    <3> QED BY <2>1, <2>3, <3>3, <3>4
  <2> QED BY <2>2, <2>3
<1>11. Len(u) = IF Entry(t, key) = {} THEN Len(t) + 1 ELSE Len(t)
  BY <1>2, <1>4
<1>12. \A j \in 1..Len(u) : u[j] = e \/ \E i \in 1..Len(t) : u[j] = t[i]
  BY <1>2, <1>4, <1>6
<1> QED BY <1>1, <1>7, <1>9, <1>10, <1>11, <1>12 DEF e, IsStored

LEMMA LiveTwice ==
    ASSUME NEW s \in Seq(Nat)
    PROVE  Live(s) \in Seq(Nat) /\ Live(Live(s)) = Live(s)
<1>1. Live(s) \in Seq(0..(Window - 1)) /\ Window \in Nat /\ 0..(Window - 1) \subseteq Nat
  BY LiveKeepsYoung, FrontDoorAssumption
<1>2. Live(s) \in Seq(Nat)
  BY <1>1, SeqMonotonic
<1>3. \A i \in 1..Len(Live(s)) : Live(s)[i] < Window
  BY <1>1, ElementOfSeq
<1> QED BY <1>2, <1>3, LiveKeepsYoung

\* Entries d and e are of one key, with the same live hits.
SameEntry(d, e) == d.key = e.key /\ Live(d.ages) = Live(e.ages)

\* Table u holds entries of t, each once, at the places f gives.
Shuffle(t, u, f) ==
    /\ IsTable(t) /\ u \in Seq(Entries)
    /\ f \in [1..Len(u) -> 1..Len(t)]
    /\ \A i, j \in 1..Len(u) : f[i] = f[j] => i = j
    /\ \A j \in 1..Len(u) : SameEntry(u[j], t[f[j]])

LEMMA Shuffled ==
    ASSUME NEW t, NEW u, NEW f, Shuffle(t, u, f)
    PROVE  /\ IsTable(u)
           /\ \A j \in 1..Len(u) : \E i \in 1..Len(t) : SameEntry(u[j], t[i])
           /\ \A x : Entry(t, x) = {} => Entry(u, x) = {}
           /\ \A x : Entry(u, x) # {} => Live(Ages(u, x)) = Live(Ages(t, x))
           /\ \A j \in 1..Len(u) : Entry(u, t[f[j]].key) # {}
<1>1. \A j \in 1..Len(u) : f[j] \in 1..Len(t) /\ SameEntry(u[j], t[f[j]])
  BY DEF Shuffle
<1>2. IsTable(u)
  <2>1. ASSUME NEW i \in 1..Len(u), NEW j \in 1..Len(u), u[i].key = u[j].key PROVE i = j
    <3>1. t[f[i]].key = t[f[j]].key
      BY <1>1, <2>1 DEF SameEntry
    <3>2. f[i] = f[j]
      BY <1>1, <3>1 DEF Shuffle, IsTable
    <3> QED BY <3>2 DEF Shuffle
  <2> QED BY <2>1 DEF Shuffle, IsTable
<1>3. IsTable(t)
  BY DEF Shuffle
<1>4. ASSUME NEW x, Entry(u, x) # {}
      PROVE  Entry(t, x) # {} /\ Live(Ages(u, x)) = Live(Ages(t, x))
  <2>1. PICK j \in 1..Len(u) : u[j].key = x
    BY <1>2, <1>4, LookUp
  <2>2. t[f[j]].key = x /\ f[j] \in 1..Len(t) /\ Live(u[j].ages) = Live(t[f[j]].ages)
    BY <1>1, <2>1 DEF SameEntry
  <2>3. Ages(u, u[j].key) = u[j].ages
    BY <1>2, LookUp
  <2>4. Ages(t, t[f[j]].key) = t[f[j]].ages /\ Entry(t, t[f[j]].key) = {f[j]}
    BY <1>3, <2>2, LookUp
  <2> QED BY <2>1, <2>2, <2>3, <2>4
<1>5. ASSUME NEW j \in 1..Len(u) PROVE Entry(u, t[f[j]].key) # {}
  <2>1. Entry(u, u[j].key) = {j}
    BY <1>2, LookUp
  <2> QED BY <1>1, <2>1 DEF SameEntry
<1> QED BY <1>1, <1>2, <1>4, <1>5

LEMMA PrunedIs ==
    ASSUME NEW e \in Entries
    PROVE  Pruned(e) \in Entries /\ SameEntry(Pruned(e), e) /\ Pruned(e).ages = Live(e.ages)
<1>1. e.key \in LimiterKeys /\ e.ages \in Seq(Nat) /\ e = [key |-> e.key, ages |-> e.ages]
  BY DEF Entries
<1>2. Live(e.ages) \in Seq(Nat) /\ Live(Live(e.ages)) = Live(e.ages)
  BY <1>1, LiveTwice
<1>3. Pruned(e) = [key |-> e.key, ages |-> Live(e.ages)]
  BY <1>1 DEF Pruned
<1>4. [key |-> e.key, ages |-> Live(e.ages)] \in Entries
  BY <1>1, <1>2 DEF Entries
<1> QED BY <1>2, <1>3, <1>4 DEF SameEntry

\* The entries of a table, pruned, from the first to the n-th.
LEMMA PrunedSeq ==
    ASSUME NEW t, IsTable(t), NEW n \in 0..Len(t)
    PROVE  /\ [i \in 1..n |-> Pruned(t[i])] \in Seq(Entries)
           /\ Len([i \in 1..n |-> Pruned(t[i])]) = n
           /\ \A i \in 1..n : [k \in 1..n |-> Pruned(t[k])][i] = Pruned(t[i])
<1> DEFINE p == [i \in 1..n |-> Pruned(t[i])]
<1>1. n \in Nat /\ \A i \in 1..n : t[i] \in Entries
  BY LookUp
<1>2. \A i \in 1..n : Pruned(t[i]) \in Entries
  BY <1>1, PrunedIs
<1>3. p \in [1..n -> Entries]
  BY <1>2
<1>4. p \in Seq(Entries)
  BY <1>1, <1>3, SeqDef
<1>5. Len(p) = n
  <2>1. DOMAIN p = 1..n /\ DOMAIN p = 1..Len(p) /\ Len(p) \in Nat
    BY <1>3, <1>4, LenProperties
  <2> QED BY <1>1, <2>1
<1> QED BY <1>4, <1>5

\* u is t with room made for one; a key that is dropped was dead, unless none was.
IsEvicted(t, u) ==
    /\ IsTable(u)
    /\ Len(u) = Len(t) - 1
    /\ \A j \in 1..Len(u) : \E i \in 1..Len(t) : SameEntry(u[j], t[i])
    /\ \A x : Entry(t, x) = {} => Entry(u, x) = {}
    /\ \A x : Entry(u, x) # {} => Live(Ages(u, x)) = Live(Ages(t, x))
    /\ \A x : Live(Ages(t, x)) # <<>> /\ Entry(u, x) = {} => Dead(t) = {}

LEMMA Evicted ==
    ASSUME NEW t, IsTable(t), Len(t) # 0
    PROVE  IsEvicted(t, Evict(t))
<1> DEFINE L == Len(t)
           u == Evict(t)
<1>1. L \in Nat \ {0} /\ DOMAIN t = 1..L /\ \A i \in 1..L : t[i] \in Entries
  BY LookUp
<1>2. CASE Dead(t) = {}
  <2> DEFINE p == [i \in DOMAIN t |-> Pruned(t[i])]
             f == [j \in 1..(L - 1) |-> j + 1]
  <2>1. p \in Seq(Entries) /\ Len(p) = L /\ \A i \in 1..L : p[i] = Pruned(t[i])
    BY <1>1, PrunedSeq
  <2>2. u = Tail(p)
    BY <1>2 DEF Evict
  <2> HIDE DEF p, u, L
  <2>3. p # <<>>
    BY <1>1, <2>1, EmptySeq
  <2>4. /\ Tail(p) \in Seq(Entries) /\ Len(Tail(p)) = Len(p) - 1
        /\ \A i \in 1..Len(Tail(p)) : Tail(p)[i] = p[i + 1]
    BY <2>1, <2>3, HeadTailProperties
  <2>5. u \in Seq(Entries) /\ Len(u) = L - 1 /\ \A i \in 1..(L - 1) : u[i] = Pruned(t[i + 1])
    <3>1. \A i \in 1..(L - 1) : i + 1 \in 1..L
      BY <1>1
    <3> QED BY <2>1, <2>2, <2>4, <3>1
  <2>6. Shuffle(t, u, f)
    <3>1. \A j \in 1..(L - 1) : j + 1 \in 1..L /\ SameEntry(u[j], t[j + 1])
      BY <1>1, <2>5, PrunedIs
    <3> QED BY <1>1, <2>5, <3>1 DEF Shuffle, L
  <2>7. /\ IsTable(u)
        /\ \A j \in 1..Len(u) : \E i \in 1..Len(t) : SameEntry(u[j], t[i])
        /\ \A x : Entry(t, x) = {} => Entry(u, x) = {}
        /\ \A x : Entry(u, x) # {} => Live(Ages(u, x)) = Live(Ages(t, x))
    BY <2>6, Shuffled
  <2> QED BY <1>2, <2>5, <2>7 DEF u, L, IsEvicted
<1>3. CASE Dead(t) # {}
  <2>1. PICK n \in Dead(t) : \A j \in Dead(t) : n <= j
    <3>1. Dead(t) \in SUBSET Nat
      BY <1>1 DEF Dead
    <3> QED BY <1>3, <3>1, LeastNatural
  <2>2. n \in 1..L /\ Live(t[n].ages) = <<>>
    BY <1>1, <2>1 DEF Dead
  <2>3. (CHOOSE m \in Dead(t) : \A j \in Dead(t) : m <= j) = n
    <3>1. \A m \in Dead(t) : (\A j \in Dead(t) : m <= j) => m = n
      BY <1>1, <2>1 DEF Dead
    <3> QED BY <2>1, <3>1
  <2> DEFINE a == SubSeq(t, n + 1, Len(t))
             b == [i \in 1..(n - 1) |-> Pruned(t[i])]
             f == [j \in 1..(L - 1) |-> IF j <= L - n THEN n + j ELSE j - (L - n)]
  <2>4. u = a \o b
    BY <1>3, <2>3 DEF Evict
  <2>5. a \in Seq(Entries) /\ Len(a) = L - n /\ \A j \in 1..(L - n) : a[j] = t[n + j]
    <3>1. n + 1 \in Int /\ L \in Int /\ \A j \in (n + 1)..L : t[j] \in Entries
      BY <1>1, <2>2
    <3>2. /\ a \in Seq(Entries) /\ Len(a) = IF n + 1 <= L THEN L - (n + 1) + 1 ELSE 0
          /\ \A j \in 1..(L - (n + 1) + 1) : a[j] = t[(n + 1) + j - 1]
      BY <3>1, SubSeqProperties
    <3> HIDE DEF a, L
    <3>3. Len(a) = L - n
      BY <1>1, <2>2, <3>2
    <3>4. \A j \in 1..(L - n) : j \in 1..(L - (n + 1) + 1) /\ (n + 1) + j - 1 = n + j
      BY <1>1, <2>2
    <3>5. \A j \in 1..(L - n) : a[j] = t[n + j]
      BY <3>2, <3>4
    <3> QED BY <3>2, <3>3, <3>5
  <2>6. b \in Seq(Entries) /\ Len(b) = n - 1 /\ \A j \in 1..(n - 1) : b[j] = Pruned(t[j])
    <3>1. n - 1 \in 0..Len(t)
      BY <1>1, <2>2
    <3> QED BY <3>1, PrunedSeq
  <2> HIDE DEF a, b, u, L
  <2>7. /\ u \in Seq(Entries) /\ Len(u) = L - 1
        /\ \A j \in 1..(L - 1) : u[j] = IF j <= L - n THEN a[j] ELSE b[j - (L - n)]
    <3>1. /\ u \in Seq(Entries) /\ Len(u) = Len(a) + Len(b)
          /\ \A j \in 1..(Len(a) + Len(b)) : u[j] = IF j <= Len(a) THEN a[j] ELSE b[j - Len(a)]
      BY <2>4, <2>5, <2>6, ConcatProperties
    <3>2. Len(a) + Len(b) = L - 1
      BY <1>1, <2>2, <2>5, <2>6
    <3> QED BY <2>5, <3>1, <3>2
  <2>8. ASSUME NEW j \in 1..(L - 1)
        PROVE  f[j] \in 1..L /\ f[j] # n /\ SameEntry(u[j], t[f[j]])
    <3>1. CASE j <= L - n
      <4>1. j \in 1..(L - n) /\ f[j] = n + j /\ n + j \in 1..L /\ n + j # n
        BY <1>1, <2>2, <3>1
      <4>2. u[j] = t[n + j]
        BY <2>5, <2>7, <3>1, <4>1
      <4> QED BY <4>1, <4>2 DEF SameEntry
    <3>2. CASE ~(j <= L - n)
      <4>1. /\ j - (L - n) \in 1..(n - 1) /\ f[j] = j - (L - n)
            /\ j - (L - n) \in 1..L /\ j - (L - n) # n
        BY <1>1, <2>2, <3>2
      <4>2. u[j] = Pruned(t[j - (L - n)])
        BY <2>6, <2>7, <3>2, <4>1
      <4>3. SameEntry(Pruned(t[j - (L - n)]), t[j - (L - n)])
        BY <1>1, <4>1, PrunedIs
      <4> QED BY <4>1, <4>2, <4>3
    <3> QED BY <3>1, <3>2
  <2>9. \A i, j \in 1..(L - 1) : f[i] = f[j] => i = j
    BY <1>1, <2>2
  <2>10. \A i \in 1..L : i # n => \E j \in 1..(L - 1) : f[j] = i
    <3>1. ASSUME NEW i \in 1..L, i # n PROVE \E j \in 1..(L - 1) : f[j] = i
      <4>1. CASE i > n
        <5>1. i - n \in 1..(L - 1) /\ f[i - n] = i
          BY <1>1, <2>2, <4>1
        <5> QED BY <5>1
      <4>2. CASE i < n
        <5>1. i + (L - n) \in 1..(L - 1) /\ f[i + (L - n)] = i
          BY <1>1, <2>2, <4>2
        <5> QED BY <5>1
      <4> QED BY <1>1, <2>2, <3>1, <4>1, <4>2
    <3> QED BY <3>1
  <2>11. f \in [1..(L - 1) -> 1..L]
    BY <2>8
  <2> HIDE DEF f
  <2>12. Shuffle(t, u, f)
    BY <2>7, <2>8, <2>9, <2>11 DEF Shuffle, L
  <2>13. /\ IsTable(u)
         /\ \A j \in 1..Len(u) : \E i \in 1..Len(t) : SameEntry(u[j], t[i])
         /\ \A x : Entry(t, x) = {} => Entry(u, x) = {}
         /\ \A x : Entry(u, x) # {} => Live(Ages(u, x)) = Live(Ages(t, x))
         /\ \A j \in 1..Len(u) : Entry(u, t[f[j]].key) # {}
    BY <2>12, Shuffled
  <2>14. ASSUME NEW x, Live(Ages(t, x)) # <<>> PROVE Entry(u, x) # {}
    <3>1. Entry(t, x) # {}
      BY <2>14, LookUp, LiveEmpty
    <3>2. PICK i \in 1..Len(t) : t[i].key = x
      BY <3>1, LookUp
    <3>3. Ages(t, t[i].key) = t[i].ages
      BY LookUp
    <3>4. i # n
      BY <2>2, <2>14, <3>2, <3>3
    <3>5. PICK j \in 1..(L - 1) : f[j] = i
      BY <2>10, <3>4 DEF L
    <3> QED BY <2>7, <2>13, <3>2, <3>5
  <2> QED BY <2>7, <2>13, <2>14 DEF u, L, IsEvicted
<1> QED BY <1>2, <1>3

\* u is t with a key pruned: nobody gains or loses a live hit.
IsPruned(t, u, key) ==
    /\ IsTable(u)
    /\ Len(u) <= Len(t)
    /\ Ages(u, key) = Live(Ages(t, key))
    /\ Live(Ages(t, key)) # <<>> => Entry(u, key) # {}
    /\ \A x : x # key => /\ Ages(u, x) = Ages(t, x)
                         /\ Entry(u, x) = {} <=> Entry(t, x) = {}

LEMMA KeyPruned ==
    ASSUME NEW t, IsTable(t), NEW key \in LimiterKeys
    PROVE  IsPruned(t, PruneKey(t, key), key)
<1> DEFINE u == PruneKey(t, key)
           l == Live(Ages(t, key))
<1>1. Len(t) \in Nat /\ Ages(t, key) \in Seq(Nat) /\ l \in Seq(Nat) /\ Live(l) = l
  BY LookUp, LiveTwice
<1> HIDE DEF u, l
<1>2. CASE l = <<>>
  <2>1. IsPopped(t, u, key)
    <3>1. u = Without(t, key)
      BY <1>2 DEF PruneKey, u, l
    <3> QED BY <3>1, Popped
  <2>2. Ages(u, key) = <<>> /\ Len(u) <= Len(t)
    BY <1>1, <2>1, LookUp DEF IsPopped
  <2> QED BY <1>2, <2>1, <2>2 DEF IsPopped, IsPruned, u, l
<1>3. CASE l # <<>>
  <2>1. IsStored(t, u, key, l)
    <3>1. u = AtEnd(t, key, l)
      BY <1>3 DEF PruneKey, u, l
    <3> QED BY <1>1, <3>1, Stored
  <2>2. Entry(t, key) # {}
    BY <1>3, LookUp, LiveEmpty DEF l
  <2>3. Len(u) <= Len(t)
    BY <1>1, <2>1, <2>2 DEF IsStored
  <2> QED BY <2>1, <2>3 DEF IsStored, IsPruned, u, l
<1> QED BY <1>2, <1>3

\* A table a limiter may have: a dictionary that is not too large.
Fits(t) == IsTable(t) /\ Len(t) <= MaxKeys

Forgets(t, u, x) == Live(Ages(t, x)) # <<>> /\ Entry(u, x) = {}
AllLive(u) == \A i \in 1..Len(u) : Live(u[i].ages) # <<>>

\* One call of allow on a limiter's table.
LEMMA Allowed ==
    ASSUME NEW l \in DOMAIN Cap, NEW key \in LimiterKeys, Fits(hits[l])
    PROVE  LET t == hits[l]
               a == Allow(l, key)
           IN  /\ Fits(a.table) /\ a.ok \in BOOLEAN
               /\ a.ok => /\ Len(Live(Ages(t, key))) < Cap[l]
                          /\ Live(Ages(a.table, key)) = Append(Live(Ages(t, key)), 0)
               /\ ~a.ok => Live(Ages(a.table, key)) = Live(Ages(t, key))
               /\ \A x : x # key => \/ Live(Ages(a.table, x)) = Live(Ages(t, x))
                                    \/ Live(Ages(a.table, x)) = <<>>
               /\ \A x : Forgets(t, a.table, x)
                         => Len(a.table) = MaxKeys /\ AllLive(a.table)
<1> DEFINE t  == hits[l]
           t1 == PruneKey(t, key)
           full == Len(t1) >= MaxKeys /\ Entry(t1, key) = {}
           t2 == IF full THEN Evict(t1) ELSE t1
           mine == Ages(t2, key)
           u == AtEnd(t2, key, Append(mine, 0))
           a == Allow(l, key)
<1>1. a = IF Len(mine) >= Cap[l] THEN [ok |-> FALSE, table |-> t2]
          ELSE [ok |-> TRUE, table |-> u]
  BY DEF Allow
<1>2. MaxKeys \in Nat \ {0} /\ Cap[l] \in Nat \ {0} /\ Window \in Nat \ {0}
  BY FrontDoorAssumption
<1>3. IsTable(t) /\ Len(t) <= MaxKeys /\ Len(t) \in Nat /\ \A x : Ages(t, x) \in Seq(Nat)
  BY LookUp DEF Fits
<1> HIDE DEF a, t
<1>4. /\ IsTable(t1) /\ Len(t1) <= Len(t) /\ Ages(t1, key) = Live(Ages(t, key))
      /\ Live(Ages(t, key)) # <<>> => Entry(t1, key) # {}
  BY <1>3, KeyPruned DEF IsPruned
<1>5. \A x : x # key => Ages(t1, x) = Ages(t, x) /\ (Entry(t1, x) = {} <=> Entry(t, x) = {})
  BY <1>3, KeyPruned DEF IsPruned
<1> HIDE DEF t1
<1>6. Len(t1) \in Nat /\ Len(t1) <= MaxKeys
  BY <1>2, <1>3, <1>4, LookUp
<1>7. \A x : Live(Ages(t1, x)) = Live(Ages(t, x))
  BY <1>3, <1>4, <1>5, LiveTwice
\* What the second table is, when the first one is full and when it is not.
<1>8. ASSUME full
      PROVE  /\ IsTable(t2) /\ Len(t1) = MaxKeys /\ Len(t2) = MaxKeys - 1
             /\ Entry(t2, key) = {} /\ mine = <<>> /\ Live(Ages(t, key)) = <<>>
             /\ \A x : Entry(t2, x) # {} => Live(Ages(t2, x)) = Live(Ages(t1, x))
             /\ \A x : Live(Ages(t1, x)) # <<>> /\ Entry(t2, x) = {} => Dead(t1) = {}
             /\ \A j \in 1..Len(t2) : \E i \in 1..Len(t1) : SameEntry(t2[j], t1[i])
  <2>1. t2 = Evict(t1) /\ Len(t1) = MaxKeys /\ Len(t1) # 0 /\ Entry(t1, key) = {}
    BY <1>2, <1>6, <1>8
  <2>2. IsEvicted(t1, t2)
    BY <1>4, <2>1, Evicted
  <2> HIDE DEF t2
  <2>3. IsTable(t2) /\ Entry(t2, key) = {}
    BY <2>1, <2>2 DEF IsEvicted
  <2>4. Ages(t2, key) = <<>>
    BY <2>3, LookUp
  <2>5. Live(Ages(t, key)) = <<>>
    BY <1>4, <2>1
  <2> QED BY <2>1, <2>2, <2>3, <2>4, <2>5 DEF IsEvicted
<1>9. ASSUME ~full PROVE t2 = t1 /\ mine = Live(Ages(t, key))
  BY <1>4, <1>9
<1>10. IsTable(t2) /\ Len(t2) \in Nat /\ Len(t2) <= MaxKeys
  BY <1>2, <1>4, <1>6, <1>8, <1>9
<1>11. mine = Live(Ages(t, key)) /\ mine \in Seq(Nat) /\ Live(mine) = mine
  <2>1. mine = Live(Ages(t, key))
    BY <1>8, <1>9
  <2> HIDE DEF mine
  <2> QED BY <1>3, <2>1, LiveTwice
<1>12. \A x : Live(Ages(t2, x)) = Live(Ages(t, x)) \/ Live(Ages(t2, x)) = <<>>
  <2>1. CASE full
    <3>1. \A x : Entry(t2, x) = {} => Live(Ages(t2, x)) = <<>>
      BY <1>8, <2>1, LookUp, LiveEmpty
    <3> QED BY <1>7, <1>8, <2>1, <3>1
  <2>2. CASE ~full
    BY <1>7, <1>9, <2>2
  <2> QED BY <2>1, <2>2
<1> HIDE DEF t2, u
<1>13. Append(mine, 0) \in Seq(Nat) /\ Live(Append(mine, 0)) = Append(mine, 0)
       /\ Append(mine, 0) # <<>>
  <2>1. 0 \in Nat /\ 0 < Window
    BY <1>2
  <2> HIDE DEF mine
  <2> QED BY <1>11, <2>1, LiveAppend, AppendProperties
<1>14. IsStored(t2, u, key, Append(mine, 0))
  <2> HIDE DEF mine
  <2> QED BY <1>10, <1>13, Stored DEF u
<1>15. Len(u) <= MaxKeys
  <2>1. CASE full
    BY <1>2, <1>8, <1>14, <2>1 DEF IsStored
  <2>2. CASE ~full
    BY <1>2, <1>6, <1>9, <1>14, <2>2 DEF IsStored
  <2> QED BY <2>1, <2>2
<1>16. Fits(a.table) /\ a.ok \in BOOLEAN
  BY <1>1, <1>10, <1>14, <1>15 DEF Fits, IsStored
<1>17. a.ok => /\ Len(Live(Ages(t, key))) < Cap[l]
               /\ Live(Ages(a.table, key)) = Append(Live(Ages(t, key)), 0)
  <2>1. Len(mine) \in Nat
    BY <1>11, LenProperties
  <2>2. ASSUME a.ok PROVE ~(Len(mine) >= Cap[l]) /\ a.table = u
    BY <1>1, <2>2
  <2> HIDE DEF mine
  <2>3. Ages(u, key) = Append(mine, 0)
    BY <1>14 DEF IsStored
  <2>4. a.ok => Len(mine) < Cap[l]
    BY <1>2, <2>1, <2>2
  <2>5. a.ok => Live(Ages(a.table, key)) = Append(mine, 0)
    BY <1>13, <2>2, <2>3
  <2> QED BY <1>11, <2>4, <2>5
<1>18. ~a.ok => Live(Ages(a.table, key)) = Live(Ages(t, key))
  BY <1>1, <1>11
<1>19. \A x : x # key => \/ Live(Ages(a.table, x)) = Live(Ages(t, x))
                         \/ Live(Ages(a.table, x)) = <<>>
  BY <1>1, <1>12, <1>14 DEF IsStored
<1>20. ASSUME NEW x, Forgets(t, a.table, x)
       PROVE  Len(a.table) = MaxKeys /\ AllLive(a.table)
  <2>1. Live(Ages(t, x)) # <<>> /\ Entry(a.table, x) = {}
    BY <1>20 DEF Forgets
  <2>2. Entry(t1, x) # {}
    <3>1. CASE x = key
      BY <1>4, <2>1, <3>1
    <3>2. CASE x # key
      BY <1>3, <1>5, <2>1, <3>2, LookUp, LiveEmpty
    <3> QED BY <3>1, <3>2
  <2>3. Entry(t2, x) = {}
    BY <1>1, <1>14, <2>1 DEF IsStored
  <2>4. full
    BY <1>9, <2>2, <2>3
  <2>5. Dead(t1) = {} /\ Len(t2) = MaxKeys - 1 /\ Entry(t2, key) = {} /\ mine = <<>>
    BY <1>7, <1>8, <2>1, <2>3, <2>4
  <2>6. a.table = u /\ Len(u) = MaxKeys
    <3>1. Len(mine) = 0
      BY <2>5
    <3> QED BY <1>1, <1>2, <1>14, <2>5, <3>1 DEF IsStored
  <2>7. \A i \in 1..Len(t1) : Live(t1[i].ages) # <<>>
    BY <1>4, <2>5, LookUp DEF Dead
  <2>8. \A i \in 1..Len(t2) : Live(t2[i].ages) # <<>>
    BY <1>8, <2>4, <2>7 DEF SameEntry
  <2>9. ASSUME NEW j \in 1..Len(u) PROVE Live(u[j].ages) # <<>>
    <3>1. CASE u[j] = [key |-> key, ages |-> Append(mine, 0)]
      BY <1>13, <3>1
    <3>2. CASE \E i \in 1..Len(t2) : u[j] = t2[i]
      BY <2>8, <3>2
    <3> QED BY <1>14, <3>1, <3>2 DEF IsStored
  <2> QED BY <2>6, <2>9 DEF AllLive
<1> QED BY <1>16, <1>17, <1>18, <1>19, <1>20 DEF a, t

-----------------------------------------------------------------------------
(* The budgets.  What the history keeps of a client is what the limiter's  *)
(* table says of it; so the budget that allow checks on the table bounds   *)
(* what was let in.                                                        *)

Accounts(t) == [x \in LimiterKeys |-> Live(Ages(t, x))]

BudgetInv ==
    /\ hits = [l \in DOMAIN Cap |-> hits[l]]
    /\ \A l \in DOMAIN Cap : Fits(hits[l])
    /\ started = [l \in DOMAIN Cap |-> Accounts(hits[l])]
    /\ WindowKept

LEMMA KindFacts ==
    \A k \in Kind, w \in Client :
        /\ Kinds[k].limiter \in DOMAIN Cap \cup {"none"}
        /\ Kinds[k].when = "first" \/ Kinds[k].body
        /\ Key(w, k) \in LimiterKeys
<1>1. \A k \in DOMAIN Kinds : Kinds[k].when = "first" \/ Kinds[k].body
  BY DEF Kinds
<1>2. \A k \in Kind, w \in Client : Key(w, k) \in LimiterKeys
  BY DEF Key, LimiterKeys
<1> QED BY <1>1, <1>2, LimiterAssumption

LEMMA BudgetInit == Init => BudgetInv
<1> SUFFICES ASSUME Init PROVE BudgetInv
  OBVIOUS
<1>2. <<>> \in Seq(Entries) /\ Len(<<>>) = 0
  BY EmptySeq
<1>3. Fits(<<>>) /\ IsTable(<<>>)
  BY <1>2, FrontDoorAssumption DEF Fits, IsTable
<1>4. \A x : Live(Ages(<<>>, x)) = <<>>
  <2>1. \A x : Entry(<<>>, x) = {}
    BY <1>2 DEF Entry
  <2> QED BY <1>3, <2>1, LookUp, LiveEmpty
<1>5. hits = [l \in DOMAIN Cap |-> <<>>]
  BY DEF Init
<1>6. started = [l \in DOMAIN Cap |-> [x \in LimiterKeys |-> <<>>]]
  BY DEF Init
<1>7. Accounts(<<>>) = [x \in LimiterKeys |-> <<>>]
  BY <1>4 DEF Accounts
<1>8. \A l \in DOMAIN Cap : started[l] = Accounts(hits[l])
  BY <1>5, <1>6, <1>7
<1>9. WindowKept
  BY <1>2, <1>6, FrontDoorAssumption DEF WindowKept
<1> QED BY <1>3, <1>5, <1>6, <1>8, <1>9 DEF BudgetInv

\* A step that does not touch the limiters.
LEMMA BudgetUntouched ==
    ASSUME BudgetInv, UNCHANGED <<hits, started>>
    PROVE  BudgetInv'
BY DEF BudgetInv, WindowKept

\* A request is charged to its limiter.
LEMMA ChargeKeeps ==
    ASSUME BudgetInv, NEW c \in Conn, NEW w \in Client, NEW k \in Kind,
           NEW turn \in {"work", "body"}, Kinds[k].limiter # "none", Charge(c, w, k, turn)
    PROVE  BudgetInv'
<1> DEFINE l == Kinds[k].limiter
           key == Key(w, k)
           t == hits[l]
           a == Allow(l, key)
<1>1. l \in DOMAIN Cap /\ key \in LimiterKeys
  BY KindFacts
<1>2. /\ hits' = [hits EXCEPT ![l] = a.table]
      /\ started' = [started EXCEPT ![l] = Noted(l, key, a.ok, a.table)]
  BY DEF Charge
<1> HIDE DEF l, key
<1>4. Fits(t) /\ IsTable(t)
  BY <1>1 DEF BudgetInv, Fits
<1>5. /\ Fits(a.table) /\ a.ok \in BOOLEAN
      /\ a.ok => /\ Len(Live(Ages(t, key))) < Cap[l]
                 /\ Live(Ages(a.table, key)) = Append(Live(Ages(t, key)), 0)
      /\ ~a.ok => Live(Ages(a.table, key)) = Live(Ages(t, key))
      /\ \A x : x # key => \/ Live(Ages(a.table, x)) = Live(Ages(t, x))
                           \/ Live(Ages(a.table, x)) = <<>>
  BY <1>1, <1>4, Allowed
<1>6. \A x : Ages(t, x) \in Seq(Nat) /\ Live(Ages(t, x)) \in Seq(Nat)
  BY <1>4, LookUp, LiveTwice
<1>7. \A x \in LimiterKeys : started[l][x] = Live(Ages(t, x)) /\ Len(started[l][x]) <= Cap[l]
  BY <1>1 DEF BudgetInv, Accounts, WindowKept
<1> HIDE DEF a, t
<1>8. Append(Live(Ages(t, key)), 0) # <<>>
      /\ Len(Append(Live(Ages(t, key)), 0)) = Len(Live(Ages(t, key))) + 1
  BY <1>6, AppendProperties
<1>9. ASSUME NEW x \in LimiterKeys
      PROVE  Noted(l, key, a.ok, a.table)[x] = Live(Ages(a.table, x))
  <2> DEFINE kept == IF HasLive(hits[l], x) /\ ~HasLive(a.table, x) THEN <<>>
                     ELSE started[l][x]
  <2>1. Noted(l, key, a.ok, a.table)[x] = IF x = key /\ a.ok THEN Append(kept, 0) ELSE kept
    BY DEF Noted
  <2>2. kept = IF Live(Ages(t, x)) # <<>> /\ Live(Ages(a.table, x)) = <<>> THEN <<>>
               ELSE Live(Ages(t, x))
    BY <1>7 DEF HasLive, t
  <2> HIDE DEF kept
  <2>3. CASE x = key /\ a.ok
    BY <1>5, <1>8, <2>1, <2>2, <2>3
  <2>4. CASE x = key /\ ~a.ok
    BY <1>5, <2>1, <2>2, <2>4
  <2>5. CASE x # key
    BY <1>5, <2>1, <2>2, <2>5
  <2> QED BY <2>3, <2>4, <2>5
<1>10. Noted(l, key, a.ok, a.table) = Accounts(a.table)
  BY <1>9 DEF Noted, Accounts
<1>11. ASSUME NEW x \in LimiterKeys PROVE Len(Live(Ages(a.table, x))) <= Cap[l]
  <2>1. Cap[l] \in Nat /\ Len(Live(Ages(t, x))) \in Nat /\ Len(<<>>) = 0
    BY <1>1, <1>6, LenProperties, FrontDoorAssumption
  <2>2. CASE x = key /\ a.ok
    BY <1>5, <1>8, <2>1, <2>2
  <2>3. CASE Live(Ages(a.table, x)) = Live(Ages(t, x))
    BY <1>7, <2>3
  <2>4. CASE Live(Ages(a.table, x)) = <<>>
    BY <2>1, <2>4
  <2> QED BY <1>5, <2>2, <2>3, <2>4
<1>12. /\ hits' = [m \in DOMAIN Cap |-> hits'[m]] /\ hits'[l] = a.table
       /\ \A m \in DOMAIN Cap : m # l => hits'[m] = hits[m]
  BY <1>1, <1>2 DEF BudgetInv
<1>13. started' = [m \in DOMAIN Cap |-> Accounts(hits'[m])]
  BY <1>1, <1>2, <1>10, <1>12 DEF BudgetInv
<1>14. \A m \in DOMAIN Cap : Fits(hits'[m])
  BY <1>5, <1>12 DEF BudgetInv
<1>15. ASSUME NEW m \in DOMAIN Cap, NEW x \in LimiterKeys PROVE Len(started'[m][x]) <= Cap[m]
  <2>1. CASE m = l
    <3>1. started'[m][x] = Live(Ages(a.table, x))
      BY <1>12, <1>13, <2>1 DEF Accounts
    <3> QED BY <1>11, <2>1, <3>1
  <2>2. CASE m # l
    <3>1. started'[m][x] = started[m][x]
      BY <1>12, <1>13, <2>2 DEF BudgetInv
    <3> QED BY <3>1 DEF BudgetInv, WindowKept
  <2> QED BY <2>1, <2>2
<1>16. WindowKept'
  BY <1>15 DEF WindowKept
<1> QED BY <1>12, <1>13, <1>14, <1>16 DEF BudgetInv

\* Time passes: everybody's hits grow older alike.
AgedTable(t) == [i \in DOMAIN t |-> [t[i] EXCEPT !.ages = Aged(@)]]

LEMMA AgedTables ==
    ASSUME NEW t, Fits(t)
    PROVE  Fits(AgedTable(t)) /\ \A x : Ages(AgedTable(t), x) = Aged(Ages(t, x))
<1> DEFINE u == AgedTable(t)
<1>1. IsTable(t) /\ Len(t) <= MaxKeys /\ Len(t) \in Nat /\ DOMAIN t = 1..Len(t)
  BY LookUp DEF Fits
<1>2. ASSUME NEW i \in 1..Len(t)
      PROVE  /\ u[i] \in Entries /\ u[i].key = t[i].key
             /\ u[i].ages = Aged(t[i].ages)
  <2>1. t[i].key \in LimiterKeys /\ t[i].ages \in Seq(Nat)
        /\ t[i] = [key |-> t[i].key, ages |-> t[i].ages]
    <3>1. t[i] \in Entries
      BY <1>1, LookUp
    <3> QED BY <3>1 DEF Entries
  <2>2. Aged(t[i].ages) \in Seq(Nat)
    BY <2>1, AgedAppend
  <2>3. u[i] = [key |-> t[i].key, ages |-> Aged(t[i].ages)]
    BY <1>1, <2>1 DEF AgedTable
  <2>4. [key |-> t[i].key, ages |-> Aged(t[i].ages)] \in Entries
    BY <2>1, <2>2 DEF Entries
  <2> QED BY <2>3, <2>4
<1>3. u \in Seq(Entries) /\ Len(u) = Len(t)
  <2>1. u \in [1..Len(t) -> Entries]
    BY <1>1, <1>2 DEF AgedTable
  <2> HIDE DEF u
  <2>2. u \in Seq(Entries)
    BY <1>1, <2>1, SeqDef
  <2>3. DOMAIN u = 1..Len(t) /\ DOMAIN u = 1..Len(u) /\ Len(u) \in Nat
    BY <2>1, <2>2, LenProperties
  <2> QED BY <1>1, <2>2, <2>3
<1> HIDE DEF u
<1>4. IsTable(u)
  BY <1>1, <1>2, <1>3 DEF IsTable
<1>5. ASSUME NEW x PROVE Ages(u, x) = Aged(Ages(t, x))
  <2>1. CASE Entry(t, x) = {}
    <3>1. Entry(u, x) = {}
      <4>1. SUFFICES ASSUME Entry(u, x) # {} PROVE FALSE
        OBVIOUS
      <4>2. PICK i \in 1..Len(u) : u[i].key = x
        BY <1>4, <4>1, LookUp
      <4>3. i \in 1..Len(t) /\ t[i].key = x
        BY <1>2, <1>3, <4>2
      <4>4. Entry(t, t[i].key) = {i}
        BY <1>1, <4>3, LookUp
      <4> QED BY <2>1, <4>3, <4>4
    <3>2. Aged(<<>>) = <<>>
      <4>1. DOMAIN <<>> = {}
        OBVIOUS
      <4> QED BY <4>1 DEF Aged
    <3> QED BY <1>1, <1>4, <2>1, <3>1, <3>2, LookUp
  <2>2. CASE Entry(t, x) # {}
    <3>1. PICK i \in 1..Len(t) : t[i].key = x
      BY <1>1, <2>2, LookUp
    <3>2. Ages(t, t[i].key) = t[i].ages
      BY <1>1, LookUp
    <3>3. Ages(u, u[i].key) = u[i].ages
      BY <1>3, <1>4, LookUp
    <3> QED BY <1>2, <3>1, <3>2, <3>3
  <2> QED BY <2>1, <2>2
<1> QED BY <1>1, <1>3, <1>4, <1>5 DEF Fits, u

LEMMA TickKeeps ==
    ASSUME BudgetInv, Tick
    PROVE  BudgetInv'
<1>1. hits' = [l \in DOMAIN Cap |-> AgedTable(hits[l])]
  BY DEF Tick, AgedTable, Aged
<1>2. started' = [l \in DOMAIN Cap |-> [x \in LimiterKeys |-> Live(Aged(started[l][x]))]]
  BY DEF Tick, Aged
<1>3. ASSUME NEW l \in DOMAIN Cap
      PROVE  /\ Fits(hits'[l])
             /\ started'[l] = Accounts(hits'[l])
             /\ \A x \in LimiterKeys : Len(started'[l][x]) <= Cap[l]
  <2> DEFINE t == hits[l]
  <2>1. Fits(t) /\ IsTable(t) /\ hits'[l] = AgedTable(t)
    BY <1>1 DEF BudgetInv, Fits
  <2> HIDE DEF t
  <2>2. Fits(AgedTable(t)) /\ \A x : Ages(AgedTable(t), x) = Aged(Ages(t, x))
    BY <2>1, AgedTables
  <2>3. ASSUME NEW x \in LimiterKeys
        PROVE  /\ started'[l][x] = Live(Ages(hits'[l], x))
               /\ Len(started'[l][x]) <= Cap[l]
    <3> DEFINE s == Live(Ages(t, x))
    <3>1. Ages(t, x) \in Seq(Nat) /\ s \in Seq(Nat)
      BY <2>1, LookUp, LiveTwice
    <3>2. started[l][x] = s /\ Len(s) <= Cap[l] /\ Cap[l] \in Nat
      BY FrontDoorAssumption DEF BudgetInv, Accounts, WindowKept, t
    <3>3. started'[l][x] = Live(Aged(s))
      BY <1>2, <3>2
    <3>4. Live(Aged(s)) = Live(Aged(Ages(t, x)))
      BY <3>1, LiveAged
    <3> HIDE DEF s
    <3>5. Aged(s) \in Seq(Nat) /\ Len(Aged(s)) = Len(s) /\ Len(s) \in Nat
      BY <3>1, AgedAppend, LenProperties
    <3>6. Len(Live(Aged(s))) <= Len(s) /\ Len(Live(Aged(s))) \in Nat
      <4>1. Live(Aged(s)) \in Seq(Nat)
        BY <3>5, LiveTwice
      <4> QED BY <3>5, <4>1, LiveKeepsYoung, LenProperties
    <3> QED BY <2>1, <2>2, <3>2, <3>3, <3>4, <3>5, <3>6
  <2>4. started'[l] = Accounts(hits'[l])
    BY <1>2, <2>3 DEF Accounts
  <2> QED BY <2>1, <2>2, <2>3, <2>4
<1>4. started' = [l \in DOMAIN Cap |-> Accounts(hits'[l])]
  BY <1>2, <1>3
<1> QED BY <1>1, <1>3, <1>4 DEF BudgetInv, WindowKept

\* A request whose line and headers are in is charged now, or its body is still
\* to come.
LEMMA DispatchKeeps ==
    ASSUME BudgetInv, NEW c \in Conn, NEW w \in Client, NEW k \in Kind, Dispatch(c, w, k)
    PROVE  BudgetInv'
<1> DEFINE turn == IF Kinds[k].body THEN "body" ELSE "work"
<1>1. CASE Kinds[k].limiter # "none" /\ Kinds[k].when = "first"
  <2>1. Charge(c, w, k, turn) /\ turn \in {"work", "body"}
    BY <1>1 DEF Dispatch
  <2> QED BY <1>1, <2>1, ChargeKeeps
<1>2. CASE ~(Kinds[k].limiter # "none" /\ Kinds[k].when = "first")
  <2>1. Pass(c, w, k, turn)
    BY <1>2 DEF Dispatch
  <2>2. Kinds[k].limiter = "none" \/ turn = "body"
    BY <1>2, KindFacts
  <2>3. UNCHANGED <<hits, started>>
    BY <2>1, <2>2 DEF Pass
  <2> QED BY <2>3, BudgetUntouched
<1> QED BY <1>1, <1>2

LEMMA ReadKeeps ==
    ASSUME SlotInv, BudgetInv, NEW c \in Conn, ReadBody(c)
    PROVE  BudgetInv'
<1>1. conn[c].who \in Client /\ conn[c].kind \in Kind
  BY DEF ReadBody, SlotInv, Threads
<1>2. \/ /\ Kinds[conn[c].kind].limiter # "none"
         /\ Charge(c, conn[c].who, conn[c].kind, "work")
      \/ UNCHANGED <<hits, started>>
  BY DEF ReadBody
<1> QED BY <1>1, <1>2, ChargeKeeps, BudgetUntouched

\* The connections' other steps leave the limiters alone.
OtherSteps(c) ==
    \/ Accept(c) \/ StartThread(c) \/ StartFails(c) \/ Silence(c) \/ Answer(c)
    \/ Release(c) \/ Refuse(c) \/ Drip(c) \/ BodyRefused(c) \/ Raise(c) \/ Gone(c)

LEMMA BudgetStep == SlotInv /\ BudgetInv /\ [Next]_vars => BudgetInv'
<1> SUFFICES ASSUME SlotInv, BudgetInv, [Next]_vars PROVE BudgetInv'
  OBVIOUS
<1>1. ASSUME NEW c \in Conn, OtherSteps(c) PROVE BudgetInv'
  <2>1. UNCHANGED <<hits, started>>
    BY <1>1 DEF OtherSteps, Accept, StartThread, StartFails, Silence, Answer, Release, Refuse,
                Drip, BodyRefused, Raise, Gone
  <2> QED BY <2>1, BudgetUntouched
<1>2. ASSUME NEW c \in Conn, NEW w \in Client, NEW k \in Kind, Dispatch(c, w, k) PROVE BudgetInv'
  BY <1>2, DispatchKeeps
<1>3. ASSUME NEW c \in Conn, ReadBody(c) PROVE BudgetInv'
  BY <1>3, ReadKeeps
<1>4. CASE Tick
  BY <1>4, TickKeeps
<1>5. CASE UNCHANGED vars
  BY <1>5, BudgetUntouched DEF vars
<1> QED BY <1>1, <1>2, <1>3, <1>4, <1>5 DEF Next, OtherSteps

\* In any window a client is let in at most Cap times by a limiter, whatever
\* requests it mixes, however many clients there are and however full the table.
THEOREM BudgetsHold == Spec => []WindowKept
<1>1. BudgetInv => WindowKept
  BY DEF BudgetInv
<1>2. Init => SlotInv /\ BudgetInv
  BY SlotInit, BudgetInit
<1>3. SlotInv /\ BudgetInv /\ [Next]_vars => (SlotInv /\ BudgetInv)'
  BY SlotStep, BudgetStep
<1> QED BY <1>1, <1>2, <1>3, PTL DEF Spec

-----------------------------------------------------------------------------
(* What a full table forgets.                                              *)

ForgetsRightly ==
    \A l \in DOMAIN Cap, key \in LimiterKeys :
        HasLive(hits[l], key) /\ Entry(hits'[l], key) = {}
        => /\ Len(hits'[l]) = MaxKeys
           /\ \A i \in DOMAIN hits'[l] : Live(hits'[l][i].ages) # <<>>

\* No key that has live hits is dropped while nothing is charged.
LEMMA NothingForgotten ==
    ASSUME BudgetInv, NEW l \in DOMAIN Cap, NEW x,
           HasLive(hits[l], x), Entry(hits[l], x) = {}
    PROVE  FALSE
<1>1. Ages(hits[l], x) = <<>>
  BY DEF Ages
<1> QED BY <1>1, LiveEmpty DEF HasLive

LEMMA ChargeForgets ==
    ASSUME BudgetInv, NEW c \in Conn, NEW w \in Client, NEW k \in Kind, NEW turn,
           Kinds[k].limiter # "none", Charge(c, w, k, turn)
    PROVE  ForgetsRightly
<1> DEFINE n == Kinds[k].limiter
           a == Allow(n, Key(w, k))
<1>1. n \in DOMAIN Cap /\ Key(w, k) \in LimiterKeys
  BY KindFacts
<1>2. hits' = [hits EXCEPT ![n] = a.table]
  BY DEF Charge
<1>3. Fits(hits[n])
  BY <1>1 DEF BudgetInv
<1>4. /\ Fits(a.table)
      /\ \A x : Forgets(hits[n], a.table, x) => Len(a.table) = MaxKeys /\ AllLive(a.table)
  BY <1>1, <1>3, Allowed
<1> HIDE DEF n, a
<1>5. SUFFICES ASSUME NEW l \in DOMAIN Cap, NEW x \in LimiterKeys,
                      HasLive(hits[l], x), Entry(hits'[l], x) = {}
               PROVE  /\ Len(hits'[l]) = MaxKeys
                      /\ \A i \in DOMAIN hits'[l] : Live(hits'[l][i].ages) # <<>>
  BY DEF ForgetsRightly
<1>6. CASE l # n
  <2>1. hits'[l] = hits[l]
    BY <1>2, <1>6 DEF BudgetInv
  <2> QED BY <1>5, <2>1, NothingForgotten
<1>7. CASE l = n
  <2>1. hits'[l] = a.table
    BY <1>2, <1>5, <1>7 DEF BudgetInv
  <2>2. Forgets(hits[n], a.table, x)
    BY <1>5, <1>7, <2>1 DEF Forgets, HasLive
  <2>3. Len(a.table) = MaxKeys /\ AllLive(a.table) /\ DOMAIN a.table = 1..Len(a.table)
    BY <1>4, <2>2, LookUp DEF Fits
  <2> QED BY <2>1, <2>3 DEF AllLive
<1> QED BY <1>6, <1>7

LEMMA TickForgets ==
    ASSUME BudgetInv, Tick, NEW l \in DOMAIN Cap, NEW x,
           HasLive(hits[l], x), Entry(hits'[l], x) = {}
    PROVE  FALSE
<1> DEFINE t == hits[l]
<1>1. hits'[l] = AgedTable(t) /\ Fits(t) /\ IsTable(t)
  BY DEF Tick, AgedTable, Aged, BudgetInv, Fits
<1> HIDE DEF t
<1>2. Entry(t, x) # {}
  BY <1>1, LookUp, LiveEmpty DEF HasLive, t
<1>3. PICK i \in 1..Len(t) : t[i].key = x
  BY <1>1, <1>2, LookUp
<1>4. DOMAIN t = 1..Len(t) /\ t[i] \in Entries
  BY <1>1, LookUp
<1>5. i \in DOMAIN AgedTable(t) /\ AgedTable(t)[i].key = x
  BY <1>3, <1>4 DEF AgedTable, Entries
<1>6. i \in Entry(AgedTable(t), x)
  BY <1>5 DEF Entry
<1> QED BY <1>1, <1>6

LEMMA ForgetStep == SlotInv /\ BudgetInv /\ [Next]_vars => ForgetsRightly
<1> SUFFICES ASSUME SlotInv, BudgetInv, [Next]_vars PROVE ForgetsRightly
  OBVIOUS
<1>1. ASSUME UNCHANGED hits PROVE ForgetsRightly
  BY <1>1, NothingForgotten DEF ForgetsRightly
<1>2. ASSUME NEW c \in Conn, OtherSteps(c) PROVE ForgetsRightly
  <2>1. UNCHANGED hits
    BY <1>2 DEF OtherSteps, Accept, StartThread, StartFails, Silence, Answer, Release, Refuse,
                Drip, BodyRefused, Raise, Gone
  <2> QED BY <1>1, <2>1
<1>3. ASSUME NEW c \in Conn, NEW w \in Client, NEW k \in Kind, Dispatch(c, w, k)
      PROVE  ForgetsRightly
  <2>1. \/ UNCHANGED hits
        \/ /\ Kinds[k].limiter # "none"
           /\ \E turn : Charge(c, w, k, turn)
    BY <1>3 DEF Dispatch, Pass
  <2> QED BY <1>1, <2>1, ChargeForgets
<1>4. ASSUME NEW c \in Conn, ReadBody(c) PROVE ForgetsRightly
  <2>1. conn[c].who \in Client /\ conn[c].kind \in Kind
    BY <1>4 DEF ReadBody, SlotInv, Threads
  <2>2. \/ /\ Kinds[conn[c].kind].limiter # "none"
           /\ Charge(c, conn[c].who, conn[c].kind, "work")
        \/ UNCHANGED hits
    BY <1>4 DEF ReadBody
  <2> QED BY <1>1, <2>1, <2>2, ChargeForgets
<1>5. CASE Tick
  BY <1>5, TickForgets DEF ForgetsRightly
<1>6. CASE UNCHANGED vars
  BY <1>1, <1>6 DEF vars
<1> QED BY <1>2, <1>3, <1>4, <1>5, <1>6 DEF Next, OtherSteps

\* A limiter forgets a client that has live hits only when its table is full of
\* such clients, for tables of any size.
THEOREM ForgetsOnlyWhenFull == Spec => LiveForgottenOnlyWhenFull
<1>1. Init => SlotInv /\ BudgetInv
  BY SlotInit, BudgetInit
<1>2. SlotInv /\ BudgetInv /\ [Next]_vars => (SlotInv /\ BudgetInv)'
  BY SlotStep, BudgetStep
<1>3. SlotInv /\ BudgetInv /\ [Next]_vars
          => [\A l \in DOMAIN Cap, key \in LimiterKeys :
                 HasLive(hits[l], key) /\ Entry(hits'[l], key) = {}
                 => /\ Len(hits'[l]) = MaxKeys
                    /\ \A i \in DOMAIN hits'[l] : Live(hits'[l][i].ages) # <<>>]_vars
  BY ForgetStep DEF ForgetsRightly
<1> QED BY <1>1, <1>2, <1>3, PTL DEF Spec, LiveForgottenOnlyWhenFull

-----------------------------------------------------------------------------
(* Recursion and induction over a range of numbers.                        *)

\* What holds at 0 and passes from k to k + 1 below n holds up to n.
LEMMA UpTo ==
    ASSUME NEW n \in Nat, NEW P, 0 \in P, \A k \in 0..n : k < n /\ k \in P => k + 1 \in P
    PROVE  \A k \in 0..n : k \in P
<1> DEFINE Bad == {k \in 0..n : k \notin P}
<1>1. SUFFICES ASSUME Bad # {} PROVE FALSE
  OBVIOUS
<1>2. PICK m \in Bad : \A k \in Bad : m <= k
  <2>1. Bad \in SUBSET Nat
    OBVIOUS
  <2> QED BY <1>1, <2>1, LeastNatural
<1>3. m \in 0..n /\ m \notin P /\ m # 0
  BY <1>2
<1>4. m - 1 \in 0..n /\ m - 1 < n /\ m - 1 \notin Bad
  BY <1>2, <1>3
<1>5. m - 1 \in P
  BY <1>4
<1>6. (m - 1) + 1 \in P
  BY <1>4, <1>5
<1> QED BY <1>3, <1>6

\* A table that starts at x0 and goes on by the steps F.
Runs(g, x0, n, F) == g[0] = x0 /\ \A k \in 1..n : g[k] = F[k][g[k - 1]]

LEMMA Recursion ==
    ASSUME NEW X, NEW x0 \in X, NEW n \in Nat, NEW F \in [1..n -> [X -> X]]
    PROVE  \E g \in [0..n -> X] : Runs(g, x0, n, F)
<1> DEFINE P == {m \in 0..n : \E g \in [0..m -> X] : Runs(g, x0, m, F)}
<1>1. 0 \in P
  <2> DEFINE g == [k \in 0..0 |-> x0]
  <2>1. g \in [0..0 -> X] /\ Runs(g, x0, 0, F)
    BY DEF Runs
  <2>2. 0 \in 0..n
    OBVIOUS
  <2> HIDE DEF g
  <2> QED BY <2>1, <2>2
<1>2. ASSUME NEW m \in 0..n, m < n, m \in P PROVE m + 1 \in P
  <2>1. PICK g \in [0..m -> X] : Runs(g, x0, m, F)
    BY <1>2
  <2> DEFINE h == [k \in 0..(m + 1) |-> IF k = m + 1 THEN F[k][g[m]] ELSE g[k]]
  <2>2. F[m + 1] \in [X -> X] /\ g[m] \in X
    <3>1. m + 1 \in 1..n /\ m \in 0..m
      BY <1>2
    <3> QED BY <3>1
  <2>3. h \in [0..(m + 1) -> X]
    <3>1. ASSUME NEW k \in 0..(m + 1) PROVE (IF k = m + 1 THEN F[k][g[m]] ELSE g[k]) \in X
      <4>1. CASE k = m + 1
        BY <4>1, <2>2
      <4>2. CASE k # m + 1
        <5>1. k \in 0..m
          BY <4>2
        <5> QED BY <5>1, <4>2
      <4> QED BY <4>1, <4>2
    <3> QED BY <3>1
  <2>4. Runs(h, x0, m + 1, F)
    <3>1. h[0] = x0
      BY <2>1 DEF Runs
    <3>2. ASSUME NEW k \in 1..(m + 1) PROVE h[k] = F[k][h[k - 1]]
      <4>1. k - 1 \in 0..(m + 1) /\ k - 1 # m + 1 /\ k \in 0..(m + 1)
        OBVIOUS
      <4>2. h[k - 1] = g[k - 1]
        BY <4>1
      <4>3. CASE k = m + 1
        <5>1. h[k] = F[k][g[m]] /\ k - 1 = m
          BY <4>3, <4>1
        <5> QED BY <5>1, <4>2
      <4>4. CASE k # m + 1
        <5>1. h[k] = g[k] /\ k \in 1..m
          BY <4>4, <4>1
        <5> HIDE DEF h
        <5> QED BY <5>1, <4>2, <2>1 DEF Runs
      <4> QED BY <4>3, <4>4
    <3> HIDE DEF h
    <3> QED BY <3>1, <3>2 DEF Runs
  <2>5. m + 1 \in 0..n
    BY <1>2
  <2> HIDE DEF h
  <2> QED BY <2>3, <2>4, <2>5
<1> HIDE DEF P
<1>3. \A k \in 0..n : k \in P
  BY <1>1, <1>2, UpTo
<1> QED BY <1>3 DEF P

-----------------------------------------------------------------------------
(* Only.                                                                   *)

OnlyStep(v, s, S, i) == IF s[i] \in S THEN Append(v, s[i]) ELSE v
IsOnly(g, s, S) ==
    g = [i \in 0 .. Len(s) |-> IF i = 0 THEN <<>>
            ELSE IF s[i] \in S THEN Append(g[i - 1], s[i]) ELSE g[i - 1]]

LEMMA OnlyTable ==
    ASSUME NEW X, NEW s \in Seq(X), NEW S
    PROVE  \E g : /\ g[0] = <<>> /\ Only(s, S) = g[Len(s)]
                  /\ \A i \in 1..Len(s) : g[i] = OnlyStep(g[i - 1], s, S, i)
<1> DEFINE h == CHOOSE g : IsOnly(g, s, S)
           F == [i \in 1..Len(s) |-> [v \in Seq(X) |-> OnlyStep(v, s, S, i)]]
           n == Len(s)
<1>1. n \in Nat /\ <<>> \in Seq(X)
  OBVIOUS
<1>2. F \in [1..n -> [Seq(X) -> Seq(X)]]
  <2>1. ASSUME NEW i \in 1..n, NEW v \in Seq(X) PROVE OnlyStep(v, s, S, i) \in Seq(X)
    <3>1. s[i] \in X
      OBVIOUS
    <3> QED BY <3>1 DEF OnlyStep
  <2> QED BY <2>1
<1>3. PICK g \in [0..n -> Seq(X)] : Runs(g, <<>>, n, F)
  <2> HIDE DEF F, n
  <2> QED BY <1>1, <1>2, Recursion
<1>4. IsOnly(g, s, S)
  <2>1. ASSUME NEW i \in 0..n
        PROVE  g[i] = IF i = 0 THEN <<>>
                      ELSE IF s[i] \in S THEN Append(g[i - 1], s[i]) ELSE g[i - 1]
    <3>1. CASE i = 0
      BY <3>1, <1>3 DEF Runs
    <3>2. CASE i # 0
      <4>1. i \in 1..n /\ i - 1 \in 0..n
        BY <3>2
      <4>2. g[i] = F[i][g[i - 1]] /\ g[i - 1] \in Seq(X)
        BY <4>1, <1>3 DEF Runs
      <4>3. g[i] = OnlyStep(g[i - 1], s, S, i)
        BY <4>1, <4>2
      <4> QED BY <3>2, <4>3 DEF OnlyStep
    <3> QED BY <3>1, <3>2
  <2> QED BY <2>1 DEF IsOnly
<1>5. IsOnly(h, s, S)
  BY <1>4
<1>6. Only(s, S) = h[n]
  BY DEF Only, IsOnly
<1> HIDE DEF h
<1>7. h[0] = <<>>
  BY <1>5, <1>1 DEF IsOnly
<1>8. ASSUME NEW i \in 1..n PROVE h[i] = OnlyStep(h[i - 1], s, S, i)
  <2>1. i \in 0..n /\ i # 0
    OBVIOUS
  <2> QED BY <2>1, <1>5 DEF IsOnly, OnlyStep
<1> QED BY <1>6, <1>7, <1>8

\* What Only keeps: the members of s that are in S, the first of s first.
LEMMA OnlyKeeps ==
    ASSUME NEW X, NEW s \in Seq(X), NEW S
    PROVE  /\ Only(s, S) \in Seq(X)
           /\ \A x : x \in ToSet(Only(s, S)) <=> x \in ToSet(s) /\ x \in S
           /\ s # <<>> /\ s[1] \in S => Only(s, S) # <<>> /\ Only(s, S)[1] = s[1]
<1>1. PICK g : /\ g[0] = <<>> /\ Only(s, S) = g[Len(s)]
               /\ \A i \in 1..Len(s) : g[i] = OnlyStep(g[i - 1], s, S, i)
  BY OnlyTable
<1> DEFINE n == Len(s)
           Members(v, k) == \A x : x \in ToSet(v) <=> \E j \in 1..k : s[j] = x /\ x \in S
           Leads(v, k) == k > 0 /\ s[1] \in S => v # <<>> /\ v[1] = s[1]
           P == {k \in 0..n : g[k] \in Seq(X) /\ Members(g[k], k) /\ Leads(g[k], k)}
<1>2. n \in Nat
  OBVIOUS
<1>3. 0 \in P
  <2>1. g[0] \in Seq(X)
    BY <1>1
  <2>2. Members(g[0], 0)
    BY <1>1 DEF ToSet
  <2> QED BY <2>1, <2>2, <1>2
<1>4. ASSUME NEW k \in 0..n, k < n, k \in P PROVE k + 1 \in P
  <2> DEFINE v == g[k]
             w == g[k + 1]
             a == s[k + 1]
  <2>1. k + 1 \in 1..n /\ k + 1 \in 0..n /\ (k + 1) - 1 = k /\ a \in X
    BY <1>4
  <2>2. w = OnlyStep(v, s, S, k + 1)
    BY <1>1, <2>1
  <2>3. v \in Seq(X) /\ Members(v, k) /\ Leads(v, k)
    BY <1>4
  <2>4. w = IF a \in S THEN Append(v, a) ELSE v
    BY <2>2 DEF OnlyStep
  <2>4a. a = s[k + 1]
    OBVIOUS
  <2> HIDE DEF v, w, a
  <2>5. w \in Seq(X)
    BY <2>1, <2>3, <2>4
  <2>6. Members(w, k + 1)
    <3>1. CASE a \in S
      <4>1. ToSet(w) = ToSet(v) \cup {a}
        <5>1. w = Append(v, a)
          BY <2>4, <3>1
        <5> QED BY <5>1, <2>3, <2>1 DEF ToSet
      <4>2. ASSUME NEW x PROVE (\E j \in 1..(k + 1) : s[j] = x /\ x \in S)
                                 <=> ((\E j \in 1..k : s[j] = x /\ x \in S) \/ x = a)
        BY <2>4a, <3>1
      <4> QED BY <4>1, <4>2, <2>3
    <3>2. CASE a \notin S
      <4>1. ASSUME NEW x PROVE (\E j \in 1..(k + 1) : s[j] = x /\ x \in S)
                                 <=> (\E j \in 1..k : s[j] = x /\ x \in S)
        BY <2>4a, <3>2
      <4> QED BY <4>1, <2>3, <2>4, <3>2
    <3> QED BY <3>1, <3>2
  <2>7. Leads(w, k + 1)
    <3>1. SUFFICES ASSUME s[1] \in S PROVE w # <<>> /\ w[1] = s[1]
      OBVIOUS
    <3>2. CASE k = 0
      <4>1. v = <<>>
        BY <1>1, <3>2 DEF v
      <4>2. a = s[1]
        BY <2>4a, <3>2
      <4> QED BY <4>1, <4>2, <2>4, <3>1
    <3>3. CASE k # 0
      <4>1. v # <<>> /\ v[1] = s[1]
        BY <3>3, <3>1, <2>3
      <4> QED BY <4>1, <2>3, <2>4, <2>1
    <3> QED BY <3>2, <3>3
  <2> QED BY <2>1, <2>5, <2>6, <2>7 DEF w
<1> HIDE DEF P
<1>5. \A k \in 0..n : k \in P
  BY <1>2, <1>3, <1>4, UpTo
<1>6. n \in P
  BY <1>2, <1>5
<1>7. Only(s, S) \in Seq(X) /\ Members(Only(s, S), n) /\ Leads(Only(s, S), n)
  BY <1>1, <1>6 DEF P
<1>8. ASSUME NEW x PROVE x \in ToSet(s) <=> \E j \in 1..n : s[j] = x
  BY DEF ToSet
<1>9. s # <<>> => n > 0
  OBVIOUS
<1> QED BY <1>7, <1>8, <1>9
-----------------------------------------------------------------------------
(* Observed and PayToOf.                                                   *)

OfferNew(v, a) == a.valid /\ \A i \in DOMAIN v : ~SamePrice(v[i], a.option)
OfferStep(v, s, i) == IF OfferNew(v, s[i]) THEN Append(v, s[i].option) ELSE v
IsObserved(g, s) ==
    g = [i \in 0 .. Len(s) |-> IF i = 0 THEN <<>>
            ELSE IF OfferNew(g[i - 1], s[i]) THEN Append(g[i - 1], s[i].option) ELSE g[i - 1]]

\* What a challenge offers: options of its valid accepts.
LEMMA ObservedOffers ==
    ASSUME NEW s \in Seq(Accepted)
    PROVE  /\ Observed(s) \in Seq(Options)
           /\ \A o \in ToSet(Observed(s)) : \E a \in ToSet(s) : a.valid /\ a.option = o
<1> DEFINE Mine == {a.option : a \in {b \in ToSet(s) : b.valid}}
           h == CHOOSE g : IsObserved(g, s)
           n == Len(s)
           F == [i \in 1..n |-> [v \in Seq(Mine) |-> OfferStep(v, s, i)]]
<1>1. n \in Nat /\ <<>> \in Seq(Mine)
  OBVIOUS
<1>2. ASSUME NEW i \in 1..n, NEW v \in Seq(Mine) PROVE OfferStep(v, s, i) \in Seq(Mine)
  <2>1. s[i] \in ToSet(s)
    BY DEF ToSet
  <2>2. s[i].valid => s[i].option \in Mine
    BY <2>1
  <2> HIDE DEF Mine
  <2> QED BY <2>2 DEF OfferStep, OfferNew
<1>3. F \in [1..n -> [Seq(Mine) -> Seq(Mine)]]
  <2> HIDE DEF Mine, n
  <2> QED BY <1>2
<1>4. PICK g \in [0..n -> Seq(Mine)] : Runs(g, <<>>, n, F)
  <2> HIDE DEF F, n, Mine
  <2> QED BY <1>1, <1>3, Recursion
<1>5. IsObserved(g, s)
  <2>1. ASSUME NEW i \in 0..n
        PROVE  g[i] = IF i = 0 THEN <<>>
            ELSE IF OfferNew(g[i - 1], s[i]) THEN Append(g[i - 1], s[i].option) ELSE g[i - 1]
    <3>1. CASE i = 0
      BY <3>1, <1>4 DEF Runs
    <3>2. CASE i # 0
      <4>1. i \in 1..n /\ i - 1 \in 0..n
        BY <3>2
      <4>2. g[i] = F[i][g[i - 1]] /\ g[i - 1] \in Seq(Mine)
        BY <4>1, <1>4 DEF Runs
      <4>3. g[i] = OfferStep(g[i - 1], s, i)
        BY <4>1, <4>2
      <4> QED BY <3>2, <4>3 DEF OfferStep
    <3> QED BY <3>1, <3>2
  <2> HIDE DEF Mine
  <2> QED BY <2>1, <1>4 DEF IsObserved
<1>6. IsObserved(h, s)
  BY <1>5
<1>7. Observed(s) = h[n]
  BY DEF Observed, IsObserved, OfferNew
<1> HIDE DEF h
<1> DEFINE P == {k \in 0..n : h[k] \in Seq(Mine)}
<1>8. 0 \in P
  BY <1>1, <1>6 DEF IsObserved
<1>9. ASSUME NEW k \in 0..n, k < n, k \in P PROVE k + 1 \in P
  <2>1. k + 1 \in 1..n /\ k + 1 \in 0..n /\ (k + 1) - 1 = k /\ k + 1 # 0
    BY <1>9
  <2>2. h[k + 1] = OfferStep(h[k], s, k + 1)
    BY <2>1, <1>6 DEF IsObserved, OfferStep
  <2>3. h[k] \in Seq(Mine)
    BY <1>9
  <2> HIDE DEF Mine, n
  <2> QED BY <2>1, <2>2, <2>3, <1>2
<1>10. n \in P
  <2> HIDE DEF P
  <2>1. \A k \in 0..n : k \in P
    BY <1>1, <1>8, <1>9, UpTo
  <2> QED BY <2>1, <1>1
<1>11. Observed(s) \in Seq(Mine)
  BY <1>7, <1>10
<1>12. Mine \subseteq Options
  BY DEF Options, ToSet
<1>13. \A o \in ToSet(Observed(s)) : o \in Mine
  <2> HIDE DEF Mine
  <2> QED BY <1>11 DEF ToSet
<1>14. Observed(s) \in Seq(Options)
  <2> HIDE DEF Mine
  <2> QED BY <1>11, <1>12
<1> QED BY <1>13, <1>14
-----------------------------------------------------------------------------
(* Arranged.                                                               *)

\* A strict total order, as a set of pairs, on the numbers 1..n.
Total(R, n) ==
    /\ \A i \in 1..n : <<i, i>> \notin R
    /\ \A i, j \in 1..n : i # j => <<i, j>> \in R \/ <<j, i>> \in R
    /\ \A i, j, k \in 1..n : <<i, j>> \in R /\ <<j, k>> \in R => <<i, k>> \in R
Ordered(p, R, n) == \A i, j \in 1..n : i < j => <<p[i], p[j]>> \in R

LEMMA OrderExists ==
    ASSUME NEW n \in Nat, NEW R, Total(R, n)
    PROVE  \E p \in [1..n -> 1..n] : Ordered(p, R, n)
<1> DEFINE P == {m \in 0..n : \E p \in [1..m -> 1..m] : Ordered(p, R, m)}
<1>1. 0 \in P
  <2> DEFINE p == [i \in 1..0 |-> i]
  <2>1. p \in [1..0 -> 1..0] /\ Ordered(p, R, 0)
    BY DEF Ordered
  <2>2. 0 \in 0..n
    OBVIOUS
  <2> HIDE DEF p
  <2> QED BY <2>1, <2>2
<1>2. ASSUME NEW m \in 0..n, m < n, m \in P PROVE m + 1 \in P
  <2>1. PICK p \in [1..m -> 1..m] : Ordered(p, R, m)
    BY <1>2
  <2> DEFINE x == m + 1
             Below(k) == \A i \in 1..k : <<p[i], x>> \in R
             Gaps == {g \in 0..m : Below(m - g)}
  <2>2. m \in Nat /\ x \in 1..n /\ \A i \in 1..m : p[i] \in 1..m /\ p[i] \in 1..n /\ p[i] # x
    <3>1. m \in Nat /\ m < n /\ x \in 1..n
      BY <1>2
    <3>2. ASSUME NEW i \in 1..m PROVE p[i] \in 1..m /\ p[i] \in 1..n /\ p[i] # x
      <4>1. p[i] \in 1..m
        BY <2>1
      <4>2. p[i] \in Nat /\ 1 <= p[i] /\ p[i] <= m
        BY <4>1
      <4>3. p[i] <= n /\ p[i] # m + 1
        BY <4>2, <3>1
      <4> QED BY <4>1, <4>2, <4>3
    <3> QED BY <3>1, <3>2
  <2>3. PICK gap \in Gaps : \A g \in Gaps : gap <= g
    <3>1. m \in Gaps
      BY <2>2
    <3>2. Gaps \in SUBSET Nat
      OBVIOUS
    <3> HIDE DEF Gaps
    <3> QED BY <3>1, <3>2, LeastNatural
  <2> DEFINE c == m - gap
  <2>4. c \in 0..m /\ Below(c) /\ (c < m => ~Below(c + 1))
    <3>1. gap \in 0..m /\ Below(m - gap)
      BY <2>3
    <3>2. ASSUME c < m, Below(c + 1) PROVE FALSE
      <4>1. gap - 1 \in 0..m /\ m - (gap - 1) = c + 1
        BY <3>1, <3>2, <2>2
      <4>2. gap - 1 \in Gaps
        BY <4>1, <3>2
      <4> HIDE DEF Gaps
      <4> QED BY <4>1, <4>2, <2>3, <3>1
    <3> QED BY <3>1, <3>2, <2>2
  <2>5. \A i \in 1..c : <<p[i], x>> \in R
    BY <2>4
  <2>6. ASSUME NEW i \in (c + 1)..m PROVE <<x, p[i]>> \in R
    <3>1. c < m /\ c + 1 \in 1..m /\ i \in 1..m
      BY <2>4, <2>2
    <3>2. <<p[c + 1], x>> \notin R
      <4>1. ASSUME <<p[c + 1], x>> \in R PROVE \A k \in 1..(c + 1) : <<p[k], x>> \in R
        <5>1. ASSUME NEW k \in 1..(c + 1) PROVE k = c + 1 \/ k \in 1..c
          BY <2>4
        <5> HIDE DEF c, x
        <5> QED BY <4>1, <5>1, <2>5
      <4> QED BY <4>1, <3>1, <2>4
    <3>3. <<x, p[c + 1]>> \in R
      BY <3>1, <3>2, <2>2 DEF Total
    <3>4. CASE i = c + 1
      BY <3>3, <3>4
    <3>5. CASE i # c + 1
      <4>1. <<p[c + 1], p[i]>> \in R
        <5>1. c + 1 < i
          BY <3>5, <2>4
        <5> HIDE DEF c
        <5> QED BY <5>1, <3>1, <2>1 DEF Ordered
      <4> HIDE DEF c, x
      <4> QED BY <4>1, <3>1, <3>3, <2>2 DEF Total
    <3> QED BY <3>4, <3>5
  <2> DEFINE q == [i \in 1..(m + 1) |-> IF i <= c THEN p[i] ELSE IF i = c + 1 THEN x ELSE p[i - 1]]
  <2> HIDE DEF c
  <2>7. q \in [1..(m + 1) -> 1..(m + 1)]
    <3>1. ASSUME NEW i \in 1..(m + 1)
          PROVE  (IF i <= c THEN p[i] ELSE IF i = c + 1 THEN x ELSE p[i - 1]) \in 1..(m + 1)
      <4>1. CASE i <= c
        <5>1. i \in 1..m
          BY <4>1, <2>4
        <5> QED BY <5>1, <4>1, <2>2
      <4>2. CASE i = c + 1
        BY <4>2, <2>4, <2>2
      <4>3. CASE i > c + 1
        <5>1. i - 1 \in 1..m
          BY <4>3, <2>4
        <5> QED BY <5>1, <4>3, <2>2, <2>4
      <4> QED BY <4>1, <4>2, <4>3, <2>4
    <3> QED BY <3>1
  <2>8. Ordered(q, R, m + 1)
    <3>1. SUFFICES ASSUME NEW i \in 1..(m + 1), NEW j \in 1..(m + 1), i < j
                   PROVE  <<q[i], q[j]>> \in R
      BY DEF Ordered
    <3>2. ASSUME NEW k \in 1..(m + 1)
          PROVE  /\ k <= c => k \in 1..c /\ k \in 1..m /\ q[k] = p[k]
                 /\ k = c + 1 => q[k] = x
                 /\ k > c + 1 => k - 1 \in (c + 1)..m /\ k - 1 \in 1..m /\ q[k] = p[k - 1]
      BY <2>4
    <3> HIDE DEF q, x
    <3>3. CASE j <= c
      <4>1. i <= c
        BY <3>1, <3>3, <2>4
      <4> QED BY <4>1, <3>3, <3>2, <3>1, <2>1 DEF Ordered
    <3>4. CASE j = c + 1
      <4>1. i <= c
        BY <3>1, <3>4, <2>4
      <4> QED BY <4>1, <3>4, <3>2, <2>5
    <3>5. CASE j > c + 1
      <4>1. CASE i <= c
        <5>1. i < j - 1
          BY <4>1, <3>5, <2>4
        <5> QED BY <4>1, <5>1, <3>5, <3>2, <2>1 DEF Ordered
      <4>2. CASE i = c + 1
        BY <4>2, <3>5, <3>2, <2>6
      <4>3. CASE i > c + 1
        <5>1. i - 1 < j - 1
          BY <3>1
        <5> QED BY <5>1, <4>3, <3>5, <3>2, <2>1 DEF Ordered
      <4> QED BY <4>1, <4>2, <4>3, <2>4
    <3> QED BY <3>3, <3>4, <3>5, <2>4
  <2>9. m + 1 \in 0..n
    BY <1>2
  <2> HIDE DEF q
  <2> QED BY <2>7, <2>8, <2>9
<1> HIDE DEF P
<1>3. \A k \in 0..n : k \in P
  BY <1>1, <1>2, UpTo
<1>4. n \in P
  BY <1>3
<1> QED BY <1>4 DEF P

\* An arrangement of 1..n leaves nothing out.
LEMMA OrderIsOnto ==
    ASSUME NEW n \in Nat, NEW R, Total(R, n), NEW p \in [1..n -> 1..n], Ordered(p, R, n)
    PROVE  \A k \in 1..n : \E i \in 1..n : p[i] = k
<1>1. ASSUME NEW i \in 1..n, NEW j \in 1..n, i # j PROVE p[i] # p[j]
  <2>1. i < j \/ j < i
    BY <1>1
  <2> QED BY <2>1 DEF Ordered, Total
<1>2. p \in Injection(1..n, 1..n)
  <2>1. \A a, b \in 1..n : p[a] = p[b] => a = b
    BY <1>1
  <2> QED BY <2>1 DEF Injection, IsInjective
<1>3. IsFiniteSet(1..n)
  BY FS_Interval
<1>4. p \in Surjection(1..n, 1..n)
  BY <1>2, <1>3, FS_Injection
<1> QED BY <1>4 DEF Surjection
-----------------------------------------------------------------------------
\* The keys of n elements: tuples of one length whose last entries differ.
Keyed(keys, n) ==
    \E m \in Nat \ {0} :
        /\ keys \in [1..n -> [1..m -> Int]]
        /\ \A i, j \in 1..n : i # j => keys[i][m] # keys[j][m]
Aboves(keys, n) == {pair \in (1..n) \X (1..n) : Above(keys[pair[1]], keys[pair[2]])}

LEMMA AboveIsTotal ==
    ASSUME NEW n \in Nat, NEW keys, Keyed(keys, n)
    PROVE  Total(Aboves(keys, n), n)
<1>1. PICK m \in Nat \ {0} :
        /\ keys \in [1..n -> [1..m -> Int]]
        /\ \A i, j \in 1..n : i # j => keys[i][m] # keys[j][m]
  BY DEF Keyed
<1> DEFINE R == Aboves(keys, n)
<1>2. ASSUME NEW i \in 1..n, NEW j \in 1..n
      PROVE  <<i, j>> \in R <=> \E d \in 1..m : /\ keys[i][d] > keys[j][d]
                                                /\ \A e \in 1..(d - 1) : keys[i][e] = keys[j][e]
  <2>1. DOMAIN keys[i] = 1..m
    BY <1>1
  <2> QED BY <2>1 DEF Aboves, Above
<1>3. ASSUME NEW i \in 1..n, NEW d \in 1..m PROVE keys[i][d] \in Int
  BY <1>1
<1> HIDE DEF R
<1>4. ASSUME NEW i \in 1..n PROVE <<i, i>> \notin R
  <2>1. ASSUME NEW d \in 1..m PROVE ~(keys[i][d] > keys[i][d])
    BY <1>3
  <2> QED BY <2>1, <1>2
<1>5. ASSUME NEW i \in 1..n, NEW j \in 1..n, i # j PROVE <<i, j>> \in R \/ <<j, i>> \in R
  <2> DEFINE Differ == {d \in 1..m : keys[i][d] # keys[j][d]}
  <2>1. PICK d \in Differ : \A e \in Differ : d <= e
    <3>1. m \in Differ
      BY <1>1, <1>5
    <3>2. Differ \in SUBSET Nat
      OBVIOUS
    <3> HIDE DEF Differ
    <3> QED BY <3>1, <3>2, LeastNatural
  <2>2. d \in 1..m /\ keys[i][d] # keys[j][d]
    BY <2>1
  <2>3. ASSUME NEW e \in 1..(d - 1) PROVE keys[i][e] = keys[j][e]
    <3>1. e \in 1..m /\ ~(d <= e)
      BY <2>2
    <3>2. e \notin Differ
      BY <3>1, <2>1
    <3> QED BY <3>1, <3>2
  <2>4. keys[i][d] > keys[j][d] \/ keys[j][d] > keys[i][d]
    BY <2>2, <1>3
  <2> QED BY <2>2, <2>3, <2>4, <1>2
<1>6. ASSUME NEW i \in 1..n, NEW j \in 1..n, NEW k \in 1..n, <<i, j>> \in R, <<j, k>> \in R
      PROVE  <<i, k>> \in R
  <2>1. PICK d \in 1..m : keys[i][d] > keys[j][d] /\ \A e \in 1..(d - 1) : keys[i][e] = keys[j][e]
    BY <1>6, <1>2
  <2>2. PICK f \in 1..m : keys[j][f] > keys[k][f] /\ \A e \in 1..(f - 1) : keys[j][e] = keys[k][e]
    BY <1>6, <1>2
  <2>3. CASE d <= f
    <3>1. keys[i][d] > keys[k][d]
      <4>1. keys[i][d] \in Int /\ keys[j][d] \in Int /\ keys[k][d] \in Int
        BY <1>3
      <4>2. CASE d = f
        BY <4>1, <4>2, <2>1, <2>2
      <4>3. CASE d # f
        <5>1. d \in 1..(f - 1)
          BY <2>3, <4>3
        <5> QED BY <5>1, <4>1, <2>1, <2>2
      <4> QED BY <4>2, <4>3
    <3>2. ASSUME NEW e \in 1..(d - 1) PROVE keys[i][e] = keys[k][e]
      <4>1. e \in 1..(f - 1)
        BY <2>3
      <4> QED BY <4>1, <2>1, <2>2
    <3> QED BY <3>1, <3>2, <1>2
  <2>4. CASE ~(d <= f)
    <3>1. f \in 1..(d - 1)
      BY <2>4
    <3>2. keys[i][f] > keys[k][f]
      BY <3>1, <2>1, <2>2
    <3>3. ASSUME NEW e \in 1..(f - 1) PROVE keys[i][e] = keys[k][e]
      <4>1. e \in 1..(d - 1)
        BY <3>1
      <4> QED BY <4>1, <2>1, <2>2
    <3> QED BY <3>2, <3>3, <1>2
  <2> QED BY <2>3, <2>4
<1> QED BY <1>4, <1>5, <1>6 DEF Total, R

\* How Arranged puts its elements: p says which goes where, and does so by the keys.
Arranges(p, ls, keys) ==
    /\ p \in [1..Len(ls) -> 1..Len(ls)]
    /\ Arranged(ls, keys) = [i \in 1..Len(ls) |-> ls[p[i]]]
    /\ \A i, j \in 1..Len(ls) : i < j => Above(keys[p[i]], keys[p[j]])
    /\ \A k \in 1..Len(ls) : \E i \in 1..Len(ls) : p[i] = k
LEMMA ArrangedBy ==
    ASSUME NEW X, NEW ls \in Seq(X), NEW keys, Keyed(keys, Len(ls))
    PROVE  \E p : Arranges(p, ls, keys)
<1> DEFINE n == Len(ls)
           R == Aboves(keys, n)
           Good(p) == p \in [1..n -> 1..n] /\ \A i, j \in 1..n : i < j => Above(keys[p[i]], keys[p[j]])
           order == CHOOSE p \in [DOMAIN ls -> DOMAIN ls] :
                        \A i, j \in DOMAIN ls : i < j => Above(keys[p[i]], keys[p[j]])
<1>1. n \in Nat /\ DOMAIN ls = 1..n
  OBVIOUS
<1>2. Total(R, n)
  <2> HIDE DEF n
  <2> QED BY <1>1, AboveIsTotal
<1>3. ASSUME NEW p \in [1..n -> 1..n] PROVE Ordered(p, R, n) <=> Good(p)
  <2>1. ASSUME NEW i \in 1..n, NEW j \in 1..n PROVE <<p[i], p[j]>> \in R <=> Above(keys[p[i]], keys[p[j]])
    <3>1. p[i] \in 1..n /\ p[j] \in 1..n
      OBVIOUS
    <3> HIDE DEF n
    <3> QED BY <3>1 DEF Aboves
  <2> HIDE DEF n, R
  <2> QED BY <2>1 DEF Ordered
<1>4. PICK q \in [1..n -> 1..n] : Ordered(q, R, n)
  <2> HIDE DEF n, R
  <2> QED BY <1>1, <1>2, OrderExists
<1>5. Good(q)
  BY <1>3, <1>4
<1>6. Good(order)
  <2>1. \E p \in [DOMAIN ls -> DOMAIN ls] :
                        \A i, j \in DOMAIN ls : i < j => Above(keys[p[i]], keys[p[j]])
    BY <1>1, <1>5
  <2> QED BY <2>1, <1>1
<1>7. Arranged(ls, keys) = [i \in DOMAIN ls |-> ls[order[i]]]
  BY DEF Arranged
<1> HIDE DEF order
<1>8. Ordered(order, R, n)
  BY <1>3, <1>6
<1>9. \A k \in 1..n : \E i \in 1..n : order[i] = k
  <2>1. order \in [1..n -> 1..n]
    BY <1>6
  <2> HIDE DEF n, R
  <2> QED BY <2>1, <1>1, <1>2, <1>8, OrderIsOnto
<1>10. Arranges(order, ls, keys)
  BY <1>1, <1>6, <1>7, <1>9 DEF Arranges
<1> QED BY <1>10

\* Arranged keeps every element and adds none.
LEMMA ArrangedKeeps ==
    ASSUME NEW X, NEW ls \in Seq(X), NEW keys, Keyed(keys, Len(ls))
    PROVE  /\ Arranged(ls, keys) \in Seq(X) /\ Len(Arranged(ls, keys)) = Len(ls)
           /\ ToSet(Arranged(ls, keys)) = ToSet(ls)
<1> DEFINE n == Len(ls)
           as == Arranged(ls, keys)
<1>1. n \in Nat /\ \A i \in 1..n : ls[i] \in X
  OBVIOUS
<1>2. PICK p : Arranges(p, ls, keys)
  BY ArrangedBy
<1>3. /\ p \in [1..n -> 1..n] /\ as = [i \in 1..n |-> ls[p[i]]]
      /\ \A k \in 1..n : \E i \in 1..n : p[i] = k
  BY <1>2 DEF Arranges
<1> HIDE DEF as
<1>4. as \in Seq(X) /\ Len(as) = n
  BY <1>1, <1>3
<1>5. ToSet(as) = {as[i] : i \in 1..n} /\ ToSet(ls) = {ls[i] : i \in 1..n}
  <2>1. DOMAIN as = 1..n /\ DOMAIN ls = 1..n
    BY <1>3
  <2> QED BY ONLY <2>1 DEF ToSet
<1>6. ASSUME NEW x PROVE (\E i \in 1..n : as[i] = x) <=> (\E k \in 1..n : ls[k] = x)
  <2>1. ASSUME NEW i \in 1..n, as[i] = x PROVE \E k \in 1..n : ls[k] = x
    BY <2>1, <1>3
  <2>2. ASSUME NEW k \in 1..n, ls[k] = x PROVE \E i \in 1..n : as[i] = x
    BY <2>2, <1>3
  <2> QED BY <2>1, <2>2
<1>7. ToSet(as) = ToSet(ls)
  BY <1>5, <1>6
<1> QED BY <1>4, <1>7 DEF as
-----------------------------------------------------------------------------
(* Sorted.                                                                 *)

\* A value for each position with which `before` agrees, as far as it decides.
Agrees(A, before, D) ==
    /\ A \in [D -> Int]
    /\ \A i, j \in D : IF <<i, j>> \in before THEN A[i] <= A[j] ELSE A[j] <= A[i]
Rises(A, s) == \A i, j \in 1..Len(s) : i < j => A[s[i]] <= A[s[j]]

Spans(n) == {at \in [lo : 0..n, hi : 0..n] : at.lo <= at.hi}
Halved(at, before, done, x) ==
    IF at.lo >= at.hi THEN at
    ELSE IF <<x, done[((at.lo + at.hi) \div 2) + 1]>> \in before
         THEN [at EXCEPT !.hi = (at.lo + at.hi) \div 2]
         ELSE [at EXCEPT !.lo = ((at.lo + at.hi) \div 2) + 1]
IsSpan(g, before, done, x) ==
    g = [n \in 0 .. Len(done) |-> IF n = 0 THEN [lo |-> 0, hi |-> Len(done)]
            ELSE Halved(g[n - 1], before, done, x)]

LEMMA HalvedSpan ==
    ASSUME NEW n \in Nat, NEW at \in Spans(n), NEW before, NEW done, NEW x
    PROVE  LET new == Halved(at, before, done, x)
               mid == (at.lo + at.hi) \div 2
           IN  /\ new \in Spans(n)
               /\ at.lo >= at.hi => new = at
               /\ at.lo < at.hi =>
                    /\ mid \in at.lo .. at.hi - 1
                    /\ \/ <<x, done[mid + 1]>> \in before /\ new.lo = at.lo /\ new.hi = mid
                       \/ <<x, done[mid + 1]>> \notin before /\ new.lo = mid + 1 /\ new.hi = at.hi
<1> DEFINE mid == (at.lo + at.hi) \div 2
<1>1. at \in [lo : 0..n, hi : 0..n] /\ at.lo \in 0..n /\ at.hi \in 0..n /\ at.lo <= at.hi
  BY DEF Spans
<1>2. CASE at.lo >= at.hi
  BY <1>1, <1>2 DEF Halved
<1>3. CASE at.lo < at.hi
  <2>1. mid \in at.lo .. at.hi - 1 /\ mid \in 0..n /\ mid + 1 \in 0..n
    BY <1>1, <1>3
  <2> HIDE DEF mid
  <2>2. CASE <<x, done[mid + 1]>> \in before
    <3>1. Halved(at, before, done, x) = [at EXCEPT !.hi = mid]
      BY <1>1, <1>3, <2>2 DEF Halved, mid
    <3>2. [at EXCEPT !.hi = mid] \in Spans(n)
      BY <1>1, <2>1 DEF Spans
    <3>3. [at EXCEPT !.hi = mid].lo = at.lo /\ [at EXCEPT !.hi = mid].hi = mid
      BY <1>1
    <3> QED BY <1>1, <1>3, <2>1, <2>2, <3>1, <3>2, <3>3 DEF mid
  <2>3. CASE <<x, done[mid + 1]>> \notin before
    <3>1. Halved(at, before, done, x) = [at EXCEPT !.lo = mid + 1]
      BY <1>1, <1>3, <2>3 DEF Halved, mid
    <3>2. [at EXCEPT !.lo = mid + 1] \in Spans(n)
      BY <1>1, <2>1 DEF Spans
    <3>3. [at EXCEPT !.lo = mid + 1].hi = at.hi /\ [at EXCEPT !.lo = mid + 1].lo = mid + 1
      BY <1>1
    <3> QED BY <1>1, <1>3, <2>1, <2>3, <3>1, <3>2, <3>3 DEF mid
  <2> QED BY <2>2, <2>3
<1> QED BY <1>1, <1>2, <1>3

\* Place inserts x at a position, and in a rising sequence that position keeps it rising.
Parts(A, done, x, lo, hi) ==
    /\ \A i \in 1..lo : A[done[i]] <= A[x]
    /\ \A i \in 1..Len(done) : i > hi => A[x] <= A[done[i]]
LEMMA PlaceAt ==
    ASSUME NEW D, NEW done \in Seq(D), NEW x \in D, NEW before
    PROVE  \E lo \in 0..Len(done) :
             /\ Place(before, done, x) = InsertAt(done, lo + 1, x)
             /\ \A A : Agrees(A, before, D) /\ Rises(A, done) => Parts(A, done, x, lo, lo)
<1> DEFINE n == Len(done)
           h == CHOOSE g : IsSpan(g, before, done, x)
           all == [lo |-> 0, hi |-> n]
           F == [k \in 1..n |-> [at \in Spans(n) |-> Halved(at, before, done, x)]]
<1>1. n \in Nat /\ all \in Spans(n) /\ all.lo = 0 /\ all.hi = n
  BY DEF Spans
<1>2. F \in [1..n -> [Spans(n) -> Spans(n)]]
  <2> HIDE DEF n
  <2>1. ASSUME NEW at \in Spans(n) PROVE Halved(at, before, done, x) \in Spans(n)
    BY <1>1, HalvedSpan
  <2> QED BY <2>1
<1>3. PICK g \in [0..n -> Spans(n)] : Runs(g, all, n, F)
  <2> HIDE DEF F, n, all
  <2> QED BY <1>1, <1>2, Recursion
<1>4. IsSpan(g, before, done, x)
  <2>1. ASSUME NEW k \in 0..n
        PROVE  g[k] = IF k = 0 THEN all ELSE Halved(g[k - 1], before, done, x)
    <3>1. CASE k = 0
      BY <3>1, <1>3 DEF Runs
    <3>2. CASE k # 0
      <4>1. k \in 1..n /\ k - 1 \in 0..n
        BY <3>2
      <4>2. g[k] = F[k][g[k - 1]] /\ g[k - 1] \in Spans(n)
        BY <4>1, <1>3 DEF Runs
      <4>3. g[k] = Halved(g[k - 1], before, done, x)
        BY <4>1, <4>2
      <4> QED BY <3>2, <4>3
    <3> QED BY <3>1, <3>2
  <2> QED BY <2>1 DEF IsSpan
<1>5. IsSpan(h, before, done, x)
  BY <1>4
<1>6. Place(before, done, x) = InsertAt(done, h[n].lo + 1, x)
  BY DEF Place, IsSpan, Halved
<1> HIDE DEF h
<1>7. h[0] = all /\ \A k \in 1..n : h[k] = Halved(h[k - 1], before, done, x)
  BY <1>5, <1>1 DEF IsSpan
<1> DEFINE Good(at) == \A A : Agrees(A, before, D) /\ Rises(A, done) => Parts(A, done, x, at.lo, at.hi)
           P == {k \in 0..n : h[k] \in Spans(n) /\ h[k].hi - h[k].lo <= n - k /\ Good(h[k])}
<1>8. 0 \in P
  <2>1. Good(all)
    <3>1. ASSUME NEW A PROVE Parts(A, done, x, 0, n)
      BY DEF Parts
    <3> QED BY <3>1, <1>1
  <2> QED BY <1>1, <1>7, <2>1
<1>9. ASSUME NEW k \in 0..n, k < n, k \in P PROVE k + 1 \in P
  <2>1. k + 1 \in 1..n /\ k + 1 \in 0..n /\ (k + 1) - 1 = k
    BY <1>9
  <2>2. h[k] \in Spans(n) /\ h[k].hi - h[k].lo <= n - k /\ Good(h[k])
    BY <1>9
  <2> DEFINE at == h[k]
             new == h[k + 1]
             mid == (at.lo + at.hi) \div 2
  <2>3. new = Halved(at, before, done, x)
    BY <1>7, <2>1
  <2> HIDE DEF new, at, n
  <2>4. at \in Spans(n) /\ at.hi - at.lo <= n - k /\ Good(at)
    BY <2>2 DEF at
  <2>5. /\ new \in Spans(n)
        /\ at.lo >= at.hi => new = at
        /\ at.lo < at.hi =>
             /\ mid \in at.lo .. at.hi - 1
             /\ \/ <<x, done[mid + 1]>> \in before /\ new.lo = at.lo /\ new.hi = mid
                \/ <<x, done[mid + 1]>> \notin before /\ new.lo = mid + 1 /\ new.hi = at.hi
    BY <1>1, <2>3, <2>4, HalvedSpan
  <2>6. at.lo \in 0..n /\ at.hi \in 0..n /\ at.lo <= at.hi
    BY <2>4 DEF Spans
  <2>7. new.hi - new.lo <= n - (k + 1)
    <3>1. CASE at.lo >= at.hi
      BY <3>1, <2>1, <2>5, <2>6, <1>1
    <3>2. CASE at.lo < at.hi
      BY <3>2, <2>1, <2>4, <2>5, <2>6, <1>1
    <3> QED BY <3>1, <3>2, <2>6
  <2>8. Good(new)
    <3>1. SUFFICES ASSUME NEW A, Agrees(A, before, D), Rises(A, done)
                   PROVE  Parts(A, done, x, new.lo, new.hi)
      OBVIOUS
    <3>2. Parts(A, done, x, at.lo, at.hi)
      BY <2>4, <3>1
    <3>3. CASE at.lo >= at.hi
      BY <3>2, <3>3, <2>5
    <3>4. CASE at.lo < at.hi
      <4> HIDE DEF mid
      <4>1. mid \in at.lo .. at.hi - 1 /\ mid + 1 \in 1..n /\ mid \in Nat
        BY <3>4, <2>5, <2>6, <1>1
      <4>2. \A i \in 1..n : done[i] \in D /\ A[done[i]] \in Int
        BY <3>1 DEF Agrees, n
      <4>3. A[x] \in Int
        BY <3>1 DEF Agrees
      <4>4. \A i, j \in 1..n : i < j => A[done[i]] <= A[done[j]]
        BY <3>1 DEF Rises, n
      <4>5. CASE <<x, done[mid + 1]>> \in before /\ new.lo = at.lo /\ new.hi = mid
        <5>1. A[x] <= A[done[mid + 1]]
          BY <4>1, <4>2, <4>5, <3>1 DEF Agrees
        <5>2. ASSUME NEW i \in 1..n, i > mid PROVE A[x] <= A[done[i]]
          <6>1. i = mid + 1 \/ mid + 1 < i
            BY <5>2, <4>1
          <6>2. A[done[mid + 1]] <= A[done[i]]
            BY <6>1, <4>1, <4>2, <4>4
          <6> QED BY <5>1, <6>2, <4>1, <4>2, <4>3
        <5> QED BY <5>2, <3>2, <4>5 DEF Parts, n
      <4>6. CASE <<x, done[mid + 1]>> \notin before /\ new.lo = mid + 1 /\ new.hi = at.hi
        <5>1. A[done[mid + 1]] <= A[x]
          BY <4>1, <4>2, <4>6, <3>1 DEF Agrees
        <5>2. ASSUME NEW i \in 1..(mid + 1) PROVE A[done[i]] <= A[x]
          <6>1. (i = mid + 1 \/ i < mid + 1) /\ i \in 1..n
            BY <4>1, <1>1
          <6>2. A[done[i]] <= A[done[mid + 1]]
            BY <6>1, <4>1, <4>2, <4>4
          <6> QED BY <5>1, <6>1, <6>2, <4>1, <4>2, <4>3
        <5> QED BY <5>2, <3>2, <4>6 DEF Parts, n
      <4> QED BY <3>4, <4>5, <4>6, <2>5 DEF mid
    <3> QED BY <3>3, <3>4, <2>6
  <2> QED BY <2>1, <2>5, <2>7, <2>8 DEF new
<1> HIDE DEF P
<1>10. n \in P
  <2>1. \A k \in 0..n : k \in P
    <3> HIDE DEF n
    <3> QED BY <1>1, <1>8, <1>9, UpTo
  <2> QED BY <2>1, <1>1
<1>11. h[n] \in Spans(n) /\ h[n].hi - h[n].lo <= n - n /\ Good(h[n])
  BY <1>10 DEF P
<1>12. h[n].lo \in 0..n /\ h[n].hi = h[n].lo
  <2> HIDE DEF n
  <2>1. h[n].lo \in 0..n /\ h[n].hi \in 0..n /\ h[n].lo <= h[n].hi
    BY <1>11 DEF Spans
  <2> QED BY <2>1, <1>11, <1>1
<1> QED BY <1>6, <1>11, <1>12
-----------------------------------------------------------------------------
LEMMA PlaceKeeps ==
    ASSUME NEW D, NEW done \in Seq(D), NEW x \in D, NEW before
    PROVE  LET t == Place(before, done, x)
           IN  /\ t \in Seq(D) /\ Len(t) = Len(done) + 1
               /\ ToSet(t) = ToSet(done) \cup {x}
               /\ \A A : Agrees(A, before, D) /\ Rises(A, done) => Rises(A, t)
<1> DEFINE t == Place(before, done, x)
           n == Len(done)
<1>1. PICK lo \in 0..n :
             /\ t = InsertAt(done, lo + 1, x)
             /\ \A A : Agrees(A, before, D) /\ Rises(A, done) => Parts(A, done, x, lo, lo)
  BY PlaceAt
<1> HIDE DEF t
<1>2. n \in Nat /\ DOMAIN done = 1..n /\ \A i \in 1..n : done[i] \in D
  OBVIOUS
<1>3. /\ t \in Seq(D) /\ Len(t) = n + 1
      /\ \A i \in 1..(n + 1) :
           t[i] = IF i <= lo THEN done[i] ELSE IF i = lo + 1 THEN x ELSE done[i - 1]
  <2> DEFINE front == SubSeq(done, 1, lo)
             back == SubSeq(done, lo + 1, n)
  <2>1. t = front \o <<x>> \o back
    <3>1. (lo + 1) - 1 = lo
      OBVIOUS
    <3> QED BY <1>1, <3>1 DEF InsertAt
  <2>2. /\ front \in Seq(D) /\ Len(front) = lo /\ \A i \in 1..lo : front[i] = done[i]
    OBVIOUS
  <2>3. back \in Seq(D) /\ Len(back) = n - lo /\ \A i \in 1..(n - lo) : back[i] = done[lo + i]
    <3>1. CASE lo = n
      BY <3>1
    <3>2. CASE lo # n
      BY <3>2
    <3> QED BY <3>1, <3>2
  <2> HIDE DEF front, back, n
  <2>4. <<x>> \in Seq(D) /\ Len(<<x>>) = 1 /\ <<x>>[1] = x
    OBVIOUS
  <2> DEFINE mid == front \o <<x>>
  <2>5. /\ mid \in Seq(D) /\ Len(mid) = lo + 1 /\ mid[lo + 1] = x
        /\ \A i \in 1..lo : mid[i] = done[i]
    BY <2>2, <2>4
  <2> HIDE DEF mid
  <2>6. t = mid \o back
    BY <2>1 DEF mid
  <2>7. t \in Seq(D) /\ Len(t) = n + 1
    <3>1. t \in Seq(D) /\ Len(t) = Len(mid) + Len(back)
      BY <2>3, <2>5, <2>6, ConcatProperties
    <3>2. lo \in Nat /\ (lo + 1) + (n - lo) = n + 1
      BY <1>2
    <3> QED BY ONLY <3>1, <3>2, <2>3, <2>5
  <2>8. ASSUME NEW i \in 1..(n + 1)
        PROVE  t[i] = IF i <= lo THEN done[i] ELSE IF i = lo + 1 THEN x ELSE done[i - 1]
    <3>1. CASE i <= lo
      <4>1. i \in 1..Len(mid) /\ i \in 1..lo
        BY <3>1, <2>5, <1>2
      <4>2. t[i] = mid[i]
        BY <4>1, <2>3, <2>5, <2>6
      <4> QED BY <4>1, <4>2, <2>5, <3>1
    <3>2. CASE i = lo + 1
      <4>1. i \in 1..Len(mid)
        BY <3>2, <2>5, <1>2
      <4>2. t[i] = mid[i]
        BY <4>1, <2>3, <2>5, <2>6
      <4> QED BY <4>2, <2>5, <3>2, <1>2
    <3>3. CASE i > lo + 1
      <4>1. i - (lo + 1) \in 1..(n - lo) /\ lo + (i - (lo + 1)) = i - 1
        BY <3>3, <1>2
      <4>2. t[i] = back[i - (lo + 1)]
        BY <3>3, <4>1, <2>3, <2>5, <2>6, <1>2
      <4>3. back[i - (lo + 1)] = done[i - 1]
        BY <4>1, <2>3
      <4> QED BY <3>3, <4>2, <4>3, <1>2
    <3> QED BY <3>1, <3>2, <3>3, <1>2
  <2> QED BY <2>7, <2>8
<1>4. ToSet(t) = ToSet(done) \cup {x}
  <2> HIDE DEF n
  <2>1. ToSet(t) = {t[i] : i \in 1..(n + 1)} /\ ToSet(done) = {done[i] : i \in 1..n}
    <3>1. DOMAIN t = 1..(n + 1)
      BY <1>3
    <3> QED BY ONLY <3>1, <1>2 DEF ToSet
  <2>2. ASSUME NEW i \in 1..(n + 1) PROVE t[i] \in ToSet(done) \cup {x}
    <3>1. i <= lo => i \in 1..n
      BY <1>2
    <3>2. i > lo + 1 => i - 1 \in 1..n
      BY <1>2
    <3> QED BY <3>1, <3>2, <2>1, <1>3, <1>2
  <2>3. ASSUME NEW i \in 1..n PROVE \E j \in 1..(n + 1) : t[j] = done[i]
    <3>1. CASE i <= lo
      <4>1. i \in 1..(n + 1) /\ t[i] = done[i]
        BY <3>1, <1>2, <1>3
      <4> QED BY <4>1
    <3>2. CASE i > lo
      <4>1. i + 1 \in 1..(n + 1) /\ i + 1 > lo + 1 /\ (i + 1) - 1 = i
        BY <3>2, <1>2
      <4>2. t[i + 1] = done[i]
        BY <4>1, <1>3
      <4> QED BY <4>1, <4>2
    <3> QED BY <3>1, <3>2, <1>2
  <2>4. lo + 1 \in 1..(n + 1) /\ t[lo + 1] = x
    BY <1>2, <1>3
  <2>5. ToSet(t) \subseteq ToSet(done) \cup {x}
    BY <2>1, <2>2
  <2>6. ToSet(done) \subseteq ToSet(t) /\ x \in ToSet(t)
    BY <2>1, <2>3, <2>4
  <2> QED BY <2>5, <2>6
<1>5. ASSUME NEW A, Agrees(A, before, D), Rises(A, done) PROVE Rises(A, t)
  <2>1. Parts(A, done, x, lo, lo)
    BY <1>1, <1>5
  <2> HIDE DEF n
  <2>2. SUFFICES ASSUME NEW i \in 1..(n + 1), NEW j \in 1..(n + 1), i < j PROVE A[t[i]] <= A[t[j]]
    BY <1>3 DEF Rises
  <2>3. /\ \A k \in 1..lo : A[done[k]] <= A[x]
        /\ \A k \in 1..n : k > lo => A[x] <= A[done[k]]
        /\ \A k, l \in 1..n : k < l => A[done[k]] <= A[done[l]]
    BY <2>1, <1>5 DEF Parts, Rises, n
  <2>4. ASSUME NEW k \in 1..(n + 1)
        PROVE  /\ k <= lo => k \in 1..lo /\ k \in 1..n /\ t[k] = done[k]
               /\ k = lo + 1 => t[k] = x
               /\ k > lo + 1 => k - 1 \in 1..n /\ k - 1 > lo /\ t[k] = done[k - 1]
    BY <1>2, <1>3
  <2>5. CASE i <= lo
    <3>1. CASE j <= lo
      BY <2>2, <2>3, <2>4, <2>5, <3>1
    <3>2. CASE j = lo + 1
      BY <2>3, <2>4, <2>5, <3>2
    <3>3. CASE j > lo + 1
      <4>1. i < j - 1
        BY <2>5, <3>3, <1>2
      <4> QED BY <4>1, <2>3, <2>4, <2>5, <3>3
    <3> QED BY <3>1, <3>2, <3>3, <1>2
  <2>6. CASE i = lo + 1
    <3>1. j > lo + 1
      BY <2>2, <2>6
    <3> QED BY <3>1, <2>3, <2>4, <2>6
  <2>7. CASE i > lo + 1
    <3>1. j > lo + 1 /\ i - 1 < j - 1
      BY <2>2, <2>7, <1>2
    <3> QED BY <3>1, <2>3, <2>4, <2>7
  <2> QED BY <2>5, <2>6, <2>7, <1>2
<1> QED BY <1>3, <1>4, <1>5 DEF t
-----------------------------------------------------------------------------
\* A set of numbers in 1..n that is not empty has a greatest element, its Max.
LEMMA GreatestBelow ==
    ASSUME NEW n \in Nat, NEW T \in SUBSET (1..n), T # {}
    PROVE  Max(T) \in T /\ \A k \in T : k <= Max(T)
<1> DEFINE Gaps == {n - k : k \in T}
<1>1. PICK g \in Gaps : \A h \in Gaps : g <= h
  <2>1. ASSUME NEW k \in T PROVE n - k \in Nat
    <3>1. k \in 1..n
      OBVIOUS
    <3> QED BY <3>1
  <2>2. Gaps \in SUBSET Nat /\ Gaps # {}
    BY <2>1
  <2> HIDE DEF Gaps
  <2> QED BY <2>2, LeastNatural
<1>2. PICK m \in T : g = n - m
  BY <1>1
<1>3. ASSUME NEW k \in T PROVE m >= k
  <2>1. n - m <= n - k
    BY <1>1, <1>2
  <2>2. m \in Nat /\ k \in Nat
    OBVIOUS
  <2> QED BY <2>1, <2>2
<1>4. Max(T) \in T /\ \A k \in T : Max(T) >= k
  BY <1>3 DEF Max
<1>5. ASSUME NEW k \in T PROVE k <= Max(T)
  <2>1. Max(T) \in 1..n /\ k \in 1..n /\ Max(T) >= k
    BY <1>4
  <2> QED BY <2>1
<1> QED BY <1>4, <1>5

Befores(objective, rs) ==
    {p \in (DOMAIN rs) \X (DOMAIN rs) : Cmp(objective, rs[p[1]], rs[p[2]]) < 0}

IsSorting(order, objective, rs) ==
    /\ order \in Seq(1..Len(rs)) /\ Len(order) = Len(rs) /\ ToSet(order) = 1..Len(rs)
    /\ Sorted(objective, rs) = [i \in 1..Len(rs) |-> rs[order[i]]]
    /\ \A A : Agrees(A, Befores(objective, rs), 1..Len(rs)) => Rises(A, order)

\* Sorted is a permutation of what it is given, and rises in whatever its comparator agrees with.
LEMMA SortedBy ==
    ASSUME NEW X, NEW objective, NEW rs \in Seq(X), rs # <<>>
    PROVE  \E order : IsSorting(order, objective, rs)
<1> DEFINE n == Len(rs)
           D == 1..n
           before == Befores(objective, rs)
           falls == Len(rs) > 1 /\ <<2, 1>> \in before
           Even(k) == \A i \in 2 .. k : (<<i, i - 1>> \in before) = falls
           run == Max({k \in DOMAIN rs : Even(k)})
           head == [i \in 1 .. run |-> i]
           start == IF falls THEN Reverse(head) ELSE head
           Table(g) == g = [k \in run .. Len(rs) |-> IF k = run THEN start ELSE Place(before, g[k - 1], k)]
           h == CHOOSE g : Table(g)
<1>1. n \in Nat /\ n > 0 /\ DOMAIN rs = D /\ \A i \in D : rs[i] \in X
  OBVIOUS
<1>2. run \in D /\ Even(run)
  <2> DEFINE Runs1 == {k \in DOMAIN rs : Even(k)}
  <2>1. 1 \in Runs1
    BY <1>1
  <2>2. Runs1 \in SUBSET D
    BY <1>1
  <2>3. Max(Runs1) \in Runs1
    <3> HIDE DEF Runs1, n
    <3> QED BY <1>1, <2>1, <2>2, GreatestBelow
  <2> QED BY <2>3, <1>1
<1>3. Sorted(objective, rs) = [i \in DOMAIN rs |-> rs[h[Len(rs)][i]]]
  BY DEF Sorted, Befores
<1> HIDE DEF run, h, before
<1> DEFINE Good(s, k) == /\ s \in Seq(D) /\ Len(s) = k /\ ToSet(s) = 1..k
                         /\ \A A : Agrees(A, before, D) => Rises(A, s)
<1>4. Good(start, run)
  <2>1. /\ head \in Seq(D) /\ Len(head) = run /\ \A i \in 1..run : head[i] = i
    BY <1>1, <1>2
  <2>2. /\ start \in Seq(D) /\ Len(start) = run
        /\ \A i \in 1..run : start[i] = IF falls THEN (run - i) + 1 ELSE i
    <3>1. CASE falls
      <4>1. start = [i \in 1..Len(head) |-> head[(Len(head) - i) + 1]]
        BY <3>1 DEF Reverse
      <4> HIDE DEF head, start, falls
      <4>2. start = [i \in 1..run |-> head[(run - i) + 1]]
        BY <4>1, <2>1
      <4>3. ASSUME NEW i \in 1..run PROVE head[(run - i) + 1] = (run - i) + 1 /\ (run - i) + 1 \in D
        BY <1>1, <1>2, <2>1
      <4>4. start \in [1..run -> D]
        BY <4>2, <4>3
      <4>5. start \in Seq(D) /\ Len(start) = run
        BY <4>4, <1>2
      <4> QED BY <4>2, <4>3, <4>5, <3>1
    <3>2. CASE ~falls
      BY <3>2, <2>1
    <3> QED BY <3>1, <3>2
  <2> HIDE DEF start, head
  <2>3. ToSet(start) = 1..run
    <3>1. ToSet(start) = {start[i] : i \in 1..run}
      <4>1. DOMAIN start = 1..run
        BY <2>2
      <4> QED BY ONLY <4>1 DEF ToSet
    <3>2. ASSUME NEW i \in 1..run PROVE start[i] \in 1..run
      BY <2>2, <1>1, <1>2
    <3>3. ASSUME NEW i \in 1..run PROVE \E j \in 1..run : start[j] = i
      <4>1. CASE falls
        <5>1. (run - i) + 1 \in 1..run /\ (run - ((run - i) + 1)) + 1 = i
          BY <1>1, <1>2
        <5> QED BY <5>1, <4>1, <2>2
      <4>2. CASE ~falls
        BY <4>2, <2>2
      <4> QED BY <4>1, <4>2
    <3> HIDE DEF D, n
    <3> QED BY <3>1, <3>2, <3>3
  <2>4. ASSUME NEW A, Agrees(A, before, D) PROVE Rises(A, start)
    <3>1. ASSUME NEW i \in 2..run
          PROVE  /\ A[i] \in Int /\ A[i - 1] \in Int
                 /\ IF falls THEN A[i] <= A[i - 1] ELSE A[i - 1] <= A[i]
      <4>1. i \in D /\ i - 1 \in D
        BY <1>1, <1>2
      <4>2. (<<i, i - 1>> \in before) = falls
        BY <1>2
      <4> HIDE DEF falls, D
      <4> QED BY <4>1, <4>2, <2>4 DEF Agrees
    <3> HIDE DEF falls
    <3> DEFINE P == {k \in 0..run : \A i, j \in 1..k : i <= j => IF falls THEN A[j] <= A[i] ELSE A[i] <= A[j]}
    <3>2. 0 \in P /\ run \in Nat
      BY <1>2
    <3>3. ASSUME NEW k \in 0..run, k < run, k \in P PROVE k + 1 \in P
      <4>1. SUFFICES ASSUME NEW i \in 1..(k + 1), NEW j \in 1..(k + 1), i <= j
                     PROVE  IF falls THEN A[j] <= A[i] ELSE A[i] <= A[j]
        BY <3>3, <3>2
      <4>2. \A l \in D : A[l] \in Int
        BY <2>4 DEF Agrees
      <4>3. i \in D /\ j \in D
        BY <3>3, <1>2, <1>1
      <4>4. CASE j # k + 1
        BY <4>1, <4>4, <3>3
      <4>5. CASE i = j
        BY <4>2, <4>3, <4>5
      <4>6. CASE j = k + 1 /\ i # j
        <5>1. i \in 1..k /\ k \in 1..k /\ i <= k
          BY <4>1, <4>6, <3>3
        <5>2. IF falls THEN A[k] <= A[i] ELSE A[i] <= A[k]
          BY <5>1, <3>3
        <5>3. j \in 2..run /\ j - 1 = k
          BY <4>6, <5>1, <3>3, <3>2
        <5>4. A[j] \in Int /\ A[k] \in Int /\ IF falls THEN A[j] <= A[k] ELSE A[k] <= A[j]
          BY <5>3, <3>1
        <5> QED BY <5>2, <5>4, <4>2, <4>3
      <4> QED BY <4>4, <4>5, <4>6
    <3>4. run \in P
      <4> HIDE DEF P
      <4>1. \A k \in 0..run : k \in P
        BY <3>2, <3>3, UpTo
      <4> QED BY <4>1, <3>2
    <3>5. ASSUME NEW i \in 1..run, NEW j \in 1..run, i < j PROVE A[start[i]] <= A[start[j]]
      <4>1. CASE falls
        <5>1. (run - i) + 1 \in 1..run /\ (run - j) + 1 \in 1..run /\ (run - j) + 1 <= (run - i) + 1
          BY <3>5, <3>2
        <5> QED BY <5>1, <4>1, <3>4, <2>2
      <4>2. CASE ~falls
        <5>1. i <= j
          BY <3>5
        <5> QED BY <5>1, <4>2, <3>4, <2>2
      <4> QED BY <4>1, <4>2
    <3> QED BY <3>5, <2>2 DEF Rises
  <2> QED BY <2>2, <2>3, <2>4
<1> HIDE DEF start
<1>5. ASSUME NEW k \in 1..n, NEW s, k < n, Good(s, k) PROVE Good(Place(before, s, k + 1), k + 1)
  <2>1. k + 1 \in D
    BY <1>1, <1>5
  <2>2. s \in Seq(D) /\ Len(s) = k /\ ToSet(s) = 1..k
    BY <1>5
  <2> HIDE DEF D
  <2> DEFINE t == Place(before, s, k + 1)
  <2>3. /\ t \in Seq(D) /\ Len(t) = Len(s) + 1 /\ ToSet(t) = ToSet(s) \cup {k + 1}
        /\ \A A : Agrees(A, before, D) /\ Rises(A, s) => Rises(A, t)
    BY <2>1, <2>2, PlaceKeeps
  <2> HIDE DEF t
  <2>4. (1..k) \cup {k + 1} = 1..(k + 1)
    OBVIOUS
  <2> QED BY <2>2, <2>3, <2>4, <1>5 DEF t
<1>6. \E g : Table(g)
  <2> DEFINE m == n - run
             F == [k \in 1..m |-> [v \in Seq(D) |-> Place(before, v, run + k)]]
  <2>1. m \in Nat /\ start \in Seq(D)
    BY <1>1, <1>2, <1>4
  <2>2. F \in [1..m -> [Seq(D) -> Seq(D)]]
    <3>1. ASSUME NEW k \in 1..m, NEW v \in Seq(D) PROVE Place(before, v, run + k) \in Seq(D)
      <4>1. run + k \in D
        BY <1>1, <1>2
      <4> HIDE DEF D
      <4> QED BY <4>1, PlaceKeeps
    <3> HIDE DEF D, m
    <3> QED BY <3>1
  <2>3. PICK f \in [0..m -> Seq(D)] : Runs(f, start, m, F)
    <3> HIDE DEF D, m, F
    <3> QED BY <2>1, <2>2, Recursion
  <2> DEFINE g == [k \in run..n |-> f[k - run]]
  <2>4. ASSUME NEW k \in run..n PROVE g[k] = IF k = run THEN start ELSE Place(before, g[k - 1], k)
    <3>1. CASE k = run
      <4>1. g[k] = f[0]
        BY <3>1, <1>2
      <4> QED BY <4>1, <3>1, <2>3 DEF Runs
    <3>2. CASE k # run
      <4>1. k - run \in 1..m /\ (k - run) - 1 \in 0..m /\ k - 1 \in run..n /\ (k - 1) - run = (k - run) - 1
        BY <3>2, <1>1, <1>2
      <4>2. f[k - run] = F[k - run][f[(k - run) - 1]] /\ f[(k - run) - 1] \in Seq(D)
        BY <4>1, <2>3 DEF Runs
      <4>3. f[k - run] = Place(before, f[(k - run) - 1], run + (k - run))
        BY <4>1, <4>2
      <4>4. run + (k - run) = k
        BY <1>1, <1>2
      <4>5. g[k] = f[k - run] /\ g[k - 1] = f[(k - run) - 1]
        BY <4>1
      <4> HIDE DEF g
      <4> QED BY <3>2, <4>3, <4>4, <4>5
    <3> QED BY <3>1, <3>2
  <2>5. Table(g)
    <3>1. g = [k \in run..n |-> g[k]]
      OBVIOUS
    <3> HIDE DEF g
    <3> QED BY <3>1, <2>4
  <2> QED BY <2>5
<1>7. Table(h)
  BY <1>6 DEF h
<1> DEFINE P == {k \in 0..(n - run) : Good(h[run + k], run + k)}
<1>8. 0 \in P
  <2>1. h[run] = start
    BY <1>1, <1>2, <1>7
  <2> HIDE DEF Good
  <2>2. run + 0 = run /\ 0 \in 0..(n - run)
    BY <1>1, <1>2
  <2> QED BY <2>1, <2>2, <1>4
<1>9. ASSUME NEW k \in 0..(n - run), k < n - run, k \in P PROVE k + 1 \in P
  <2>1. /\ run + (k + 1) \in run..n /\ run + (k + 1) # run /\ (run + (k + 1)) - 1 = run + k
        /\ run + k \in 1..n /\ run + k < n /\ run + (k + 1) = (run + k) + 1
        /\ k + 1 \in 0..(n - run)
    BY <1>1, <1>2, <1>9
  <2>2. h[run + (k + 1)] = Place(before, h[run + k], run + (k + 1))
    BY <1>7, <2>1
  <2>3. Good(h[run + k], run + k)
    BY <1>9
  <2> HIDE DEF Good
  <2> QED BY <2>1, <2>2, <2>3, <1>5
<1>10. Good(h[n], n)
  <2> HIDE DEF Good
  <2>1. n - run \in Nat /\ run + (n - run) = n
    BY <1>1, <1>2
  <2>2. \A k \in 0..(n - run) : k \in P
    <3> HIDE DEF P
    <3> QED BY <2>1, <1>8, <1>9, UpTo
  <2>3. n - run \in P
    BY <2>1, <2>2
  <2> QED BY <2>1, <2>3
<1>11. IsSorting(h[n], objective, rs)
  BY <1>1, <1>3, <1>10 DEF IsSorting, before
<1> QED BY <1>11
-----------------------------------------------------------------------------
(* The choice of an option and of a winner.                                *)

LEMMA SortedKeeps ==
    ASSUME NEW X, NEW objective, NEW rs \in Seq(X)
    PROVE  Sorted(objective, rs) \in Seq(X) /\ ToSet(Sorted(objective, rs)) = ToSet(rs)
<1>1. CASE rs = <<>>
  <2>1. Sorted(objective, rs) = rs
    BY <1>1 DEF Sorted
  <2> QED BY <2>1
<1>2. CASE rs # <<>>
  <2> DEFINE n == Len(rs)
  <2>1. PICK order : IsSorting(order, objective, rs)
    BY <1>2, SortedBy
  <2>9. order \in Seq(1..n) /\ Len(order) = n /\ ToSet(order) = 1..n
    BY <2>1 DEF IsSorting
  <2> DEFINE t == Sorted(objective, rs)
  <2>2. n \in Nat /\ DOMAIN rs = 1..n /\ (\A i \in 1..n : rs[i] \in X) /\ DOMAIN order = 1..n
    BY <2>9
  <2>3. t = [i \in 1..n |-> rs[order[i]]] /\ \A i \in 1..n : order[i] \in 1..n
    BY <2>1, <2>9 DEF IsSorting
  <2> HIDE DEF t, n
  <2>4. t \in Seq(X) /\ DOMAIN t = 1..n
    BY <2>2, <2>3
  <2>5. ASSUME NEW i \in 1..n PROVE \E j \in 1..n : order[j] = i
    <3>1. i \in {order[j] : j \in 1..n}
      BY <2>9, <2>2 DEF ToSet
    <3> QED BY <3>1
  <2>6. ToSet(t) = {t[i] : i \in 1..n} /\ ToSet(rs) = {rs[i] : i \in 1..n}
    BY ONLY <2>2, <2>4 DEF ToSet
  <2>7. {t[i] : i \in 1..n} = {rs[i] : i \in 1..n}
    <3>1. ASSUME NEW i \in 1..n PROVE t[i] \in {rs[k] : k \in 1..n}
      BY <2>3
    <3>2. ASSUME NEW i \in 1..n PROVE rs[i] \in {t[k] : k \in 1..n}
      <4>1. PICK j \in 1..n : order[j] = i
        BY <2>5
      <4> QED BY <4>1, <2>3
    <3> QED BY <3>1, <3>2
  <2> QED BY <2>4, <2>6, <2>7 DEF t
<1> QED BY <1>1, <1>2

\* The options of results are options of their sellers, with amounts that are numbers.
LEMMA OptionFacts ==
    /\ \A o \in Options : o.amount \in Nat /\ o # None
    /\ \A r \in Results : r.opts \in Seq(Options) /\ r # None
BY SellerAssumption, NoneAssumption DEF Results

LEMMA EligibleIs ==
    ASSUME NEW r, r.opts \in Seq(Options), NEW c
    PROVE  /\ Eligible(r, c) \in Seq(Options)
           /\ \A o : o \in ToSet(Eligible(r, c)) <=> o \in ToSet(r.opts) /\ OptionFits(o, c)
<1> DEFINE S == {o \in ToSet(r.opts) : OptionFits(o, c)}
<1>1. Eligible(r, c) = Only(r.opts, S)
  BY DEF Eligible
<1>2. /\ Only(r.opts, S) \in Seq(Options)
      /\ \A o : o \in ToSet(Only(r.opts, S)) <=> o \in ToSet(r.opts) /\ o \in S
  <2> HIDE DEF S
  <2> QED BY OnlyKeeps
<1> QED BY <1>1, <1>2

\* A sequence is empty exactly when nothing is in it.
LEMMA NothingIn ==
    ASSUME NEW X, NEW s \in Seq(X)
    PROVE  /\ s = <<>> <=> ToSet(s) = {}
           /\ s # <<>> => s[1] \in ToSet(s)
           /\ ToSet(s) \subseteq X
BY DEF ToSet

LEMMA MinIs ==
    ASSUME NEW S \in SUBSET Nat, S # {}
    PROVE  Min(S) \in S /\ \A x \in S : Min(S) <= x
<1>1. \E m \in S : \A x \in S : m <= x
  BY LeastNatural
<1> QED BY <1>1 DEF Min

LEMMA FirstLeastIs ==
    ASSUME NEW s \in Seq(Options), s # <<>>
    PROVE  FirstLeast(s) \in ToSet(s) /\ \A x \in ToSet(s) : FirstLeast(s).amount <= x.amount
<1> DEFINE D == DOMAIN s
           Amounts == {s[i].amount : i \in D}
           First(i) == \A j \in DOMAIN s :
                         s[i].amount < s[j].amount \/ (s[i].amount = s[j].amount /\ i <= j)
           first == CHOOSE i \in DOMAIN s : First(i)
<1>1. D = 1..Len(s) /\ D \in SUBSET Nat /\ D # {}
  <2>1. Len(s) \in Nat /\ Len(s) # 0
    OBVIOUS
  <2>2. D = 1..Len(s) /\ 1 \in 1..Len(s)
    BY <2>1
  <2> QED BY <2>2
<1>2. ASSUME NEW i \in D PROVE s[i].amount \in Nat
  <2>1. s[i] \in Options
    OBVIOUS
  <2> QED BY <2>1, OptionFacts
<1>3. PICK a \in Amounts : \A b \in Amounts : a <= b
  <2>1. Amounts \in SUBSET Nat /\ Amounts # {}
    BY <1>1, <1>2
  <2> HIDE DEF Amounts
  <2> QED BY <2>1, LeastNatural
<1> DEFINE Places == {i \in D : s[i].amount = a}
<1>4. PICK i \in Places : \A j \in Places : i <= j
  <2>1. Places \in SUBSET Nat /\ Places # {}
    BY <1>1, <1>3
  <2> HIDE DEF Places
  <2> QED BY <2>1, LeastNatural
<1>5. First(i)
  <2>1. ASSUME NEW j \in D PROVE s[i].amount < s[j].amount \/ (s[i].amount = s[j].amount /\ i <= j)
    <3>1. a <= s[j].amount /\ s[i].amount = a /\ a \in Nat /\ s[j].amount \in Nat
      BY <1>2, <1>3, <1>4
    <3>2. s[j].amount = a => i <= j
      BY <1>4
    <3> QED BY <3>1, <3>2
  <2> QED BY <2>1
<1>6. first \in D /\ First(first)
  <2>1. \E k \in D : First(k)
    BY <1>4, <1>5
  <2> HIDE DEF First
  <2> QED BY <2>1
<1>7. FirstLeast(s) = s[first]
  BY DEF FirstLeast
<1> HIDE DEF first
<1>8. \A j \in D : s[first].amount <= s[j].amount
  BY <1>2, <1>6
<1> HIDE DEF D
<1>9. ToSet(s) = {s[j] : j \in D}
  BY DEF ToSet, D
<1> QED BY <1>6, <1>7, <1>8, <1>9

\* The bounds on the price of an option are numbers, where there are any.
PriceBounds(c) == c.maxAmount \in Nat \cup {None} /\ c.maxUsd \in Nat \cup {None}

\* The option "cheapest" takes from a result, when one in USDC is eligible, is in USDC and
\* as cheap as the cheapest the comparator saw.
LEMMA CheapestOption ==
    ASSUME NEW r, r.opts \in Seq(Options), r.live, NEW c, c.rails = None, PriceBounds(c),
           NEW q \in ToSet(Eligible(r, c)), Known(q)
    PROVE  LET o == Picked(r, "cheapest", c)
           IN  /\ o # None /\ Known(o) /\ o.amount = LeastUsd(r) /\ LeastUsd(r) \in Nat
               /\ LeastUsd(r) # None /\ LeastUsd(r) <= q.amount
<1> DEFINE fit == Eligible(r, c)
           KnownOnes == {o \in ToSet(fit) : Known(o)}
           usd == Only(fit, KnownOnes)
           All == {Usd(o) : o \in ToSet(r.opts)} \ {None}
<1>1. fit \in Seq(Options) /\ \A o : o \in ToSet(fit) <=> o \in ToSet(r.opts) /\ OptionFits(o, c)
  BY EligibleIs
<1>2. ASSUME NEW o \in ToSet(r.opts) PROVE o \in Options /\ o.amount \in Nat /\ o.amount # None
  <2>1. o \in Options
    BY NothingIn
  <2> QED BY <2>1, OptionFacts, NoneAssumption
<1> HIDE DEF fit
<1>3. /\ usd \in Seq(Options)
      /\ \A o : o \in ToSet(usd) <=> o \in ToSet(fit) /\ o \in KnownOnes
  <2> HIDE DEF KnownOnes
  <2> QED BY <1>1, OnlyKeeps
<1>4. q \in ToSet(fit)
  BY DEF fit
<1>5. usd # <<>> /\ fit # <<>>
  <2>1. q \in ToSet(usd)
    BY <1>3, <1>4
  <2> HIDE DEF usd
  <2> QED BY <1>1, <1>3, <1>4, <2>1, NothingIn
<1>6. Picked(r, "cheapest", c) = FirstLeast(usd)
  BY <1>5 DEF Picked, fit
<1> HIDE DEF usd
<1>7. FirstLeast(usd) \in ToSet(usd) /\ \A x \in ToSet(usd) : FirstLeast(usd).amount <= x.amount
  BY <1>3, <1>5, FirstLeastIs
<1>8. All \in SUBSET Nat /\ q.amount \in All
  BY <1>1, <1>2, <1>4 DEF Usd
<1>9. LeastUsd(r) = Min(All) /\ Min(All) \in All /\ \A x \in All : Min(All) <= x
  <2>1. LeastUsd(r) = IF All = {} THEN None ELSE Min(All)
    BY DEF LeastUsd, Least, Usds
  <2> HIDE DEF All
  <2> QED BY <2>1, <1>8, MinIs
<1>10. PICK m \in ToSet(r.opts) : Known(m) /\ m.amount = Min(All)
  <2>1. PICK m \in ToSet(r.opts) : Usd(m) = Min(All) /\ Usd(m) # None
    BY <1>9
  <2> QED BY <2>1 DEF Usd
<1>11. Min(All) <= q.amount /\ q.amount \in Nat /\ Min(All) \in Nat
  BY <1>8, <1>9
<1> HIDE DEF All
<1>12. OptionFits(m, c)
  <2>1. OptionFits(q, c)
    BY <1>1, <1>4
  <2>2. c.maxAmount = None \/ q.amount <= c.maxAmount
    BY <2>1 DEF OptionFits
  <2>3. c.maxUsd = None \/ q.amount <= c.maxUsd
    BY <2>1 DEF OptionFits, AtMost, Usd
  <2>4. c.maxAmount = None \/ m.amount <= c.maxAmount
    BY <2>2, <1>10, <1>11 DEF PriceBounds
  <2>5. c.maxUsd = None \/ m.amount <= c.maxUsd
    BY <2>3, <1>10, <1>11 DEF PriceBounds
  <2> QED BY <2>4, <2>5, <1>2, <1>10 DEF OptionFits, AtMost, Usd
<1>13. m \in ToSet(usd)
  BY <1>1, <1>3, <1>10, <1>12
<1> DEFINE o == FirstLeast(usd)
<1>14. o \in ToSet(r.opts) /\ Known(o)
  BY <1>1, <1>3, <1>7
<1>15. o.amount <= Min(All)
  BY <1>7, <1>10, <1>13
<1>16. Min(All) <= o.amount /\ o.amount \in Nat
  <2>1. o.amount \in All
    BY <1>2, <1>14 DEF All, Usd
  <2> QED BY <2>1, <1>8, <1>9
<1>17. o # None
  BY <1>2, <1>14, OptionFacts
<1>18. LeastUsd(r) # None
  BY <1>9, <1>11, NoneAssumption
<1> QED BY <1>6, <1>9, <1>11, <1>14, <1>15, <1>16, <1>17, <1>18
-----------------------------------------------------------------------------
\* What passes and may be selected is viable, and nothing else.
LEMMA ViableIs ==
    ASSUME NEW rs \in Seq(Results), NEW c
    PROVE  /\ Viable(rs, c) \in Seq(Results)
           /\ \A r : r \in ToSet(Viable(rs, c)) <=>
                r \in ToSet(rs) /\ Passes(r, c) /\ Selectable(r, c)
<1> DEFINE S == {r \in ToSet(rs) : Passes(r, c) /\ Selectable(r, c)}
<1>1. Viable(rs, c) = Only(rs, S)
  BY DEF Viable
<1>2. /\ Only(rs, S) \in Seq(Results)
      /\ \A r : r \in ToSet(Only(rs, S)) <=> r \in ToSet(rs) /\ r \in S
  <2> HIDE DEF S
  <2> QED BY OnlyKeeps
<1> QED BY <1>1, <1>2

\* An eligible option in USDC makes a result one of those that compare in USD.
LEMMA ComparableIs ==
    ASSUME NEW rs \in Seq(Results), NEW c, NEW r \in ToSet(rs), Usds(PoolOf(r, c)) # {}
    PROVE  /\ Comparable(rs, c) \in Seq(Results)
           /\ \A x : x \in ToSet(Comparable(rs, c)) <=> x \in ToSet(rs) /\ Usds(PoolOf(x, c)) # {}
<1> DEFINE S == {x \in ToSet(rs) : Usds(PoolOf(x, c)) # {}}
           usd == Only(rs, S)
<1>1. /\ usd \in Seq(Results)
      /\ \A x : x \in ToSet(usd) <=> x \in ToSet(rs) /\ x \in S
  <2> HIDE DEF S
  <2> QED BY OnlyKeeps
<1>2. r \in ToSet(usd)
  BY <1>1
<1>3. usd # <<>>
  <2> HIDE DEF usd
  <2> QED BY <1>1, <1>2, NothingIn
<1>4. Comparable(rs, c) = usd
  BY <1>3 DEF Comparable
<1> HIDE DEF usd
<1> QED BY <1>1, <1>4

LEMMA RankableIs ==
    ASSUME NEW rs \in Seq(Results), NEW objective, NEW c
    PROVE  /\ Rankable(rs, objective, c) \in Seq(Results)
           /\ ToSet(Rankable(rs, objective, c)) \subseteq ToSet(rs)
           /\ \A r \in ToSet(rs) :
                /\ objective = "cheapest" => Usds(PoolOf(r, c)) # {}
                /\ objective = "fastest_settlement" => SettlementOf(r) # None
                /\ objective # "lowest_total_cost"
                => r \in ToSet(Rankable(rs, objective, c))
<1> DEFINE Part(S) == /\ Only(rs, S) \in Seq(Results) /\ ToSet(Only(rs, S)) \subseteq ToSet(rs)
                      /\ \A r \in ToSet(rs) : r \in S => r \in ToSet(Only(rs, S))
<1>1. ASSUME NEW S PROVE Part(S)
  BY OnlyKeeps
<1>2. CASE objective = "cheapest"
  <2>1. Rankable(rs, objective, c) = Comparable(rs, c)
    BY <1>2 DEF Rankable
  <2>2. \/ Comparable(rs, c) = <<>>
        \/ \E S : Comparable(rs, c) = Only(rs, S)
    BY DEF Comparable
  <2>3. Comparable(rs, c) \in Seq(Results) /\ ToSet(Comparable(rs, c)) \subseteq ToSet(rs)
    <3>1. CASE Comparable(rs, c) = <<>>
      <4>1. ToSet(<<>>) = {}
        BY DEF ToSet
      <4> QED BY <3>1, <4>1
    <3>2. CASE \E S : Comparable(rs, c) = Only(rs, S)
      BY <3>2, <1>1
    <3> QED BY <2>2, <3>1, <3>2
  <2>4. ASSUME NEW r \in ToSet(rs), Usds(PoolOf(r, c)) # {} PROVE r \in ToSet(Comparable(rs, c))
    BY <2>4, ComparableIs
  <2> QED BY <1>2, <2>1, <2>3, <2>4
<1>3. CASE objective = "lowest_total_cost"
  <2> DEFINE S == {r \in ToSet(rs) : TotalOf(r) # None}
  <2>1. Rankable(rs, objective, c) = Only(rs, S)
    BY <1>3 DEF Rankable
  <2>2. Part(S)
    BY <1>1
  <2> HIDE DEF S
  <2> QED BY <1>3, <2>1, <2>2
<1>4. CASE objective = "fastest_settlement"
  <2> DEFINE S == {r \in ToSet(rs) : SettlementOf(r) # None}
  <2>1. Rankable(rs, objective, c) = Only(rs, S)
    BY <1>4 DEF Rankable
  <2>2. Part(S)
    BY <1>1
  <2>3. \A r \in ToSet(rs) : SettlementOf(r) # None => r \in S
    OBVIOUS
  <2> HIDE DEF S
  <2> QED BY <1>4, <2>1, <2>2, <2>3
<1>5. CASE objective \notin {"cheapest", "lowest_total_cost", "fastest_settlement"}
  <2>1. Rankable(rs, objective, c) = rs
    BY <1>5 DEF Rankable
  <2> QED BY <2>1
<1> QED BY <1>2, <1>3, <1>4, <1>5

\* The winner is one of the candidates, and there is one if any that ranks has an option.
LEMMA WinnerIs ==
    ASSUME NEW rs \in Seq(Results), NEW objective, NEW c
    PROVE  /\ PickWinner(rs, objective, c) # None => PickWinner(rs, objective, c) \in ToSet(rs)
           /\ \A r \in ToSet(Rankable(Viable(rs, c), objective, c)) :
                Picked(r, objective, c) # None => PickWinner(rs, objective, c) # None
           /\ LET order == Sorted(objective, Rankable(Viable(rs, c), objective, c))
              IN  order # <<>> /\ Picked(order[1], objective, c) # None =>
                    PickWinner(rs, objective, c) = order[1]
<1> DEFINE ranking == Rankable(Viable(rs, c), objective, c)
           order == Sorted(objective, ranking)
           S == {r \in ToSet(order) : Picked(r, objective, c) # None}
           good == Only(order, S)
<1>1. PickWinner(rs, objective, c) = IF good = <<>> THEN None ELSE good[1]
  BY DEF PickWinner
<1>2. ranking \in Seq(Results) /\ ToSet(ranking) \subseteq ToSet(rs)
  BY ViableIs, RankableIs
<1> HIDE DEF ranking
<1>3. order \in Seq(Results) /\ ToSet(order) = ToSet(ranking)
  BY <1>2, SortedKeeps
<1> HIDE DEF order
<1>4. /\ good \in Seq(Results)
      /\ \A x : x \in ToSet(good) <=> x \in ToSet(order) /\ x \in S
      /\ order # <<>> /\ order[1] \in S => good # <<>> /\ good[1] = order[1]
  <2> HIDE DEF S
  <2> QED BY <1>3, OnlyKeeps
<1> HIDE DEF good
<1>5. good # <<>> => good[1] \in ToSet(good) /\ good[1] \in Results
  BY <1>4, NothingIn
<1>6. PickWinner(rs, objective, c) # None => PickWinner(rs, objective, c) \in ToSet(rs)
  BY <1>1, <1>2, <1>3, <1>4, <1>5
<1>7. ASSUME NEW r \in ToSet(ranking), Picked(r, objective, c) # None
      PROVE  PickWinner(rs, objective, c) # None
  <2>1. r \in ToSet(good)
    BY <1>3, <1>4, <1>7
  <2>2. good # <<>>
    BY <1>4, <2>1, NothingIn
  <2> QED BY <2>2, <1>1, <1>5, OptionFacts
<1>8. order # <<>> /\ Picked(order[1], objective, c) # None => PickWinner(rs, objective, c) = order[1]
  <2>1. order # <<>> => order[1] \in ToSet(order)
    BY <1>3, NothingIn
  <2> QED BY <2>1, <1>1, <1>4
<1> QED BY <1>6, <1>7, <1>8 DEF order, ranking

\* With "cheapest" and no lock on the rails the winner's option is the cheapest in USDC of
\* all that were viable.
LEMMA CheapestFirst ==
    ASSUME NEW rs \in Seq(Results), NEW c, c.rails = None, PriceBounds(c),
           NEW r \in ToSet(rs), Passes(r, c), Selectable(r, c),
           NEW q \in ToSet(Eligible(r, c)), Known(q)
    PROVE  LET w == PickWinner(rs, "cheapest", c)
           IN  /\ w # None /\ Known(Picked(w, "cheapest", c))
               /\ Picked(w, "cheapest", c).amount <= q.amount
<1> DEFINE viable == Viable(rs, c)
           ranking == Rankable(viable, "cheapest", c)
<1>1. /\ viable \in Seq(Results)
      /\ \A x : x \in ToSet(viable) <=> x \in ToSet(rs) /\ Passes(x, c) /\ Selectable(x, c)
  BY ViableIs
<1> HIDE DEF viable
<1>2. ASSUME NEW x \in ToSet(viable)
      PROVE  /\ x \in Results /\ x.opts \in Seq(Options) /\ x.live
             /\ PoolOf(x, c) = Eligible(x, c)
             /\ Eligible(x, c) \in Seq(Options)
  <2>1. x \in Results
    BY <1>1, NothingIn
  <2>2. Passes(x, c)
    BY <1>1
  <2> QED BY <2>1, <2>2, OptionFacts, EligibleIs DEF Passes, Payable, PoolOf
<1>3. \A o \in Options : o.amount \in Nat /\ o.amount # None
  BY OptionFacts, NoneAssumption
<1>4. Usds(PoolOf(r, c)) # {} /\ r \in ToSet(viable)
  <2>1. r \in ToSet(viable)
    BY <1>1
  <2>2. q \in Options
    BY <1>2, <2>1, NothingIn
  <2>3. Usd(q) # None /\ Usd(q) \in Usds(Eligible(r, c))
    BY <1>3, <2>2 DEF Usds, Usd
  <2> QED BY <1>2, <2>1, <2>3
<1>5. /\ ranking \in Seq(Results)
      /\ \A x : x \in ToSet(ranking) <=> x \in ToSet(viable) /\ Usds(PoolOf(x, c)) # {}
  <2>1. ranking = Comparable(viable, c)
    BY DEF Rankable
  <2> QED BY <1>1, <1>4, <2>1, ComparableIs
<1> HIDE DEF ranking
<1>6. ASSUME NEW x \in ToSet(ranking)
      PROVE  LET o == Picked(x, "cheapest", c)
             IN  /\ o # None /\ Known(o) /\ o.amount = LeastUsd(x)
                 /\ LeastUsd(x) \in Nat /\ LeastUsd(x) # None
  <2>1. x \in ToSet(viable) /\ Usds(Eligible(x, c)) # {}
    BY <1>2, <1>5
  <2>2. PICK o \in ToSet(Eligible(x, c)) : Usd(o) # None
    BY <2>1 DEF Usds
  <2>3. Known(o)
    BY <2>2 DEF Usd
  <2>4. x.opts \in Seq(Options) /\ x.live
    BY <1>2, <2>1
  <2> QED BY <2>3, <2>4, CheapestOption
<1>7. r \in ToSet(ranking) /\ LeastUsd(r) <= q.amount /\ q.amount \in Nat
  <2>1. r.opts \in Seq(Options) /\ r.live /\ Eligible(r, c) \in Seq(Options)
    BY <1>2, <1>4
  <2>2. LeastUsd(r) <= q.amount
    BY <2>1, CheapestOption
  <2>3. q \in Options
    BY <2>1, NothingIn
  <2> QED BY <1>3, <1>4, <1>5, <2>2, <2>3
<1> DEFINE n == Len(ranking)
           D == 1..n
           A == [i \in D |-> LeastUsd(ranking[i])]
           before == Befores("cheapest", ranking)
<1>8. DOMAIN ranking = D /\ ranking # <<>> /\ n \in Nat /\ \A i \in D : ranking[i] \in ToSet(ranking)
  <2>1. ranking # <<>>
    BY <1>5, <1>7, NothingIn
  <2> QED BY <1>5, <2>1 DEF ToSet
<1>9. Agrees(A, before, D)
  <2>1. A \in [D -> Int] /\ \A i \in D : A[i] = LeastUsd(ranking[i]) /\ A[i] \in Int /\ A[i] # None
    BY <1>6, <1>8
  <2> HIDE DEF A
  <2>2. ASSUME NEW i \in D, NEW j \in D
        PROVE  IF <<i, j>> \in before THEN A[i] <= A[j] ELSE A[j] <= A[i]
    <3>1. <<i, j>> \in before <=> CmpCheapest(ranking[i], ranking[j]) < 0
      <4>1. Cmp("cheapest", ranking[i], ranking[j]) = CmpCheapest(ranking[i], ranking[j])
        BY DEF Cmp
      <4>2. <<i, j>> \in (DOMAIN ranking) \X (DOMAIN ranking)
        <5>1. i \in DOMAIN ranking /\ j \in DOMAIN ranking
          BY <1>8
        <5> QED BY ONLY <5>1
      <4>3. <<i, j>> \in before <=> Cmp("cheapest", ranking[i], ranking[j]) < 0
        BY <4>2 DEF Befores
      <4> HIDE DEF before
      <4> QED BY <4>1, <4>3
    <3>2. CmpAmount(ranking[i], ranking[j]) = Ascending(A[i], A[j])
      BY <2>1 DEF CmpAmount
    <3>3. CASE A[i] < A[j]
      <4>1. Ascending(A[i], A[j]) = -1
        BY <2>1, <3>3 DEF Ascending
      <4>2. CmpCheapest(ranking[i], ranking[j]) = -1
        BY <3>2, <4>1 DEF CmpCheapest, Then
      <4> QED BY <2>1, <3>1, <3>3, <4>2
    <3>4. CASE A[j] < A[i]
      <4>1. Ascending(A[i], A[j]) = 1
        BY <2>1, <3>4 DEF Ascending
      <4>2. CmpCheapest(ranking[i], ranking[j]) = 1
        BY <3>2, <4>1 DEF CmpCheapest, Then
      <4> QED BY <2>1, <3>1, <3>4, <4>2
    <3>5. CASE A[i] = A[j]
      BY <2>1, <3>5
    <3> HIDE DEF D
    <3> QED BY <2>1, <3>3, <3>4, <3>5
  <2> HIDE DEF D, before
  <2> QED BY <2>1, <2>2 DEF Agrees
<1>10. PICK order : IsSorting(order, "cheapest", ranking)
  <2> HIDE DEF n, before, A
  <2> QED BY <1>5, <1>8, SortedBy
<1> DEFINE sorted == Sorted("cheapest", ranking)
<1>11. /\ order \in Seq(D) /\ Len(order) = n /\ ToSet(order) = D
       /\ sorted = [i \in D |-> ranking[order[i]]] /\ Rises(A, order)
  BY <1>9, <1>10 DEF IsSorting
<1> HIDE DEF A, sorted, before
<1>12. DOMAIN order = D /\ 1 \in D /\ \A i \in D : order[i] \in D
  BY <1>8, <1>11
<1>13. sorted # <<>> /\ sorted[1] = ranking[order[1]]
  <2>1. DOMAIN sorted = D /\ sorted[1] = ranking[order[1]]
    BY <1>11, <1>12
  <2> QED BY <1>12, <2>1
<1>14. PICK k \in D : ranking[k] = r
  BY <1>7, <1>8 DEF ToSet
<1>15. PICK i \in D : order[i] = k
  BY <1>11, <1>12 DEF ToSet
<1>16. A[order[1]] <= A[order[i]]
  <2>1. A[order[1]] \in Int
    BY <1>6, <1>8, <1>12 DEF A
  <2>2. CASE i = 1
    BY <2>1, <2>2
  <2>3. CASE i # 1
    <3>1. 1 < i
      BY <2>3
    <3> QED BY <1>11, <1>12, <3>1 DEF Rises
  <2> QED BY <2>2, <2>3
<1> DEFINE w == ranking[order[1]]
<1>17. LeastUsd(w) <= LeastUsd(r)
  BY <1>12, <1>14, <1>15, <1>16 DEF A
<1>18. w \in ToSet(ranking)
  BY <1>8, <1>12
<1>19. /\ Picked(w, "cheapest", c) # None /\ Known(Picked(w, "cheapest", c))
       /\ Picked(w, "cheapest", c).amount = LeastUsd(w)
       /\ LeastUsd(w) \in Nat /\ LeastUsd(r) \in Nat
  BY <1>6, <1>7, <1>18
<1>20. PickWinner(rs, "cheapest", c) = w
  <2>1. sorted # <<>> /\ Picked(sorted[1], "cheapest", c) # None
    BY <1>13, <1>19
  <2>2. sorted = Sorted("cheapest", Rankable(Viable(rs, c), "cheapest", c))
    BY DEF sorted, ranking, viable
  <2> QED BY <2>1, <2>2, <1>13, WinnerIs
<1>21. w # None
  <2>1. w \in Results
    BY <1>5, <1>18, NothingIn
  <2> QED BY <2>1, OptionFacts
<1> HIDE DEF w
<1> QED BY <1>7, <1>17, <1>19, <1>20, <1>21
-----------------------------------------------------------------------------
\* passes_constraints and unmet_constraint_names tell the same of a payable result.
LEMMA UnmetIsNotPassing ==
    ASSUME NEW r \in Results, NEW c, Payable(r)
    PROVE  Passes(r, c) <=> Unmet(r, c) = {}
<1> DEFINE E == Eligible(r, c)
<1>1. r.live /\ r.opts # <<>> /\ r.opts \in Seq(Options)
  BY OptionFacts DEF Payable
<1>2. E = <<>> <=> \E k \in {"networks", "maxUsd", "maxAmount"} : Fails(r, c, k)
  <2>1. Fails(r, c, "networks") <=> c.rails # None /\ E = <<>>
    BY DEF Fails
  <2>2. Fails(r, c, "maxUsd") <=> c.maxUsd # None /\ E = <<>>
    BY DEF Fails
  <2>3. Fails(r, c, "maxAmount") <=> c.maxAmount # None /\ E = <<>>
    BY DEF Fails
  <2>4. ASSUME c.rails = None, c.maxUsd = None, c.maxAmount = None PROVE E # <<>>
    <3>1. r.opts[1] \in ToSet(r.opts)
      BY <1>1, NothingIn
    <3>2. OptionFits(r.opts[1], c)
      BY <2>4 DEF OptionFits, AtMost
    <3>3. r.opts[1] \in ToSet(E) /\ E \in Seq(Options)
      BY <1>1, <3>1, <3>2, EligibleIs
    <3> HIDE DEF E
    <3> QED BY <3>3, NothingIn
  <2> HIDE DEF E
  <2> QED BY <2>1, <2>2, <2>3, <2>4
<1>3. ResultFits(r, c) /\ AtMost(SettlementOf(r), c.maxSettlement) /\ AtMost(TotalOf(r), c.maxTotal)
      <=> ~\E k \in ConstraintName \ {"networks", "maxUsd", "maxAmount"} : Fails(r, c, k)
  <2>1. /\ Fails(r, c, "maxProbe") <=> ~AtMost(r.latency, c.maxProbe)
        /\ Fails(r, c, "maxService") <=> ~AtMost(r.service, c.maxService)
        /\ Fails(r, c, "minObservations") <=> ~AtLeast(Observations(r), c.minObservations)
    BY DEF Fails
  <2>2. /\ Fails(r, c, "minSuccess") <=> ~AtLeast(Success(r.evidence), c.minSuccess)
        /\ Fails(r, c, "minScore") <=> ~AtLeast(Score(r.evidence), c.minScore)
        /\ Fails(r, c, "minConfidence") <=> ~AtLeast(Confidence(r.evidence), c.minConfidence)
    BY DEF Fails
  <2>3. /\ Fails(r, c, "maxSettlement") <=> ~AtMost(SettlementOf(r), c.maxSettlement)
        /\ Fails(r, c, "maxTotal") <=> ~AtMost(TotalOf(r), c.maxTotal)
        /\ Fails(r, c, "invocable") <=> (c.invocable /\ ~Invocable(r))
    BY DEF Fails
  <2>4. ConstraintName \ {"networks", "maxUsd", "maxAmount"} =
          {"maxProbe", "maxService", "minObservations", "minSuccess", "minScore",
           "minConfidence", "maxSettlement", "maxTotal", "invocable"}
    BY DEF ConstraintName
  <2> QED BY <2>1, <2>2, <2>3, <2>4 DEF ResultFits
<1>4. Unmet(r, c) = {k \in ConstraintName : Fails(r, c, k)}
  BY <1>1 DEF Unmet
<1>5. {"networks", "maxUsd", "maxAmount"} \subseteq ConstraintName
  BY DEF ConstraintName
<1>6. Unmet(r, c) = {} <=> /\ ~\E k \in {"networks", "maxUsd", "maxAmount"} : Fails(r, c, k)
                           /\ ~\E k \in ConstraintName \ {"networks", "maxUsd", "maxAmount"} : Fails(r, c, k)
  BY <1>4, <1>5
<1> QED BY <1>2, <1>3, <1>6 DEF Passes

\* The selection set holds every live candidate whose payee is the one its catalog claims.
LEMMA SelectionKeeps ==
    ASSUME NEW rs \in Seq(Results), NEW c
    PROVE  /\ SelectionSet(rs, c) \in Seq(Results)
           /\ ToSet(SelectionSet(rs, c)) \subseteq ToSet(rs)
           /\ \A r \in ToSet(rs) :
                r.live /\ Selectable(r, c) /\ ~r.changed => r \in ToSet(SelectionSet(rs, c))
<1> DEFINE S == {r \in ToSet(rs) : r.live /\ Selectable(r, c)}
           live == Only(rs, S)
           K == {r \in ToSet(live) : ~r.changed}
           kept == Only(live, K)
<1>1. live \in Seq(Results) /\ \A r : r \in ToSet(live) <=> r \in ToSet(rs) /\ r \in S
  <2> HIDE DEF S
  <2> QED BY OnlyKeeps
<1>2. kept \in Seq(Results) /\ \A r : r \in ToSet(kept) <=> r \in ToSet(live) /\ r \in K
  <2> HIDE DEF K, live
  <2> QED BY <1>1, OnlyKeeps
<1>3. SelectionSet(rs, c) = IF kept # <<>> THEN kept ELSE live
  BY DEF SelectionSet
<1> HIDE DEF kept, live
<1>4. ASSUME NEW r \in ToSet(rs), r.live, Selectable(r, c), ~r.changed PROVE kept # <<>> /\ r \in ToSet(kept)
  <2>1. r \in ToSet(kept)
    BY <1>1, <1>2, <1>4
  <2> QED BY <2>1, <1>2, NothingIn
<1> QED BY <1>1, <1>2, <1>3, <1>4

\* The rows of an answer include its winner's.
LEMMA WinnerHasRow ==
    ASSUME NEW rs \in Seq(Results), NEW w \in ToSet(rs)
    PROVE  w.url \in ToSet(Rows(rs, w))
<1> DEFINE urls == [i \in DOMAIN rs |-> rs[i].url]
           top == SubSeq(urls, 1, Capped(Len(urls), ComparedCap))
           others == Only(urls, ToSet(urls) \ {w.url})
           part == SubSeq(others, 1, Capped(Len(others), ComparedCap - 1))
<1>1. w # None
  BY OptionFacts, NothingIn
<1>2. CASE w.url \in ToSet(top)
  BY <1>2 DEF Rows
<1>3. CASE w.url \notin ToSet(top)
  <2>1. Rows(rs, w) = Append(part, w.url)
    BY <1>1, <1>3 DEF Rows
  <2>2. urls \in Seq(ToSet(urls))
    BY DEF ToSet
  <2>3. others \in Seq(ToSet(urls))
    <3> HIDE DEF urls
    <3> QED BY <2>2, OnlyKeeps
  <2>4. Capped(Len(others), ComparedCap - 1) \in 0..Len(others)
    <3>1. ComparedCap - 1 \in Nat /\ Len(others) \in Nat
      BY <2>3, CapAssumption
    <3> HIDE DEF others
    <3> QED BY <3>1 DEF Capped
  <2>5. part \in Seq(ToSet(urls))
    <3> HIDE DEF others, urls
    <3> QED BY <2>3, <2>4
  <2> HIDE DEF part, urls
  <2>6. Len(Append(part, w.url)) = Len(part) + 1 /\ Append(part, w.url)[Len(part) + 1] = w.url
    BY <2>5
  <2>7. Len(part) + 1 \in DOMAIN Append(part, w.url)
    BY <2>5
  <2> QED BY <2>1, <2>6, <2>7 DEF ToSet
<1> QED BY <1>2, <1>3
-----------------------------------------------------------------------------
(* The shortlist.                                                          *)

LEMMA ListingFacts ==
    ASSUME NEW l \in Listed
    PROVE  /\ l.score \in Int /\ l.traction \in Int /\ l.fresh \in Int /\ l.n \in Int
           /\ l.url \in Url /\ l.rail \in Rail \cup {None}
           /\ Preferred(l) \in {0, 1}
<1>1. {l.score, l.traction, l.fresh, l.n} \subseteq Int /\ l.url \in Url /\ l.rail \in Rail \cup {None}
  BY PageAssumption
<1>2. Preferred(l) \in {0, 1}
  BY DEF Preferred, Bit
<1> QED BY <1>1, <1>2

\* Preferred rails first, and on the same side of that the better match first.
Precedes(l, m) ==
    Preferred(l) >= Preferred(m) /\ (Preferred(l) = Preferred(m) => l.score >= m.score)
Falling(s) == \A i, j \in 1..Len(s) : i < j => Precedes(s[i], s[j])

LEMMA RankedFalls ==
    ASSUME NEW ls \in Seq(Listed)
    PROVE  /\ Ranked(ls) \in Seq(Listed)
           /\ \A l \in ToSet(Ranked(ls)) : l \in ToSet(ls) /\ l.score > 0
           /\ Falling(Ranked(ls))
<1> DEFINE S == {l \in ToSet(ls) : l.score > 0}
           match == Only(ls, S)
           key(i) == <<Preferred(match[i]), match[i].score, match[i].traction, -i>>
           keys == [i \in DOMAIN match |-> key(i)]
           n == Len(match)
<1>1. Ranked(ls) = Arranged(match, keys)
  BY DEF Ranked
<1>2. match \in Seq(Listed) /\ \A l : l \in ToSet(match) <=> l \in ToSet(ls) /\ l \in S
  <2> HIDE DEF S
  <2> QED BY OnlyKeeps
<1> HIDE DEF match
<1>3. n \in Nat /\ DOMAIN match = 1..n /\ \A i \in 1..n : match[i] \in Listed
  BY <1>2
<1>4. ASSUME NEW i \in 1..n
      PROVE  /\ Preferred(match[i]) \in {0, 1} /\ match[i].score \in Int /\ match[i].traction \in Int
             /\ -i \in Int
  BY <1>3, ListingFacts
<1>5. Keyed(keys, n)
  <2>1. ASSUME NEW i \in 1..n PROVE key(i) \in [1..4 -> Int] /\ key(i)[4] = -i
    BY <1>4
  <2>2. keys = [i \in 1..n |-> key(i)]
    BY <1>3
  <2> HIDE DEF keys, key, n
  <2>3. keys \in [1..n -> [1..4 -> Int]]
    BY <2>1, <2>2
  <2>4. ASSUME NEW i \in 1..n, NEW j \in 1..n, i # j PROVE keys[i][4] # keys[j][4]
    BY <2>1, <2>2, <2>4, <1>3
  <2>5. 4 \in Nat \ {0}
    OBVIOUS
  <2> QED BY <2>3, <2>4, <2>5 DEF Keyed
<1>6. Ranked(ls) \in Seq(Listed) /\ Len(Ranked(ls)) = n /\ ToSet(Ranked(ls)) = ToSet(match)
  <2> HIDE DEF keys
  <2> QED BY <1>1, <1>2, <1>5, ArrangedKeeps
<1>7. Falling(Ranked(ls))
  <2>1. PICK p : Arranges(p, match, keys)
    <3> HIDE DEF keys
    <3> QED BY <1>2, <1>5, ArrangedBy
  <2>2. /\ p \in [1..n -> 1..n] /\ Ranked(ls) = [i \in 1..n |-> match[p[i]]]
        /\ \A i, j \in 1..n : i < j => Above(keys[p[i]], keys[p[j]])
    BY <1>1, <2>1 DEF Arranges
  <2>3. ASSUME NEW a \in 1..n, NEW b \in 1..n, Above(keys[a], keys[b]) PROVE Precedes(match[a], match[b])
    <3>1. keys[a] = key(a) /\ keys[b] = key(b)
      BY <1>3
    <3>2. PICK d \in DOMAIN key(a) : key(a)[d] > key(b)[d] /\ \A e \in 1..(d - 1) : key(a)[e] = key(b)[e]
      <4> HIDE DEF keys, key
      <4> QED BY <2>3, <3>1 DEF Above
    <3>3. /\ DOMAIN key(a) = 1..4
          /\ key(a)[1] = Preferred(match[a]) /\ key(b)[1] = Preferred(match[b])
          /\ key(a)[2] = match[a].score /\ key(b)[2] = match[b].score
      OBVIOUS
    <3> HIDE DEF key
    <3>4. d \in 1..4
      BY <3>2, <3>3
    <3>5. CASE d = 1
      BY <3>2, <3>3, <3>5, <1>4 DEF Precedes
    <3>6. CASE d = 2
      <4>1. 1 \in 1..(d - 1)
        BY <3>6
      <4> QED BY <4>1, <3>2, <3>3, <3>6, <1>4 DEF Precedes
    <3>7. CASE d > 2
      <4>1. 1 \in 1..(d - 1) /\ 2 \in 1..(d - 1)
        BY <3>4, <3>7
      <4> QED BY <4>1, <3>2, <3>3, <1>4 DEF Precedes
    <3> QED BY <3>4, <3>5, <3>6, <3>7
  <2> HIDE DEF keys, n
  <2>4. ASSUME NEW i \in 1..n, NEW j \in 1..n, i < j PROVE Precedes(Ranked(ls)[i], Ranked(ls)[j])
    <3>1. p[i] \in 1..n /\ p[j] \in 1..n /\ Above(keys[p[i]], keys[p[j]])
      BY <2>2, <2>4
    <3>2. Precedes(match[p[i]], match[p[j]])
      BY <2>3, <3>1
    <3> QED BY <2>2, <3>2
  <2> QED BY <2>4, <1>6 DEF Falling
<1>8. ASSUME NEW l \in ToSet(match) PROVE l \in ToSet(ls) /\ l.score > 0
  BY <1>2
<1> QED BY <1>6, <1>7, <1>8

OpenStep(v, head, i) ==
    IF i = 1 \/ Preferred(head[i]) # Preferred(head[i - 1]) THEN i
    ELSE IF head[v].score - head[i].score < CloseScore THEN v ELSE i
IsOpens(g, head) ==
    g = [i \in DOMAIN head |->
            IF i = 1 \/ Preferred(head[i]) # Preferred(head[i - 1]) THEN i
            ELSE IF head[g[i - 1]].score - head[i].score < CloseScore THEN g[i - 1] ELSE i]

\* A listing's cluster is opened at or before it, by one on its side that scores less than
\* CloseScore more; later listings never belong to earlier clusters.
Clusters(o, head, k) ==
    /\ \A i \in 1..k :
        /\ o[i] \in 1..i /\ Preferred(head[o[i]]) = Preferred(head[i])
        /\ head[o[i]].score - head[i].score < CloseScore
    /\ \A i, j \in 1..k : i <= j => o[i] <= o[j]
LEMMA OpensIs ==
    ASSUME NEW head \in Seq(Listed)
    PROVE  Clusters(Opens(head), head, Len(head))
<1> DEFINE n == Len(head)
           h == CHOOSE g : IsOpens(g, head)
           F == [i \in 1..n |-> [v \in 0..n |-> OpenStep(v, head, i)]]
<1>1. n \in Nat /\ DOMAIN head = 1..n /\ \A i \in 1..n : head[i] \in Listed
  OBVIOUS
<1>2. F \in [1..n -> [0..n -> 0..n]]
  <2>1. ASSUME NEW i \in 1..n, NEW v \in 0..n PROVE OpenStep(v, head, i) \in 0..n
    BY <1>1 DEF OpenStep
  <2> HIDE DEF n
  <2> QED BY <2>1
<1>3. PICK f \in [0..n -> 0..n] : Runs(f, 0, n, F)
  <2> HIDE DEF F, n
  <2>1. 0 \in 0..n
    BY <1>1
  <2> QED BY <1>1, <1>2, <2>1, Recursion
<1> DEFINE g == [i \in 1..n |-> f[i]]
<1>4. IsOpens(g, head)
  <2>1. ASSUME NEW i \in 1..n
        PROVE  g[i] = IF i = 1 \/ Preferred(head[i]) # Preferred(head[i - 1]) THEN i
            ELSE IF head[g[i - 1]].score - head[i].score < CloseScore THEN g[i - 1] ELSE i
    <3>1. i - 1 \in 0..n /\ f[i - 1] \in 0..n
      BY <1>1
    <3>2. f[i] = F[i][f[i - 1]]
      BY <1>3 DEF Runs
    <3>3. g[i] = OpenStep(f[i - 1], head, i)
      BY <3>1, <3>2
    <3>4. i # 1 => g[i - 1] = f[i - 1]
      BY <1>1
    <3> HIDE DEF g
    <3> QED BY <3>3, <3>4 DEF OpenStep
  <2>2. g = [i \in 1..n |-> g[i]]
    OBVIOUS
  <2> HIDE DEF g, n
  <2> QED BY <2>1, <2>2, <1>1 DEF IsOpens
<1>5. IsOpens(h, head)
  <2> HIDE DEF g
  <2> QED BY <1>4
<1>6. Opens(head) = h
  BY DEF Opens, IsOpens
<1> HIDE DEF h
<1>7. ASSUME NEW i \in 1..n PROVE h[i] = OpenStep(h[i - 1], head, i)
  BY <1>1, <1>5 DEF IsOpens, OpenStep
<1> DEFINE P == {k \in 0..n : Clusters(h, head, k)}
<1>8. 0 \in P
  BY <1>1 DEF Clusters
<1>9. ASSUME NEW k \in 0..n, k < n, k \in P PROVE k + 1 \in P
  <2> DEFINE i == k + 1
  <2>1. i \in 1..n /\ i \in 0..n /\ i - 1 = k /\ k \in Nat /\ CloseScore \in Nat \ {0}
    BY <1>1, <1>9, EngineAssumption
  <2>2. h[i] = OpenStep(h[k], head, i)
    BY <1>7, <2>1
  <2>3. Clusters(h, head, k)
    BY <1>9
  <2>4. head[i].score \in Int
    BY <1>1, <2>1, ListingFacts
  <2> HIDE DEF n, i
  <2>5. /\ h[i] \in 1..i /\ Preferred(head[h[i]]) = Preferred(head[i])
        /\ head[h[i]].score - head[i].score < CloseScore
        /\ k # 0 => h[k] <= h[i]
    <3>1. CASE h[i] = i
      <4>1. k # 0 => h[k] \in 1..k
        BY <2>3, <2>1 DEF Clusters
      <4>2. head[i].score - head[i].score < CloseScore
        BY <2>1, <2>4
      <4> QED BY <2>1, <3>1, <4>1, <4>2
    <3>2. CASE h[i] # i
      <4>1. /\ i # 1 /\ Preferred(head[i]) = Preferred(head[i - 1])
            /\ head[h[k]].score - head[i].score < CloseScore /\ h[i] = h[k]
        BY <2>2, <3>2 DEF OpenStep
      <4>2. k \in 1..k /\ k # 0
        BY <2>1, <4>1
      <4>3. h[k] \in 1..k /\ Preferred(head[h[k]]) = Preferred(head[k])
        BY <2>3, <4>2 DEF Clusters
      <4> QED BY <2>1, <4>1, <4>3
    <3> QED BY <3>1, <3>2
  <2>6. ASSUME NEW a \in 1..i, NEW b \in 1..i, a <= b PROVE h[a] <= h[b]
    <3>1. CASE b # i
      <4>1. a \in 1..k /\ b \in 1..k
        BY <2>1, <2>6, <3>1
      <4> QED BY <4>1, <2>3, <2>6 DEF Clusters
    <3>2. CASE b = i /\ a = i
      BY <3>2, <2>5
    <3>3. CASE b = i /\ a # i
      <4>1. a \in 1..k /\ k \in 1..k /\ a <= k /\ k # 0
        BY <2>1, <3>3
      <4>2. h[a] <= h[k] /\ h[a] \in 1..a /\ h[k] \in 1..k
        BY <4>1, <2>3 DEF Clusters
      <4> QED BY <4>1, <4>2, <2>5, <3>3
    <3> QED BY <3>1, <3>2, <3>3
  <2>7. ASSUME NEW a \in 1..i
        PROVE  /\ h[a] \in 1..a /\ Preferred(head[h[a]]) = Preferred(head[a])
               /\ head[h[a]].score - head[a].score < CloseScore
    <3>1. CASE a = i
      BY <2>5, <3>1
    <3>2. CASE a # i
      <4>1. a \in 1..k
        BY <2>1, <3>2
      <4> QED BY <4>1, <2>3 DEF Clusters
    <3> QED BY <3>1, <3>2
  <2>8. Clusters(h, head, i)
    BY <2>6, <2>7 DEF Clusters
  <2> QED BY <2>1, <2>8 DEF i
<1>10. n \in P
  <2> HIDE DEF P
  <2>1. \A k \in 0..n : k \in P
    <3> HIDE DEF n
    <3> QED BY <1>1, <1>8, <1>9, UpTo
  <2> QED BY <2>1, <1>1
<1> QED BY <1>6, <1>10
-----------------------------------------------------------------------------
\* History may put a match first only before one that is less than CloseScore better.
NearlyFalling(s) ==
    \A i, j \in 1..Len(s) :
        i < j /\ Preferred(s[i]) = Preferred(s[j]) => s[j].score - s[i].score < CloseScore

LEMMA BoostedFalls ==
    ASSUME NEW ls \in Seq(Listed), Falling(ls)
    PROVE  /\ Boosted(ls) \in Seq(Listed) /\ ToSet(Boosted(ls)) \subseteq ToSet(ls)
           /\ NearlyFalling(Boosted(ls))
<1> DEFINE w == Capped(Len(ls), HeadLength)
           head == SubSeq(ls, 1, w)
           tail == SubSeq(ls, w + 1, Len(ls))
           opens == Opens(head)
           trusted(l) == IF l.n >= WeakMin THEN l.n ELSE 0
           key(i) == <<Preferred(head[i]), -opens[i], head[i].fresh, Bit(head[i].n >= Mature),
                       Bit(head[i].n >= WeakMin), trusted(head[i]), -i>>
           keys == [i \in DOMAIN head |-> key(i)]
           front == Arranged(head, keys)
           n == Len(ls)
<1>1. n \in Nat /\ w \in 0..n /\ DOMAIN ls = 1..n /\ \A i \in 1..n : ls[i] \in Listed
  BY EngineAssumption DEF Capped
<1> HIDE DEF w
<1>2. head \in Seq(Listed) /\ Len(head) = w /\ DOMAIN head = 1..w /\ \A i \in 1..w : head[i] = ls[i]
  BY <1>1
<1>3. tail \in Seq(Listed) /\ Len(tail) = n - w /\ \A i \in 1..(n - w) : tail[i] = ls[w + i]
  <2>1. CASE w = n
    BY <1>1, <2>1
  <2>2. CASE w # n
    <3>1. w + 1 \in 1..n /\ n \in 1..n
      <4> HIDE DEF n
      <4> QED BY ONLY <1>1, <2>2
    <3>2. /\ tail \in Seq(Listed) /\ Len(tail) = n - (w + 1) + 1
          /\ \A i \in 1..(n - (w + 1) + 1) : tail[i] = ls[w + 1 + i - 1]
      BY <3>1, <1>1, SubSeqProperties
    <3>3. n - (w + 1) + 1 = n - w /\ \A i \in 1..(n - w) : w + 1 + i - 1 = w + i
      BY <1>1
    <3> HIDE DEF tail, n
    <3> QED BY <3>2, <3>3
  <2> QED BY <2>1, <2>2
<1>4. Boosted(ls) = front \o tail
  BY <1>2 DEF Boosted, w
<1> HIDE DEF head, tail, opens, n
<1>5. Clusters(opens, head, w)
  BY <1>2, OpensIs DEF opens
<1>6. ASSUME NEW i \in 1..w
      PROVE  /\ head[i] \in Listed /\ Preferred(head[i]) \in {0, 1} /\ head[i].score \in Int
             /\ opens[i] \in 1..w /\ opens[i] <= i
             /\ key(i) \in [1..7 -> Int] /\ key(i)[7] = -i
             /\ key(i)[1] = Preferred(head[i]) /\ key(i)[2] = -opens[i]
  <2>1. head[i] \in Listed
    BY <1>2
  <2>2. opens[i] \in 1..i
    BY <1>5 DEF Clusters
  <2>3. opens[i] \in 1..w /\ opens[i] <= i /\ -opens[i] \in Int /\ -i \in Int /\ w \in Nat
    BY <2>2, <1>1
  <2>4. /\ Preferred(head[i]) \in {0, 1} /\ head[i].score \in Int /\ head[i].fresh \in Int
        /\ head[i].n \in Int
    BY <2>1, ListingFacts
  <2>5. /\ trusted(head[i]) \in Int /\ Bit(head[i].n >= Mature) \in Int
        /\ Bit(head[i].n >= WeakMin) \in Int
    BY <2>4 DEF Bit
  <2> HIDE DEF trusted
  <2>6. Preferred(head[i]) \in Int
    BY <2>4
  <2>7. key(i) \in [1..7 -> Int]
    <3> DEFINE ka == Preferred(head[i])
               kb == -opens[i]
               kc == head[i].fresh
               kd == Bit(head[i].n >= Mature)
               ke == Bit(head[i].n >= WeakMin)
               kf == trusted(head[i])
               kg == -i
    <3>1. ka \in Int /\ kb \in Int /\ kc \in Int /\ kd \in Int /\ ke \in Int /\ kf \in Int /\ kg \in Int
      BY <2>3, <2>4, <2>5, <2>6
    <3>2. key(i) = <<ka, kb, kc, kd, ke, kf, kg>>
      BY DEF key
    <3> HIDE DEF ka, kb, kc, kd, ke, kf, kg
    <3>3. <<ka, kb, kc, kd, ke, kf, kg>> \in [1..7 -> Int]
      BY ONLY <3>1
    <3> QED BY ONLY <3>2, <3>3
  <2>8. key(i)[7] = -i /\ key(i)[1] = Preferred(head[i]) /\ key(i)[2] = -opens[i]
    BY DEF key
  <2> HIDE DEF key
  <2> QED BY <2>1, <2>3, <2>4, <2>7, <2>8
<1>7. keys = [i \in 1..w |-> key(i)]
  BY <1>2
<1> HIDE DEF key, keys
<1>8. Keyed(keys, Len(head))
  <2>1. keys \in [1..w -> [1..7 -> Int]]
    BY <1>6, <1>7
  <2>2. ASSUME NEW i \in 1..w, NEW j \in 1..w, i # j PROVE keys[i][7] # keys[j][7]
    BY <2>2, <1>1, <1>6, <1>7
  <2>3. 7 \in Nat \ {0}
    OBVIOUS
  <2> QED BY <2>1, <2>2, <2>3, <1>2 DEF Keyed
<1>9. front \in Seq(Listed) /\ Len(front) = w /\ ToSet(front) = ToSet(head)
  BY <1>2, <1>8, ArrangedKeeps
<1>10. PICK p : Arranges(p, head, keys)
  BY <1>2, <1>8, ArrangedBy
<1>11. /\ p \in [1..w -> 1..w] /\ front = [i \in 1..w |-> head[p[i]]]
       /\ \A i, j \in 1..w : i < j => Above(keys[p[i]], keys[p[j]])
  BY <1>2, <1>10 DEF Arranges
<1> HIDE DEF front
<1> DEFINE s == front \o tail
<1>12. /\ s \in Seq(Listed) /\ Len(s) = n
       /\ \A i \in 1..n : s[i] = IF i <= w THEN front[i] ELSE tail[i - w]
  <2>1. s \in Seq(Listed) /\ Len(s) = Len(front) + Len(tail)
    BY <1>3, <1>9, ConcatProperties
  <2>2. w + (n - w) = n
    BY <1>1
  <2>3. ASSUME NEW i \in 1..n PROVE s[i] = IF i <= w THEN front[i] ELSE tail[i - w]
    <3>1. i \in 1..(Len(front) + Len(tail))
      BY <2>2, <1>3, <1>9
    <3> QED BY <3>1, <1>3, <1>9, <1>1
  <2> QED BY <2>1, <2>2, <2>3, <1>3, <1>9
<1> HIDE DEF s
\* q[i]: where in ls the listing at i came from.
<1> DEFINE q == [i \in 1..n |-> IF i <= w THEN p[i] ELSE i]
<1>13. ASSUME NEW i \in 1..n
       PROVE  q[i] \in 1..n /\ s[i] = ls[q[i]] /\ (i <= w => q[i] \in 1..w) /\ (i > w => q[i] = i)
  <2>1. CASE i <= w
    <3>1. i \in 1..w
      BY <1>1, <2>1
    <3>2. p[i] \in 1..w /\ front[i] = head[p[i]]
      BY <1>11, <3>1
    <3>3. p[i] \in 1..n /\ q[i] = p[i]
      BY <1>1, <2>1, <3>2
    <3> QED BY <1>2, <1>12, <2>1, <3>2, <3>3
  <2>2. CASE i > w
    <3>1. i - w \in 1..(n - w) /\ w + (i - w) = i /\ ~(i <= w)
      BY <1>1, <2>2
    <3>2. tail[i - w] = ls[i]
      BY <1>3, <3>1
    <3> QED BY <1>12, <2>2, <3>1, <3>2
  <2> QED BY <1>1, <2>1, <2>2
<1>14. ToSet(s) \subseteq ToSet(ls)
  <2>1. DOMAIN s = 1..n
    BY <1>12
  <2>2. \A i \in 1..n : s[i] \in {ls[j] : j \in 1..n}
    BY <1>13
  <2> QED BY ONLY <2>1, <2>2, <1>1 DEF ToSet
<1>15. ASSUME NEW i \in 1..n, NEW j \in 1..n, i < j, Preferred(s[i]) = Preferred(s[j])
       PROVE  s[j].score - s[i].score < CloseScore
  <2> DEFINE a == q[i]
             b == q[j]
  <2>1. a \in 1..n /\ b \in 1..n /\ s[i] = ls[a] /\ s[j] = ls[b]
    BY <1>13
  <2>2. /\ ls[a].score \in Int /\ ls[b].score \in Int
        /\ Preferred(ls[a]) = Preferred(ls[b]) /\ CloseScore \in Nat \ {0}
    BY <1>1, <1>15, <2>1, ListingFacts, EngineAssumption
  <2>3. ASSUME NEW k \in 1..n, NEW l \in 1..n, k <= l, Preferred(ls[k]) = Preferred(ls[l])
        PROVE  ls[k].score >= ls[l].score
    <3>1. ls[k].score \in Int
      BY <1>1, ListingFacts
    <3>2. CASE k = l
      BY <3>1, <3>2
    <3>3. CASE k # l
      <4>1. k < l
        BY <2>3, <3>3
      <4> QED BY <4>1, <2>3 DEF Falling, Precedes, n
    <3> QED BY <3>2, <3>3
  <2>4. (i <= w => a \in 1..w) /\ (i > w => a = i) /\ (j <= w => b \in 1..w) /\ (j > w => b = j)
    BY <1>13
  <2> HIDE DEF q, a, b
  <2>5. CASE a <= b
    <3>1. ls[a].score >= ls[b].score
      BY <2>1, <2>2, <2>3, <2>5
    <3> QED BY <2>1, <2>2, <3>1
  <2>6. CASE b < a
    <3>1. i <= w /\ j <= w
      BY <1>1, <1>15, <2>4, <2>6
    <3>2. a \in 1..w /\ b \in 1..w /\ i \in 1..w /\ j \in 1..w
      BY <1>1, <2>4, <3>1
    <3>3. a = p[i] /\ b = p[j]
      BY <3>1 DEF a, b, q
    <3>4. Above(key(a), key(b))
      BY <1>7, <1>11, <1>15, <3>2, <3>3
    <3>5. PICK d \in DOMAIN key(a) : key(a)[d] > key(b)[d] /\ \A e \in 1..(d - 1) : key(a)[e] = key(b)[e]
      BY <3>4 DEF Above
    <3>6. d \in 1..7
      BY <1>6, <3>2, <3>5
    <3>7. /\ key(a)[1] = key(b)[1] /\ key(a)[1] \in Int
          /\ key(a)[2] = -opens[a] /\ key(b)[2] = -opens[b]
      <4>1. key(a)[1] = Preferred(head[a]) /\ key(a)[2] = -opens[a] /\ Preferred(head[a]) \in {0, 1}
        BY <1>6, <3>2
      <4>2. key(b)[1] = Preferred(head[b]) /\ key(b)[2] = -opens[b]
        BY <1>6, <3>2
      <4>3. head[a] = ls[a] /\ head[b] = ls[b]
        BY <1>2, <3>2
      <4> QED BY <4>1, <4>2, <4>3, <2>2
    <3>16. opens[a] \in 1..w /\ opens[b] \in 1..w /\ opens[b] <= b /\ w \in Nat
      <4>1. opens[a] \in 1..w
        BY <1>6, <3>2
      <4>2. opens[b] \in 1..w /\ opens[b] <= b
        BY <1>6, <3>2
      <4> QED BY <4>1, <4>2, <1>1
    <3>8. d # 1
      BY <3>5, <3>7
    <3>9. opens[a] <= opens[b]
      <4>1. opens[a] \in Int /\ opens[b] \in Int
        BY <3>16
      <4>2. CASE d = 2
        BY <3>5, <3>7, <4>1, <4>2
      <4>3. CASE d > 2
        <5>1. 2 \in 1..(d - 1)
          BY <3>6, <4>3
        <5>2. -opens[a] = -opens[b]
          BY <3>5, <3>7, <5>1
        <5> QED BY <4>1, <5>2
      <4> QED BY <3>6, <3>8, <4>2, <4>3
    <3>10. opens[b] <= opens[a]
      BY <1>5, <2>6, <3>2 DEF Clusters
    <3>11. opens[a] = opens[b] /\ opens[b] \in 1..w /\ opens[b] <= b
      BY <3>16, <3>9, <3>10
    <3> DEFINE o == opens[b]
    <3>12. Preferred(head[o]) = Preferred(head[b]) /\ head[o].score - head[a].score < CloseScore
      BY <1>5, <3>2, <3>11 DEF Clusters
    <3>13. o \in 1..n /\ o \in 1..w /\ o <= b
      BY <1>1, <3>11
    <3> HIDE DEF o
    <3>14. ls[o].score >= ls[b].score
      BY <1>2, <2>1, <2>3, <3>2, <3>12, <3>13
    <3>15. ls[o].score - ls[a].score < CloseScore /\ ls[o].score \in Int
      BY <1>1, <1>2, <3>2, <3>12, <3>13, ListingFacts
    <3> QED BY <2>1, <2>2, <3>14, <3>15
  <2> QED BY <2>1, <2>5, <2>6
<1> QED BY <1>4, <1>12, <1>14, <1>15 DEF s, NearlyFalling
-----------------------------------------------------------------------------
(* One probe, and what it tells.                                           *)

\* What a result says of its seller is true: the options and the payee are those of its
\* challenge, and what did not answer with one carries no option and a reason.
Told(r) ==
    /\ r \in Results /\ r.url \in DOMAIN seller
    /\ r.live => /\ r.opts = Observed(seller[r.url].accepts)
                 /\ r.payTo = PayToOf(seller[r.url].accepts)
    /\ ~r.live => r.opts = <<>> /\ r.miss \in MissName

Behind == IF request.kind = "url" THEN {request.url}
          ELSE {l.url : l \in {m \in ToSet(page) : m.score > 0}}
AskedInv == request \in Request /\ page \in Page /\ seller \in [Behind -> Seller]


LEMMA BehindIsUrl == AskedInv => Behind \subseteq Url /\ DOMAIN seller = Behind
<1> SUFFICES ASSUME AskedInv PROVE Behind \subseteq Url /\ DOMAIN seller = Behind
  OBVIOUS
<1>1. page \in Seq(Listed) /\ (request.kind = "url" => request.url \in Url) /\ DOMAIN seller = Behind
  BY PageAssumption, RequestAssumption DEF AskedInv
<1>2. \A m \in ToSet(page) : m.url \in Url
  BY <1>1, NothingIn, ListingFacts
<1> QED BY <1>1, <1>2 DEF Behind

LEMMA ListedRail ==
    ASSUME AskedInv, NEW u
    PROVE  (IF Listing(u) = None THEN None ELSE Listing(u).rail) \in Rail \cup {None}
<1> DEFINE at == {i \in DOMAIN page : page[i].url = u}
<1>1. page \in Seq(Listed)
  BY PageAssumption DEF AskedInv
<1>2. CASE at = {}
  BY <1>2 DEF Listing
<1>3. CASE at # {}
  <2>1. at \in SUBSET Nat
    BY <1>1
  <2>2. Min(at) \in at
    <3> HIDE DEF at
    <3> QED BY <1>3, <2>1, MinIs
  <2>3. page[Min(at)] \in Listed
    BY <1>1, <2>2
  <2>4. Listing(u) = page[Min(at)]
    BY <1>3 DEF Listing
  <2> QED BY <2>3, <2>4, ListingFacts
<1> QED BY <1>2, <1>3

LEMMA MissIsNamed ==
    \A s : MissOf(s) \in MissName
BY DEF MissOf, ReplyMiss, MissName

\* What a probe of u yields is told truly of u.
LEMMA ResultIs ==
    ASSUME AskedInv, NEW u \in DOMAIN seller, NEW live \in BOOLEAN,
           NEW miss \in MissName \cup {None}, ~live => miss \in MissName
    PROVE  LET r == Result(u, live, miss)
           IN  Told(r) /\ r.url = u /\ ~r.pending
<1> DEFINE r == Result(u, live, miss)
           s == seller[u]
           rail == IF Listing(u) = None THEN None ELSE Listing(u).rail
<1>1. u \in Url /\ s \in Seller
  BY BehindIsUrl DEF AskedInv
<1>2. Evidence(s) \in UNION {{x.evidence, x.later} : x \in Seller}
  BY <1>1 DEF Evidence
<1>3. rail \in Rail \cup {None}
  BY ListedRail
<1>4. /\ PayToOf(s.accepts) \in {PayToOf(x.accepts) : x \in Seller}
      /\ s.latency \in {x.latency : x \in Seller} /\ s.service \in {x.service : x \in Seller}
  BY <1>1
<1>5. Observed(s.accepts) \in Seq(Options) /\ <<>> \in Seq(Options)
  BY <1>1, SellerAssumption, ObservedOffers
<1>6. r = [url |-> u, live |-> live, miss |-> miss, evidence |-> Evidence(s), rail |-> rail,
           payTo |-> IF live THEN PayToOf(s.accepts) ELSE None,
           opts |-> IF live THEN Observed(s.accepts) ELSE <<>>,
           schema |-> live /\ s.schema, changed |-> live /\ s.claim = "other",
           pending |-> FALSE, latency |-> s.latency, service |-> s.service]
  BY DEF Result
<1> HIDE DEF r, s, rail
<1>7. r \in Results
  BY <1>1, <1>2, <1>3, <1>4, <1>5, <1>6 DEF Results
<1>8. /\ r.url = u /\ r.live = live /\ r.miss = miss /\ r.pending = FALSE
      /\ r.payTo = IF live THEN PayToOf(s.accepts) ELSE None
      /\ r.opts = IF live THEN Observed(s.accepts) ELSE <<>>
  BY <1>6
<1> QED BY <1>7, <1>8 DEF Told, r, s

LEMMA ProbesTell ==
    ASSUME AskedInv, NEW u \in DOMAIN seller, NEW r \in RoutedProbes(u)
    PROVE  Told(r) /\ r.url = u /\ ~r.pending
<1>1. PICK live \in BOOLEAN, miss \in MissName \cup {None} :
        r = Result(u, live, miss) /\ (~live => miss \in MissName)
  BY MissIsNamed DEF RoutedProbes, Probes, Probe, Missed, MissName
<1> QED BY <1>1, ResultIs

\* What history adds to a result leaves what it tells alone.
LEMMA RehydratedTells ==
    ASSUME AskedInv, NEW r, Told(r), NEW written \in BOOLEAN
    PROVE  LET h == Rehydrated(r, written)
           IN  Told(h) /\ h.url = r.url /\ h.live = r.live
<1> DEFINE h == Rehydrated(r, written)
           p == r.pending \/ (written /\ seller[r.url].turned)
           c == r.changed \/ (written /\ seller[r.url].turned)
           e == Evidence(seller[r.url])
<1>1. r \in Results /\ seller[r.url] \in Seller
  BY DEF Told, AskedInv
<1>2. e \in UNION {{x.evidence, x.later} : x \in Seller} /\ p \in BOOLEAN /\ c \in BOOLEAN
  BY <1>1 DEF Evidence
<1>3. h = [r EXCEPT !.pending = p, !.changed = c, !.evidence = e]
  BY DEF Rehydrated
<1> HIDE DEF h, p, c, e
<1>4. h \in Results
  BY <1>1, <1>2, <1>3 DEF Results
<1>5. h.url = r.url /\ h.live = r.live /\ h.opts = r.opts /\ h.payTo = r.payTo /\ h.miss = r.miss
  BY <1>1, <1>3 DEF Results
<1> QED BY <1>4, <1>5 DEF Told, h
-----------------------------------------------------------------------------
(* The search.                                                             *)

RankedUrls == {ranked[i].url : i \in DOMAIN ranked}
Urls(rs) == {rs[i].url : i \in DOMAIN rs}
Given == {ranked[i].url : i \in 1..(next - 1)}
Collected(rs) ==
    /\ rs \in Seq(Results)
    /\ \A r \in ToSet(rs) :
        Told(r) /\ (request.kind = "need" => ~r.pending /\ r.url \in RankedUrls)

\* The search: the shortlist; every candidate given to a tranche is in flight, has landed or
\* is collected, unless the deadline cut a tranche off; and the tranche on its way cannot
\* take the results past the ceiling.
SearchInv ==
    /\ ranked \in Seq(Listed) /\ NearlyFalling(ranked) /\ RankedUrls \subseteq DOMAIN seller
    /\ next \in 1..(Len(ranked) + 1)
    /\ Collected(probed) /\ Collected(landed)
    /\ tranche \in Nat /\ flying \subseteq RankedUrls /\ IsFiniteSet(flying)
    /\ Len(landed) + Cardinality(flying) <= tranche
    /\ Len(probed) + tranche <= request.ceiling
    /\ late \in BOOLEAN /\ moved \in BOOLEAN
    /\ late \/ Given \subseteq Urls(probed) \cup Urls(landed) \cup flying
    /\ phase # "searching" => tranche = 0
    /\ phase = "asked" => ranked = <<>> /\ next = 1 /\ probed = <<>>
    /\ phase \in {"searching", "committing"} => request.kind = "need"
    /\ phase = "deciding" => request.kind = "url" /\ Len(probed) = 1


\* What stays when a step leaves the request and the world alone.
LEMMA AskedKept ==
    ASSUME UNCHANGED asked
    PROVE  /\ AskedInv => AskedInv'
           /\ Constraints' = Constraints /\ Objective' = Objective
           /\ \A r : Told(r) => Told(r)'
<1>1. request' = request /\ page' = page /\ seller' = seller
  BY DEF asked
<1>2. AskedInv => AskedInv'
  BY <1>1 DEF AskedInv, Behind
<1>3. Overlay' = Overlay
  BY <1>1 DEF Overlay
<1>4. Constraints' = Constraints
  BY <1>3 DEF Constraints, Either, Flag, Bound
<1>5. Objective' = Objective
  BY <1>1 DEF Objective
<1>6. \A r : Told(r) => Told(r)'
  BY <1>1 DEF Told
<1> QED BY <1>2, <1>4, <1>5, <1>6

\* Results put behind one another.
LEMMA CollectedJoin ==
    ASSUME NEW a, NEW b, Collected(a), Collected(b)
    PROVE  /\ Collected(a \o b) /\ Len(a \o b) = Len(a) + Len(b)
           /\ Urls(a \o b) = Urls(a) \cup Urls(b)
<1>1. a \in Seq(Results) /\ b \in Seq(Results) /\ a \o b \in Seq(Results)
  BY DEF Collected
<1>2. /\ Len(a \o b) = Len(a) + Len(b) /\ Len(a) \in Nat /\ Len(b) \in Nat
      /\ DOMAIN a = 1..Len(a) /\ DOMAIN b = 1..Len(b) /\ DOMAIN (a \o b) = 1..(Len(a) + Len(b))
  BY <1>1
<1>3. /\ \A i \in DOMAIN a : i \in DOMAIN (a \o b) /\ (a \o b)[i] = a[i]
      /\ \A i \in DOMAIN b : Len(a) + i \in DOMAIN (a \o b) /\ (a \o b)[Len(a) + i] = b[i]
  BY <1>1, <1>2
<1>4. \A i \in DOMAIN (a \o b) :
        (i \in DOMAIN a /\ (a \o b)[i] = a[i]) \/ (i - Len(a) \in DOMAIN b /\ (a \o b)[i] = b[i - Len(a)])
  BY <1>1, <1>2
<1> DEFINE c == a \o b
<1> HIDE DEF c
<1>5. ToSet(c) = ToSet(a) \cup ToSet(b)
  BY <1>3, <1>4 DEF ToSet, c
<1>6. Urls(c) = Urls(a) \cup Urls(b)
  BY <1>3, <1>4 DEF Urls, c
<1>7. Collected(c)
  BY <1>1, <1>5 DEF Collected, c
<1> QED BY <1>2, <1>6, <1>7 DEF c

LEMMA CollectedOne ==
    ASSUME NEW r, Told(r), request.kind = "need" => ~r.pending /\ r.url \in RankedUrls
    PROVE  Collected(<<r>>) /\ Len(<<r>>) = 1 /\ Urls(<<r>>) = {r.url}
<1> DEFINE s == <<r>>
<1>1. s \in Seq(Results) /\ Len(s) = 1 /\ DOMAIN s = {1} /\ s[1] = r
  BY DEF Told
<1> HIDE DEF s
<1>2. ToSet(s) = {r} /\ Urls(s) = {r.url}
  BY <1>1 DEF ToSet, Urls
<1> QED BY <1>1, <1>2 DEF Collected, s

LEMMA CollectedNone == Collected(<<>>) /\ Len(<<>>) = 0 /\ Urls(<<>>) = {}
BY DEF Collected, Urls, ToSet
-----------------------------------------------------------------------------
LEMMA SearchInit == RouteInit => AskedInv /\ SearchInv
<1> SUFFICES ASSUME RouteInit PROVE AskedInv /\ SearchInv
  OBVIOUS
<1>1. AskedInv
  BY DEF RouteInit, AskedInv, Behind
<1>2. ranked = <<>> /\ ranked \in Seq(Listed) /\ Len(ranked) = 0 /\ RankedUrls = {}
  BY DEF RouteInit, RankedUrls
<1>3. NearlyFalling(ranked)
  BY <1>2 DEF NearlyFalling
<1>4. flying = {} /\ IsFiniteSet(flying) /\ Cardinality(flying) = 0
  BY FS_EmptySet DEF RouteInit
<1>5. request.ceiling \in Nat
  BY RequestAssumption DEF RouteInit
<1>6. probed = <<>> /\ landed = <<>> /\ next = 1 /\ Given = {}
  BY DEF RouteInit, Given
<1>7. Collected(probed) /\ Collected(landed) /\ Len(probed) = 0 /\ Len(landed) = 0
  BY <1>6, CollectedNone
<1>8. next \in 1..(Len(ranked) + 1) /\ Given \subseteq Urls(probed) \cup Urls(landed) \cup flying
  BY <1>2, <1>6
<1>9. /\ phase = "asked" /\ tranche = 0 /\ late = FALSE /\ moved = FALSE
  BY DEF RouteInit
<1>10. Len(landed) + Cardinality(flying) <= tranche /\ Len(probed) + tranche <= request.ceiling
  BY <1>4, <1>5, <1>7, <1>9
<1> QED BY <1>1, <1>2, <1>3, <1>4, <1>6, <1>7, <1>8, <1>9, <1>10 DEF SearchInv

\* A step that leaves the search as it is.
LEMMA SearchKept ==
    ASSUME AskedInv, SearchInv,
           UNCHANGED <<asked, ranked, next, probed, tranche, flying, landed>>,
           late' \in BOOLEAN, late => late', moved' \in BOOLEAN,
           phase' # "searching" => tranche = 0,
           phase' = "asked" => phase = "asked",
           phase' \in {"searching", "committing"} => phase \in {"searching", "committing"},
           phase' = "deciding" => phase = "deciding"
    PROVE  AskedInv' /\ SearchInv'
<1>1. /\ request' = request /\ seller' = seller /\ ranked' = ranked /\ next' = next
      /\ probed' = probed /\ tranche' = tranche /\ flying' = flying /\ landed' = landed
  BY DEF asked
<1>2. AskedInv'
  BY AskedKept
<1>3. RankedUrls' = RankedUrls /\ Given' = Given
  BY <1>1 DEF RankedUrls, Given
<1>4. NearlyFalling(ranked) => NearlyFalling(ranked)'
  BY <1>1 DEF NearlyFalling, Preferred
<1>5. Collected(probed)' /\ Collected(landed)'
  <2>1. Collected(probed) /\ Collected(landed)
    BY DEF SearchInv
  <2> QED BY <1>1, <1>3, <2>1, AskedKept DEF Collected
<1>6. Urls(probed)' = Urls(probed) /\ Urls(landed)' = Urls(landed)
  BY <1>1 DEF Urls
<1> QED BY <1>1, <1>2, <1>3, <1>4, <1>5, <1>6 DEF SearchInv

LEMMA DiscoverSearch ==
    ASSUME AskedInv, SearchInv, Discover
    PROVE  AskedInv' /\ SearchInv'
<1> DEFINE match == Ranked(page)
           list == Boosted(match)
<1>1. AskedInv'
  BY AskedKept DEF Discover
<1>2. page \in Seq(Listed)
  BY PageAssumption DEF AskedInv
<1>3. match \in Seq(Listed) /\ Falling(match) /\ \A l \in ToSet(match) : l \in ToSet(page) /\ l.score > 0
  BY <1>2, RankedFalls
<1> HIDE DEF match
<1>4. list \in Seq(Listed) /\ ToSet(list) \subseteq ToSet(match) /\ NearlyFalling(list)
  BY <1>3, BoostedFalls
<1> HIDE DEF list
<1>5. /\ ranked' = list /\ phase' = "searching" /\ request.kind = "need" /\ phase = "asked"
      /\ request' = request /\ seller' = seller /\ probed' = probed /\ landed' = landed
      /\ next' = next /\ tranche' = tranche /\ flying' = flying /\ late' = late /\ moved' = moved
  BY DEF Discover, asked, list, match
<1>6. /\ next = 1 /\ probed = <<>> /\ tranche = 0 /\ Len(landed) + Cardinality(flying) <= 0
      /\ landed \in Seq(Results) /\ IsFiniteSet(flying) /\ Len(probed) + 0 <= request.ceiling
      /\ late \in BOOLEAN /\ moved \in BOOLEAN
  BY <1>5 DEF SearchInv, Collected
<1>7. landed = <<>> /\ flying = {} /\ Cardinality(flying) = 0
  <2>1. Len(landed) \in Nat /\ Cardinality(flying) \in Nat
    BY <1>6, FS_CardinalityType
  <2>2. Len(landed) = 0 /\ Cardinality(flying) = 0
    BY <1>6, <2>1
  <2> QED BY <1>6, <2>2, FS_EmptySet
<1>8. ranked' \in Seq(Listed) /\ NearlyFalling(ranked)'
  BY <1>4, <1>5 DEF NearlyFalling, Preferred
<1>9. RankedUrls' \subseteq DOMAIN seller'
  <2>1. \A i \in DOMAIN list : list[i] \in ToSet(page) /\ list[i].score > 0
    BY <1>3, <1>4 DEF ToSet
  <2>2. RankedUrls' = {list[i].url : i \in DOMAIN list}
    BY <1>5 DEF RankedUrls
  <2>3. DOMAIN seller = {l.url : l \in {m \in ToSet(page) : m.score > 0}}
    BY <1>5, BehindIsUrl DEF Behind
  <2> QED BY <2>1, <2>2, <2>3, <1>5
<1>10. next' \in 1..(Len(ranked') + 1)
  BY <1>4, <1>5, <1>6
<1>11. Given' = {}
  BY <1>5, <1>6 DEF Given
<1>12. Collected(probed)' /\ Collected(landed)'
  BY <1>5, <1>6, <1>7 DEF Collected, ToSet
<1> QED BY <1>1, <1>5, <1>6, <1>7, <1>8, <1>9, <1>10, <1>11, <1>12 DEF SearchInv
-----------------------------------------------------------------------------
\* Between two tranches nothing is in flight.
LEMMA NothingUnderway ==
    ASSUME SearchInv, tranche = 0
    PROVE  landed = <<>> /\ flying = {}
<1>1. Len(landed) \in Nat /\ Cardinality(flying) \in Nat /\ landed \in Seq(Results)
  BY FS_CardinalityType DEF SearchInv, Collected
<1>2. Len(landed) = 0 /\ Cardinality(flying) = 0
  BY <1>1 DEF SearchInv
<1> QED BY <1>1, <1>2, FS_EmptySet DEF SearchInv

\* The urls at a range of positions are no more than the positions.
LEMMA UrlsOfRange ==
    ASSUME NEW a \in Int, NEW b \in Int, NEW f, a <= b + 1
    PROVE  LET U == {f[i].url : i \in a..b}
           IN  IsFiniteSet(U) /\ Cardinality(U) <= b - a + 1
<1> DEFINE U == {f[i].url : i \in a..b}
           g == [i \in a..b |-> f[i].url]
<1>1. IsFiniteSet(a..b) /\ Cardinality(a..b) = IF a > b THEN 0 ELSE b - a + 1
  BY FS_Interval
<1>2. g \in Surjection(a..b, U)
  BY DEF Surjection
<1>3. IsFiniteSet(U) /\ Cardinality(U) <= Cardinality(a..b)
  BY <1>1, <1>2, FS_Surjection
<1>4. Cardinality(U) \in Nat
  BY <1>3, FS_CardinalityType
<1> HIDE DEF U, g
<1>5. Cardinality(a..b) = b - a + 1
  BY <1>1
<1> QED BY <1>3, <1>5 DEF U

LEMMA TrancheFits ==
    ASSUME AskedInv, SearchInv, tranche = 0, SearchGoesOn
    PROVE  /\ TrancheSize \in Nat \ {0} /\ TrancheSize <= request.ceiling - Len(probed)
           /\ TrancheSize <= Len(ranked) - next + 1
<1> DEFINE S == {IF next = 1 THEN FirstTranche ELSE ExpandTranche,
                 Len(ranked) - next + 1, request.ceiling - Len(probed)}
<1>1. /\ next \in Nat /\ next <= Len(ranked) /\ Len(ranked) \in Nat
      /\ Len(probed) \in Nat /\ Len(probed) < request.ceiling /\ request.ceiling \in Nat
  BY RequestAssumption DEF AskedInv, SearchInv, SearchGoesOn, Collected
<1>2. S \subseteq Nat \ {0} /\ S # {}
  BY <1>1, EngineAssumption
<1>3. TrancheSize = Min(S)
  BY DEF TrancheSize
<1>4. Len(ranked) - next + 1 \in S /\ request.ceiling - Len(probed) \in S
  OBVIOUS
<1> HIDE DEF S
<1>5. Min(S) \in S /\ \A x \in S : Min(S) <= x
  BY <1>2, MinIs
<1> QED BY <1>2, <1>3, <1>4, <1>5

LEMMA NextTrancheSearch ==
    ASSUME AskedInv, SearchInv, NextTranche
    PROVE  AskedInv' /\ SearchInv'
<1> DEFINE t == TrancheSize
           last == next + t - 1
<1>1. AskedInv'
  BY AskedKept DEF NextTranche
<1>2. /\ tranche = 0 /\ SearchGoesOn /\ tranche' = t /\ next' = next + t
      /\ flying' = {ranked[i].url : i \in next..last}
      /\ phase' = phase /\ phase = "searching"
      /\ request' = request /\ page' = page /\ seller' = seller /\ ranked' = ranked
      /\ probed' = probed /\ landed' = landed /\ late' = late /\ moved' = moved
  BY DEF NextTranche, asked
<1>3. t \in Nat \ {0} /\ t <= request.ceiling - Len(probed) /\ t <= Len(ranked) - next + 1
  BY <1>2, TrancheFits
<1>4. /\ next \in 1..(Len(ranked) + 1) /\ Len(ranked) \in Nat /\ DOMAIN ranked = 1..Len(ranked)
      /\ Len(probed) \in Nat /\ request.ceiling \in Nat /\ landed = <<>>
  BY <1>2, NothingUnderway, RequestAssumption DEF AskedInv, SearchInv, Collected
<1> HIDE DEF t
<1>5. /\ last \in Nat /\ next..last \subseteq DOMAIN ranked /\ last - next + 1 = t
      /\ next' \in 1..(Len(ranked) + 1) /\ 1..(next' - 1) = 1..(next - 1) \cup next..last
      /\ next <= last + 1 /\ next \in Int /\ last \in Int /\ Len(probed) + t <= request.ceiling
  <2> DEFINE n == Len(ranked)
             k == Len(probed)
             c == request.ceiling
  <2>1. t \in Nat \ {0} /\ n \in Nat /\ k \in Nat /\ c \in Nat /\ next \in 1..(n + 1)
    BY <1>3, <1>4
  <2>2. t <= c - k /\ t <= n - next + 1 /\ next' = next + t /\ DOMAIN ranked = 1..n
    BY <1>2, <1>3, <1>4
  <2> HIDE DEF n, k, c
  <2>3. last \in Nat /\ last <= n /\ last + 1 = next' /\ next <= last + 1 /\ last - next + 1 = t
    BY <2>1, <2>2
  <2>4. next..last \subseteq 1..n /\ next' \in 1..(n + 1) /\ k + t <= c
    BY <2>1, <2>2, <2>3
  <2>5. next' - 1 = last
    BY <2>1, <2>3
  <2>6. 1..last = 1..(next - 1) \cup next..last
    BY ONLY <2>1, <2>3
  <2> QED BY <2>1, <2>2, <2>3, <2>4, <2>5, <2>6 DEF n, k, c
<1> HIDE DEF last
<1>6. IsFiniteSet(flying') /\ Cardinality(flying') <= t
  BY <1>2, <1>5, UrlsOfRange
<1>7. flying' \subseteq RankedUrls /\ RankedUrls' = RankedUrls
  BY <1>2, <1>5 DEF RankedUrls
<1>8. Given' = Given \cup flying'
  BY <1>2, <1>5 DEF Given
<1>9. NearlyFalling(ranked)'
  BY <1>2 DEF SearchInv, NearlyFalling, Preferred
<1>10. Collected(probed)' /\ Collected(landed)'
  <2>1. Collected(probed) /\ Collected(landed)
    BY DEF SearchInv
  <2> QED BY <1>2, <1>7, <2>1, AskedKept DEF Collected, asked
<1>11. Urls(probed)' = Urls(probed) /\ Urls(landed)' = Urls(landed) /\ Urls(landed) = {}
  BY <1>2, <1>4, CollectedNone DEF Urls
<1>12. flying = {}
  BY <1>2, NothingUnderway
<1>13. Len(landed') + Cardinality(flying') <= tranche'
  <2>1. Len(landed') = 0 /\ Cardinality(flying') \in Nat
    BY <1>2, <1>4, <1>6, FS_CardinalityType
  <2> QED BY <1>2, <1>3, <1>6, <2>1
<1>14. (late \/ Given \subseteq Urls(probed) \cup Urls(landed) \cup flying)'
  BY <1>2, <1>8, <1>11, <1>12 DEF SearchInv
<1> QED BY <1>1, <1>2, <1>3, <1>5, <1>6, <1>7, <1>9, <1>10, <1>13, <1>14 DEF SearchInv
-----------------------------------------------------------------------------
LEMMA ProbeLandsSearch ==
    ASSUME AskedInv, SearchInv, NEW u \in Url, ProbeLands(u)
    PROVE  AskedInv' /\ SearchInv'
<1>1. AskedInv'
  BY AskedKept DEF ProbeLands
<1>2. PICK r \in RoutedProbes(u) : landed' = Append(landed, r)
  BY DEF ProbeLands
<1>3. /\ u \in flying /\ flying' = flying \ {u} /\ phase' = phase /\ tranche' = tranche
      /\ request' = request /\ page' = page /\ seller' = seller /\ ranked' = ranked /\ next' = next
      /\ probed' = probed /\ late' = late /\ moved' = moved
  BY DEF ProbeLands, asked
<1>4. u \in RankedUrls /\ u \in DOMAIN seller /\ RankedUrls' = RankedUrls /\ Given' = Given
  BY <1>3 DEF SearchInv, RankedUrls, Given
<1>5. Told(r) /\ r.url = u /\ ~r.pending
  BY <1>4, ProbesTell
<1>6. Collected(landed) /\ landed \in Seq(Results) /\ r \in Results
  BY <1>5 DEF SearchInv, Collected, Told
<1>7. landed' = landed \o <<r>>
  BY <1>2, <1>6
<1>8. Collected(<<r>>) /\ Len(<<r>>) = 1 /\ Urls(<<r>>) = {u}
  BY <1>4, <1>5, CollectedOne
<1>9. /\ Collected(landed \o <<r>>) /\ Len(landed \o <<r>>) = Len(landed) + 1
      /\ Urls(landed \o <<r>>) = Urls(landed) \cup {u}
  BY <1>6, <1>8, CollectedJoin
<1>10. Collected(probed)' /\ Collected(landed)'
  <2>1. Collected(probed) /\ Collected(landed \o <<r>>)
    BY <1>9 DEF SearchInv
  <2> QED BY <1>3, <1>4, <1>7, <2>1, AskedKept DEF Collected, asked
<1>11. Urls(probed)' = Urls(probed) /\ Urls(landed)' = Urls(landed) \cup {u}
  BY <1>3, <1>7, <1>9 DEF Urls
<1>12. NearlyFalling(ranked)'
  BY <1>3 DEF SearchInv, NearlyFalling, Preferred
<1>13. /\ IsFiniteSet(flying) /\ IsFiniteSet(flying') /\ Cardinality(flying') = Cardinality(flying) - 1
       /\ Cardinality(flying) \in Nat /\ Len(landed) \in Nat
  BY <1>3, <1>6, FS_RemoveElement, FS_CardinalityType DEF SearchInv
<1>14. Len(landed') + Cardinality(flying') <= tranche'
  <2>1. Len(landed') = Len(landed) + 1
    BY <1>7, <1>9
  <2> QED BY <1>3, <1>13, <2>1 DEF SearchInv
<1>15. (late \/ Given \subseteq Urls(probed) \cup Urls(landed) \cup flying)'
  BY <1>3, <1>4, <1>11 DEF SearchInv
<1> QED BY <1>1, <1>3, <1>4, <1>10, <1>12, <1>13, <1>14, <1>15 DEF SearchInv

LEMMA TrancheDoneSearch ==
    ASSUME AskedInv, SearchInv, TrancheDone
    PROVE  AskedInv' /\ SearchInv'
<1>1. AskedInv'
  BY AskedKept DEF TrancheDone
<1>2. /\ tranche > 0 /\ (flying = {} \/ late) /\ probed' = probed \o landed
      /\ tranche' = 0 /\ flying' = {} /\ landed' = <<>> /\ phase' = phase
      /\ request' = request /\ page' = page /\ seller' = seller /\ ranked' = ranked /\ next' = next
      /\ late' = late /\ moved' = moved
  BY DEF TrancheDone, asked
<1>3. RankedUrls' = RankedUrls /\ Given' = Given
  BY <1>2 DEF RankedUrls, Given
<1>4. Collected(probed) /\ Collected(landed)
  BY DEF SearchInv
<1>5. /\ Collected(probed \o landed) /\ Len(probed \o landed) = Len(probed) + Len(landed)
      /\ Urls(probed \o landed) = Urls(probed) \cup Urls(landed)
  BY <1>4, CollectedJoin
<1>6. Collected(probed)' /\ Collected(landed)'
  BY <1>2, <1>3, <1>5, CollectedNone, AskedKept DEF Collected, asked
<1>7. Urls(probed)' = Urls(probed) \cup Urls(landed) /\ Urls(landed)' = {}
  BY <1>2, <1>5, CollectedNone DEF Urls
<1>8. NearlyFalling(ranked)'
  BY <1>2 DEF SearchInv, NearlyFalling, Preferred
<1>9. /\ IsFiniteSet(flying') /\ Cardinality(flying') = 0 /\ Len(landed') = 0
  BY <1>2, FS_EmptySet, CollectedNone
<1>10. Len(probed') + tranche' <= request'.ceiling
  <2>1. /\ Cardinality(flying) \in Nat /\ Len(landed) \in Nat /\ Len(probed) \in Nat
        /\ request.ceiling \in Nat
    BY <1>4, FS_CardinalityType, RequestAssumption DEF SearchInv, Collected, AskedInv
  <2>2. Len(probed') = Len(probed) + Len(landed)
    BY <1>2, <1>5
  <2> QED BY <1>2, <2>1, <2>2 DEF SearchInv
<1>11. (late \/ Given \subseteq Urls(probed) \cup Urls(landed) \cup flying)'
  BY <1>2, <1>3, <1>7 DEF SearchInv
<1>12. phase' = "asked" => phase' # "asked"
  <2>1. phase = "searching"
    BY <1>2 DEF SearchInv
  <2> QED BY <1>2, <2>1
<1> QED BY <1>1, <1>2, <1>3, <1>6, <1>8, <1>9, <1>10, <1>11, <1>12 DEF SearchInv

LEMMA DirectProbeSearch ==
    ASSUME AskedInv, SearchInv, NEW written \in BOOLEAN, DirectProbe(written)
    PROVE  AskedInv' /\ SearchInv'
<1>1. AskedInv'
  BY AskedKept DEF DirectProbe
<1>2. PICK r \in Probes(request.url) : probed' = <<Rehydrated(r, written /\ r.live)>>
  BY DEF DirectProbe
<1>3. /\ phase = "asked" /\ request.kind = "url" /\ phase' = "deciding"
      /\ request' = request /\ page' = page /\ seller' = seller /\ ranked' = ranked /\ next' = next
      /\ tranche' = tranche /\ flying' = flying /\ landed' = landed
      /\ late' = late /\ moved' = moved
  BY DEF DirectProbe, asked
<1>4. request.url \in DOMAIN seller
  BY <1>3, BehindIsUrl DEF Behind
<1>5. Told(r)
  BY <1>4, ProbesTell DEF RoutedProbes
<1> DEFINE h == Rehydrated(r, written /\ r.live)
<1>6. Told(h)
  <2>1. (written /\ r.live) \in BOOLEAN
    BY <1>5 DEF Told, Results
  <2> QED BY <1>5, <2>1, RehydratedTells
<1>7. probed' = <<h>>
  BY <1>2
<1> HIDE DEF h
<1>8. Collected(<<h>>) /\ Len(<<h>>) = 1
  BY <1>3, <1>6, CollectedOne
<1>9. RankedUrls' = RankedUrls /\ Given' = Given
  BY <1>3 DEF RankedUrls, Given
<1>10. Collected(probed)' /\ Collected(landed)'
  <2>1. Collected(landed)
    BY DEF SearchInv
  <2> QED BY <1>3, <1>7, <1>8, <1>9, <2>1, AskedKept DEF Collected, asked
<1>11. NearlyFalling(ranked)'
  BY <1>3 DEF SearchInv, NearlyFalling, Preferred
<1>12. Len(probed') + tranche' <= request'.ceiling /\ Len(probed') = 1
  <2>1. request.ceiling \in Nat \ {0} /\ tranche = 0
    BY <1>3, RequestAssumption DEF AskedInv, SearchInv
  <2> QED BY <1>3, <1>7, <1>8, <2>1
<1>13. Given = {}
  BY <1>3 DEF SearchInv, Given
<1> QED BY <1>1, <1>3, <1>9, <1>10, <1>11, <1>12, <1>13 DEF SearchInv

LEMMA SearchStep == AskedInv /\ SearchInv /\ [RouteNext]_routeVars => AskedInv' /\ SearchInv'
<1> SUFFICES ASSUME AskedInv, SearchInv, [RouteNext]_routeVars PROVE AskedInv' /\ SearchInv'
  OBVIOUS
<1>1. late \in BOOLEAN /\ moved \in BOOLEAN /\ (phase # "searching" => tranche = 0)
  BY DEF SearchInv
<1>2. CASE Discover
  BY <1>2, DiscoverSearch
<1>3. CASE DiscoveryFails
  BY <1>1, <1>3, SearchKept DEF DiscoveryFails
<1>4. CASE NextTranche
  BY <1>4, NextTrancheSearch
<1>5. CASE TrancheDone
  BY <1>5, TrancheDoneSearch
<1>6. CASE Decide
  BY <1>1, <1>6, SearchKept DEF Decide
<1>7. ASSUME NEW u \in Url, ProbeLands(u) PROVE AskedInv' /\ SearchInv'
  BY <1>7, ProbeLandsSearch
<1>8. ASSUME NEW written \in BOOLEAN, Commit(written) PROVE AskedInv' /\ SearchInv'
  BY <1>1, <1>8, SearchKept DEF Commit
<1>9. ASSUME NEW written \in BOOLEAN, DirectProbe(written) PROVE AskedInv' /\ SearchInv'
  BY <1>9, DirectProbeSearch
<1>10. CASE DirectDecide
  BY <1>1, <1>10, SearchKept DEF DirectDecide
<1>11. CASE Gate
  BY <1>1, <1>11, SearchKept DEF Gate
<1>12. CASE Expire
  BY <1>1, <1>12, SearchKept DEF Expire
<1>13. CASE OthersSettle
  BY <1>1, <1>13, SearchKept DEF OthersSettle
<1>14. CASE Answered \/ UNCHANGED routeVars
  BY <1>1, <1>14, SearchKept DEF Answered, routeVars, asked
<1> QED BY <1>2, <1>3, <1>4, <1>5, <1>6, <1>7, <1>8, <1>9, <1>10, <1>11, <1>12, <1>13, <1>14 DEF RouteNext
-----------------------------------------------------------------------------
(* The choice among what the search collected.                             *)

LEMMA BoundsAreNumbers == AskedInv => PriceBounds(Constraints)
<1> SUFFICES ASSUME AskedInv PROVE PriceBounds(Constraints)
  OBVIOUS
<1>1. \A body \in {request.text, request.keys} : \A k \in {"maxAmount", "maxUsd"} \cap DOMAIN body :
        body[k] \in Nat \cup {None}
  BY RequestAssumption DEF AskedInv
<1>2. \A k \in {"maxAmount", "maxUsd"} : Bound(k) \in Nat \cup {None}
  BY <1>1 DEF Bound, Overlay
<1>3. Constraints.maxAmount = Bound("maxAmount") /\ Constraints.maxUsd = Bound("maxUsd")
  BY DEF Constraints
<1> QED BY <1>2, <1>3 DEF PriceBounds

\* ByRank is an arrangement: the candidates all have a rank.
LEMMA ByRankKeeps ==
    ASSUME SearchInv, NEW rs \in Seq(Results), \A r \in ToSet(rs) : r.url \in RankedUrls
    PROVE  ByRank(rs) \in Seq(Results) /\ ToSet(ByRank(rs)) = ToSet(rs)
<1> DEFINE key(i) == <<-RankOf(rs[i].url), -i>>
           keys == [i \in DOMAIN rs |-> key(i)]
           n == Len(rs)
<1>1. n \in Nat /\ DOMAIN rs = 1..n
  OBVIOUS
<1>2. ASSUME NEW i \in 1..n PROVE key(i) \in [1..2 -> Int] /\ key(i)[2] = -i
  <2> DEFINE rank == RankOf(rs[i].url)
             back == -rank
             last == -i
  <2>1. rs[i].url \in RankedUrls
    BY <1>1 DEF ToSet
  <2>2. \E k \in DOMAIN ranked : ranked[k].url = rs[i].url
    BY <2>1 DEF RankedUrls
  <2>3. rank \in DOMAIN ranked /\ DOMAIN ranked = 1..Len(ranked) /\ Len(ranked) \in Nat
    BY <2>2 DEF RankOf, SearchInv
  <2> HIDE DEF rank
  <2>4. back \in Int /\ last \in Int
    BY <2>3, <1>1
  <2>5. key(i) = <<back, last>>
    BY DEF rank
  <2> HIDE DEF back, key
  <2>6. <<back, last>> \in [1..2 -> Int] /\ <<back, last>>[2] = last
    BY <2>4
  <2> QED BY <2>5, <2>6
<1>3. Keyed(keys, n)
  <2> HIDE DEF n
  <2>1. keys = [i \in 1..n |-> key(i)]
    BY <1>1
  <2> HIDE DEF key, keys
  <2>2. keys \in [1..n -> [1..2 -> Int]]
    BY <1>2, <2>1
  <2>3. ASSUME NEW i \in 1..n, NEW j \in 1..n, i # j PROVE keys[i][2] # keys[j][2]
    BY <1>1, <1>2, <2>1, <2>3
  <2>4. 2 \in Nat \ {0}
    OBVIOUS
  <2> QED BY <2>2, <2>3, <2>4 DEF Keyed
<1>4. ByRank(rs) = Arranged(rs, keys)
  BY DEF ByRank
<1> HIDE DEF keys
<1> QED BY <1>3, <1>4, ArrangedKeeps

\* The candidates as pick_winner sees them.
Candidates == ByRank(SelectionSet(probed, Constraints))

LEMMA CandidatesAre ==
    ASSUME SearchInv, request.kind = "need"
    PROVE  /\ Candidates \in Seq(Results) /\ ToSet(Candidates) \subseteq ToSet(probed)
           /\ \A r \in ToSet(probed) : r.live /\ ~r.changed => r \in ToSet(Candidates)
<1> DEFINE c == Constraints
           set == SelectionSet(probed, c)
<1> HIDE DEF c
<1>1. probed \in Seq(Results) /\ \A r \in ToSet(probed) : ~r.pending /\ r.url \in RankedUrls
  BY DEF SearchInv, Collected
<1>2. /\ set \in Seq(Results) /\ ToSet(set) \subseteq ToSet(probed)
      /\ \A r \in ToSet(probed) :
            r.live /\ Selectable(r, c) /\ ~r.changed => r \in ToSet(set)
  BY <1>1, SelectionKeeps
<1> HIDE DEF set
<1>3. ByRank(set) \in Seq(Results) /\ ToSet(ByRank(set)) = ToSet(set)
  BY <1>1, <1>2, ByRankKeeps
<1>4. \A r \in ToSet(probed) : Selectable(r, c)
  BY <1>1 DEF Selectable
<1> QED BY <1>2, <1>3, <1>4 DEF Candidates, set, c

LEMMA WinnerNowIs ==
    ASSUME AskedInv, SearchInv, request.kind = "need"
    PROVE  /\ WinnerNow # None => WinnerNow \in ToSet(probed)
           /\ \A r \in ToSet(probed) : Usable(r) => WinnerNow # None
<1> DEFINE c == Constraints
           g == Objective
           rs == Candidates
<1>1. WinnerNow = PickWinner(rs, g, c)
  BY DEF WinnerNow, Candidates
<1>2. /\ rs \in Seq(Results) /\ ToSet(rs) \subseteq ToSet(probed)
      /\ \A r \in ToSet(probed) : r.live /\ ~r.changed => r \in ToSet(rs)
  BY CandidatesAre
<1> HIDE DEF c, g, rs
<1>3. PickWinner(rs, g, c) # None => PickWinner(rs, g, c) \in ToSet(rs)
  BY <1>2, WinnerIs
<1>4. ASSUME NEW r \in ToSet(probed), Usable(r) PROVE WinnerNow # None
  <2>1. /\ ~r.changed /\ Passes(r, c) /\ Picked(r, g, c) # None
        /\ g = "cheapest" => Usds(Eligible(r, c)) # {}
        /\ g = "fastest_settlement" => SettlementOf(r) # None
    BY <1>4 DEF Usable, c, g
  <2>2. r.live /\ Eligible(r, c) # <<>>
    BY <2>1 DEF Passes, Payable
  <2>3. ~r.pending
    BY DEF SearchInv, Collected
  <2>4. r \in ToSet(Viable(rs, c)) /\ Viable(rs, c) \in Seq(Results)
    BY <1>2, <2>1, <2>2, <2>3, ViableIs DEF Selectable
  <2>5. g = "cheapest" => Usds(PoolOf(r, c)) # {}
    BY <2>1, <2>2 DEF PoolOf
  <2>6. g # "lowest_total_cost"
    BY <2>1 DEF Picked
  <2>7. r \in ToSet(Rankable(Viable(rs, c), g, c))
    BY <2>1, <2>4, <2>5, <2>6, RankableIs
  <2> QED BY <1>1, <1>2, <2>1, <2>7, WinnerIs
<1> QED BY <1>1, <1>2, <1>3, <1>4

\* The option of the winner of "cheapest" is the cheapest.
LEMMA WinnerIsCheapest ==
    ASSUME AskedInv, SearchInv, request.kind = "need",
           Objective = "cheapest", Constraints.rails = None,
           NEW r \in ToSet(probed), NEW p \in ToSet(Eligible(r, Constraints)),
           ~r.changed, Passes(r, Constraints), Known(p)
    PROVE  LET o == Picked(WinnerNow, Objective, Constraints)
           IN  Known(o) /\ o.amount <= p.amount
<1> DEFINE c == Constraints
           rs == Candidates
<1>1. WinnerNow = PickWinner(rs, "cheapest", c)
  BY DEF WinnerNow, Candidates
<1>2. /\ rs \in Seq(Results)
      /\ \A x \in ToSet(probed) : x.live /\ ~x.changed => x \in ToSet(rs)
  BY CandidatesAre
<1>3. PriceBounds(c) /\ c.rails = None /\ Passes(r, c) /\ p \in ToSet(Eligible(r, c))
  BY BoundsAreNumbers
<1> HIDE DEF c, rs
<1>4. r \in ToSet(rs)
  BY <1>2, <1>3 DEF Passes, Payable
<1>5. Selectable(r, c)
  BY DEF SearchInv, Collected, Selectable
<1>6. LET w == PickWinner(rs, "cheapest", c)
      IN  /\ w # None /\ Known(Picked(w, "cheapest", c))
          /\ Picked(w, "cheapest", c).amount <= p.amount
  BY <1>2, <1>3, <1>4, <1>5, CheapestFirst
<1> QED BY <1>1, <1>6 DEF c

\* The early stop sees a live candidate.
LEMMA EnoughIsLive ==
    ASSUME SearchInv, Enough
    PROVE  SomeLive
<1> DEFINE c == Constraints
           viable == Viable(probed, c)
<1> HIDE DEF c
<1>1. probed \in Seq(Results)
  BY DEF SearchInv, Collected
<1>2. viable \in Seq(Results) /\ \A r : r \in ToSet(viable) <=>
                r \in ToSet(probed) /\ Passes(r, c) /\ Selectable(r, c)
  BY <1>1, ViableIs
<1>3. viable # <<>>
  BY DEF Enough, EnoughEvidence, c
<1> HIDE DEF viable
<1>4. viable[1] \in ToSet(viable)
  BY <1>2, <1>3, NothingIn
<1> QED BY <1>2, <1>4 DEF SomeLive, Passes, Payable
-----------------------------------------------------------------------------
(* The answer.                                                             *)

\* What MissIsTrue says of the answer to a need without a winner.
MissHolds ==
    /\ \A r \in ToSet(probed) : ~Usable(r)
    /\ answer.stop = "probe_budget_exhausted" => late /\ ~Complete
    /\ answer.stop = "probe_limit_reached" => Len(probed) = request.ceiling /\ ~Complete /\ ~late
    /\ answer.stop = "constraints_unmet" => SomeLive /\ (Complete \/ Enough)
    /\ answer.stop = "candidate_set_exhausted" => Complete /\ ~SomeLive
    /\ answer.miss = "no_candidates" => probed = <<>>
    /\ answer.miss # "constraints_unmet" => answer.unmet = {}
    /\ answer.miss = "constraints_unmet" =>
         \A r \in ToSet(probed) :
            (Payable(r) /\ ~Passes(r, Constraints))
                = (Payable(r) /\ Unmet(r, Constraints) # {} /\ Unmet(r, Constraints) \subseteq answer.unmet)
\* What CheapestServed says of the option of an answer.
CheapestHolds ==
    request.kind = "need" /\ Objective = "cheapest" /\ Constraints.rails = None =>
        \A r \in ToSet(probed) : \A p \in ToSet(Eligible(r, Constraints)) :
            ~r.changed /\ Passes(r, Constraints) /\ Known(p) =>
                Known(answer.option) /\ answer.option.amount <= p.amount

\* The answer: a winner was told truly and has the answer's row until the gate has spoken.
AnswerInv ==
    /\ winner # None => Told(winner)
    /\ phase \in {"asked", "searching", "deciding"} => winner = None
    /\ phase = "gating" => winner # None
    /\ phase \in {"committing", "gating"} /\ winner # None =>
         /\ answer.code = 200 /\ answer.url = winner.url
         /\ request.kind = "need" => answer.url \in ToSet(answer.compared)
    /\ phase \in {"committing", "answered"} /\ winner = None =>
         answer.code = 503 /\ (request.kind = "need" => MissHolds)
    /\ phase \in {"committing", "gating", "answered"} /\ answer.code = 200 => CheapestHolds
    /\ ServedFits

LEMMA WorldKept ==
    ASSUME UNCHANGED <<asked, ranked, probed>>
    PROVE  /\ Complete' = Complete /\ SomeLive' = SomeLive /\ Enough' = Enough
           /\ \A r : Usable(r)' <=> Usable(r)
           /\ Constraints' = Constraints /\ Objective' = Objective /\ request' = request
           /\ CheapestHolds /\ answer' = answer => CheapestHolds'
<1>1. request' = request /\ Constraints' = Constraints /\ Objective' = Objective
  BY AskedKept DEF asked
<1>2. Complete' = Complete
  BY DEF Complete, ProbedUrls
<1>3. SomeLive' = SomeLive
  BY DEF SomeLive
<1>4. Enough' = Enough
  BY <1>1 DEF Enough
<1>5. \A r : Usable(r)' <=> Usable(r)
  BY <1>1 DEF Usable
<1>6. CheapestHolds /\ answer' = answer => CheapestHolds'
  BY <1>1 DEF CheapestHolds
<1> QED BY <1>1, <1>2, <1>3, <1>4, <1>5, <1>6

LEMMA MissKept ==
    ASSUME UNCHANGED <<asked, ranked, probed, late, answer>>, MissHolds
    PROVE  MissHolds'
BY WorldKept DEF MissHolds

\* Why probing stopped, told from what was collected.
LEMMA StopIsTrue ==
    ASSUME AskedInv, SearchInv, phase = "searching", tranche = 0, ~SearchGoesOn
    PROVE  /\ StopReason = "probe_budget_exhausted" => late /\ ~Complete
           /\ StopReason = "probe_limit_reached" =>
                Len(probed) = request.ceiling /\ ~Complete /\ ~late
           /\ StopReason = "constraints_unmet" => SomeLive /\ (Complete \/ Enough)
           /\ StopReason = "candidate_set_exhausted" => Complete /\ ~SomeLive
           /\ MissReason = "no_candidates" => probed = <<>>
<1>1. Complete <=> RankedUrls \subseteq Urls(probed)
  BY DEF Complete, ProbedUrls, RankedUrls, Urls
<1>2. /\ next \in 1..(Len(ranked) + 1) /\ Len(ranked) \in Nat /\ DOMAIN ranked = 1..Len(ranked)
      /\ Len(probed) \in Nat /\ request.ceiling \in Nat /\ Len(probed) <= request.ceiling
  BY RequestAssumption DEF SearchInv, AskedInv, Collected
<1>3. ASSUME ~late, next > Len(ranked) PROVE Complete
  <2>1. next - 1 = Len(ranked)
    BY <1>2, <1>3
  <2>2. Given = RankedUrls
    BY <1>2, <2>1 DEF Given, RankedUrls
  <2>3. landed = <<>> /\ flying = {}
    BY NothingUnderway
  <2>4. Urls(landed) = {}
    BY <2>3, CollectedNone
  <2> QED BY <1>1, <1>3, <2>2, <2>3, <2>4 DEF SearchInv
<1>4. late \/ next > Len(ranked) \/ Len(probed) >= request.ceiling \/ Enough
  BY <1>2 DEF SearchGoesOn
<1>5. Len(probed) >= request.ceiling => Len(probed) = request.ceiling
  BY <1>2
<1>6. Enough => SomeLive
  BY EnoughIsLive
<1>7. MissReason = "no_candidates" => probed = <<>>
  <2> SUFFICES ASSUME MissReason = "no_candidates", probed # <<>> PROVE FALSE
    OBVIOUS
  <2>1. probed \in Seq(Results) /\ Len(probed) \in DOMAIN probed
    BY DEF SearchInv, Collected
  <2> DEFINE r == probed[Len(probed)]
  <2>2. r \in ToSet(probed)
    BY <2>1 DEF ToSet
  <2>3. Told(r) /\ r.url \in RankedUrls
    BY <2>2 DEF SearchInv, Collected
  <2>4. ranked # <<>>
    BY <2>3 DEF RankedUrls
  <2>5. StopReason = "candidate_set_exhausted" /\ r.miss = "no_candidates"
    BY <2>4 DEF MissReason, StopReason
  <2>6. ~r.live
    BY <2>2, <2>5 DEF StopReason, SomeLive
  <2>7. r.miss \in MissName
    BY <2>3, <2>6 DEF Told
  <2> QED BY <2>5, <2>7 DEF MissName
<1> QED BY <1>3, <1>4, <1>5, <1>6, <1>7 DEF StopReason, Exhausted

\* Unmet constraints are those that some live candidate fails.
LEMMA UnmetIsTrue ==
    ASSUME SearchInv, NEW c
    PROVE  \A r \in ToSet(probed) :
             (Payable(r) /\ ~Passes(r, c))
                = (Payable(r) /\ Unmet(r, c) # {}
                      /\ Unmet(r, c) \subseteq UNION {Unmet(x, c) : x \in ToSet(probed)})
<1> SUFFICES ASSUME NEW r \in ToSet(probed)
             PROVE  (Payable(r) /\ ~Passes(r, c))
                        = (Payable(r) /\ Unmet(r, c) # {}
                              /\ Unmet(r, c) \subseteq UNION {Unmet(x, c) : x \in ToSet(probed)})
  OBVIOUS
<1>1. r \in Results
  BY DEF SearchInv, Collected, Told
<1>2. Payable(r) => (Passes(r, c) <=> Unmet(r, c) = {})
  BY <1>1, UnmetIsNotPassing
<1>3. Unmet(r, c) \subseteq UNION {Unmet(x, c) : x \in ToSet(probed)}
  OBVIOUS
<1> QED BY <1>2, <1>3
-----------------------------------------------------------------------------
\* Before a winner is sought there is nothing to say.
LEMMA EarlyAnswer ==
    ASSUME phase' \in {"asked", "searching", "deciding"}, winner' = None
    PROVE  AnswerInv'
BY DEF AnswerInv, ServedFits, Won

LEMMA MissAnswer ==
    ASSUME phase' \in {"committing", "answered"}, winner' = None, answer'.code = 503,
           request'.kind = "need" => MissHolds'
    PROVE  AnswerInv'
BY DEF AnswerInv, ServedFits, Won

LEMMA DiscoveryFailsAnswer ==
    ASSUME AskedInv, SearchInv, AnswerInv, DiscoveryFails
    PROVE  AnswerInv'
<1>1. /\ phase = "asked" /\ phase' = "answered" /\ winner' = winner
      /\ answer' = Miss("no_candidates", "candidate_set_exhausted", <<>>, {})
      /\ UNCHANGED <<asked, ranked, probed>>
  BY DEF DiscoveryFails
<1>2. winner' = None /\ probed = <<>> /\ ranked = <<>>
  BY <1>1 DEF AnswerInv, SearchInv
<1>3. /\ answer'.code = 503 /\ answer'.stop = "candidate_set_exhausted"
      /\ answer'.miss = "no_candidates" /\ answer'.unmet = {}
  BY <1>1 DEF Miss
<1>4. Complete /\ ~SomeLive /\ ToSet(probed) = {}
  BY <1>2 DEF Complete, SomeLive, ToSet
<1>5. MissHolds'
  BY <1>1, <1>2, <1>3, <1>4, WorldKept DEF MissHolds
<1> QED BY <1>1, <1>2, <1>3, <1>5, MissAnswer

LEMMA DecideAnswer ==
    ASSUME AskedInv, SearchInv, AnswerInv, Decide
    PROVE  AnswerInv'
<1> DEFINE w == WinnerNow
           o == Picked(w, Objective, Constraints)
           c == Constraints
           unmet == IF MissReason = "constraints_unmet"
                    THEN UNION {Unmet(r, Constraints) : r \in ToSet(probed)} ELSE {}
<1>1. /\ phase = "searching" /\ tranche = 0 /\ ~SearchGoesOn /\ winner' = w /\ phase' = "committing"
      /\ UNCHANGED <<asked, ranked, probed, late>>
  BY DEF Decide
<1>2. request.kind = "need" /\ request' = request
  BY <1>1, WorldKept DEF SearchInv
<1>3. /\ w # None => w \in ToSet(probed)
      /\ \A r \in ToSet(probed) : Usable(r) => w # None
  BY <1>2, WinnerNowIs
<1>4. CASE w # None
  <2>1. answer' = Served(w, o, Rows(probed, w))
    BY <1>1, <1>4 DEF Decide
  <2>2. /\ answer'.code = 200 /\ answer'.url = w.url /\ answer'.compared = Rows(probed, w)
        /\ answer'.option = o
    BY <2>1 DEF Served
  <2>3. probed \in Seq(Results) /\ Told(w)
    BY <1>3, <1>4 DEF SearchInv, Collected
  <2>4. w.url \in ToSet(Rows(probed, w))
    BY <1>3, <1>4, <2>3, WinnerHasRow
  <2>5. Told(winner)'
    <3>1. seller' = seller /\ winner' = w
      BY <1>1 DEF asked
    <3> HIDE DEF w
    <3> QED BY <2>3, <3>1 DEF Told
  <2>6. CheapestHolds'
    <3>1. ASSUME Objective = "cheapest", c.rails = None,
                 NEW r \in ToSet(probed), NEW p \in ToSet(Eligible(r, c)),
                 ~r.changed, Passes(r, c), Known(p)
          PROVE  Known(o) /\ o.amount <= p.amount
      BY <1>2, <3>1, WinnerIsCheapest
    <3>2. Objective' = Objective /\ Constraints' = c /\ probed' = probed
      BY <1>1, WorldKept
    <3> HIDE DEF o, c, w
    <3> QED BY <2>2, <3>1, <3>2 DEF CheapestHolds
  <2> HIDE DEF w, o
  <2> QED BY <1>1, <1>4, <2>2, <2>4, <2>5, <2>6 DEF AnswerInv, ServedFits, Won
<1>5. CASE w = None
  <2>1. answer' = Miss(MissReason, StopReason, Rows(probed, None), unmet)
    BY <1>1, <1>5 DEF Decide
  <2>2. /\ answer'.code = 503 /\ answer'.miss = MissReason /\ answer'.stop = StopReason
        /\ answer'.unmet = unmet
    BY <2>1 DEF Miss
  <2>3. /\ StopReason = "probe_budget_exhausted" => late /\ ~Complete
        /\ StopReason = "probe_limit_reached" => Len(probed) = request.ceiling /\ ~Complete /\ ~late
        /\ StopReason = "constraints_unmet" => SomeLive /\ (Complete \/ Enough)
        /\ StopReason = "candidate_set_exhausted" => Complete /\ ~SomeLive
        /\ MissReason = "no_candidates" => probed = <<>>
    BY <1>1, StopIsTrue
  <2>4. MissReason = "constraints_unmet" =>
          \A r \in ToSet(probed) :
             (Payable(r) /\ ~Passes(r, c))
                = (Payable(r) /\ Unmet(r, c) # {} /\ Unmet(r, c) \subseteq unmet)
    BY UnmetIsTrue
  <2>5. MissReason # "constraints_unmet" => unmet = {}
    OBVIOUS
  <2>6. /\ Complete' = Complete /\ SomeLive' = SomeLive /\ Enough' = Enough /\ late' = late
        /\ \A r : Usable(r)' <=> Usable(r)
        /\ Constraints' = c /\ request' = request /\ probed' = probed
    BY <1>1, WorldKept
  <2> HIDE DEF c, unmet, w
  <2>7. MissHolds'
    BY <1>3, <1>5, <2>2, <2>3, <2>4, <2>5, <2>6 DEF MissHolds
  <2> QED BY <1>1, <1>5, <2>2, <2>7, MissAnswer
<1> QED BY <1>4, <1>5

LEMMA CommitAnswer ==
    ASSUME AskedInv, SearchInv, AnswerInv, NEW written \in BOOLEAN, Commit(written)
    PROVE  AnswerInv'
<1>1. phase = "committing" /\ answer' = answer /\ UNCHANGED <<asked, ranked, probed, late>>
  BY DEF Commit
<1>2. request' = request /\ seller' = seller /\ AskedInv'
  BY <1>1, AskedKept DEF asked
<1>3. CASE winner = None
  <2>1. phase' = "answered" /\ winner' = None
    BY <1>3 DEF Commit
  <2>2. answer.code = 503 /\ (request.kind = "need" => MissHolds)
    BY <1>1, <1>3 DEF AnswerInv
  <2> QED BY <1>1, <1>2, <2>1, <2>2, MissKept, MissAnswer
<1>4. CASE winner # None
  <2> DEFINE h == Rehydrated(winner, written)
  <2>1. phase' = "gating" /\ winner' = h
    BY <1>4 DEF Commit
  <2>2. Told(h) /\ h.url = winner.url
    BY <1>4, RehydratedTells DEF AnswerInv
  <2>3. h # None
    BY <2>2, OptionFacts DEF Told
  <2> HIDE DEF h
  <2>4. Told(winner)'
    BY <1>2, <2>1, <2>2 DEF Told
  <2>5. /\ answer.code = 200 /\ answer.url = winner.url
        /\ request.kind = "need" => answer.url \in ToSet(answer.compared)
    BY <1>1, <1>4 DEF AnswerInv
  <2>6. CheapestHolds
    BY <1>1, <2>5 DEF AnswerInv
  <2>7. CheapestHolds'
    BY <1>1, <2>6, WorldKept
  <2> QED BY <1>1, <1>2, <2>1, <2>2, <2>3, <2>4, <2>5, <2>7 DEF AnswerInv, ServedFits, Won
<1> QED BY <1>3, <1>4

LEMMA DirectDecideAnswer ==
    ASSUME AskedInv, SearchInv, AnswerInv, DirectDecide
    PROVE  AnswerInv'
<1> DEFINE r == probed[1]
           option == Picked(r, Objective, Constraints)
           fit == Passes(r, Constraints) /\ Selectable(r, Constraints) /\ option # None
<1>1. phase = "deciding" /\ UNCHANGED asked
  BY DEF DirectDecide
<1>2. request.kind = "url" /\ request' = request /\ seller' = seller
  BY <1>1 DEF SearchInv, asked
<1>3. CASE fit
  <2>1. winner' = r /\ phase' = "gating" /\ answer' = Served(r, option, <<>>)
    BY <1>3 DEF DirectDecide
  <2>2. answer'.code = 200 /\ answer'.url = r.url
    BY <2>1 DEF Served
  <2>3. r \in ToSet(probed)
    BY <1>1 DEF SearchInv, Collected, ToSet
  <2>4. Told(r) /\ r # None
    BY <2>3, OptionFacts DEF SearchInv, Collected, Told
  <2> HIDE DEF r
  <2>5. Told(winner)'
    BY <1>2, <2>1, <2>4 DEF Told
  <2>6. CheapestHolds'
    BY <1>2 DEF CheapestHolds
  <2> QED BY <1>2, <2>1, <2>2, <2>4, <2>5, <2>6 DEF AnswerInv, ServedFits, Won
<1>4. CASE ~fit
  <2>1. winner' = None /\ phase' = "answered"
    BY <1>4 DEF DirectDecide
  <2>2. answer'.code = 503
    BY <1>4 DEF DirectDecide, Miss
  <2> QED BY <1>2, <2>1, <2>2, MissAnswer
<1> QED BY <1>3, <1>4

LEMMA GateAnswer ==
    ASSUME AskedInv, SearchInv, AnswerInv, Gate
    PROVE  AnswerInv'
<1> DEFINE c == Constraints
           o == answer.option
<1>1. /\ phase = "gating" /\ phase' = "answered" /\ winner' = winner
      /\ UNCHANGED <<asked, ranked, probed, late>>
      /\ answer' = IF Billable(winner, o) THEN answer
                   ELSE Miss("constraints_unmet", "constraints_unmet", answer.compared, {})
  BY DEF Gate
<1>2. request' = request /\ seller' = seller /\ Constraints' = c
  BY <1>1, WorldKept DEF asked
<1>3. /\ winner # None /\ Told(winner) /\ answer.code = 200 /\ answer.url = winner.url
      /\ request.kind = "need" => answer.url \in ToSet(answer.compared)
      /\ CheapestHolds
  BY <1>1 DEF AnswerInv
<1>4. Told(winner)'
  BY <1>1, <1>2, <1>3 DEF Told
<1>5. CASE Billable(winner, o)
  <2>1. answer' = answer
    BY <1>1, <1>5
  <2>2. CheapestHolds'
    BY <1>1, <1>3, <2>1, WorldKept
  <2> DEFINE s == seller[winner.url]
  <2>3. /\ Payable(winner) /\ Selectable(winner, c) /\ o.payTo = winner.payTo
        /\ o \in ToSet(Eligible(winner, c)) /\ AtMost(Finality[o.rail], c.maxSettlement)
        /\ ResultFits(winner, c)
    BY <1>5 DEF Billable, PassesExactly
  <2>4. /\ winner.opts = Observed(s.accepts) /\ winner.payTo = PayToOf(s.accepts)
        /\ winner.opts \in Seq(Options) /\ s.accepts \in Seq(Accepted)
    BY <1>3, <2>3, OptionFacts, SellerAssumption DEF Payable, Told, AskedInv
  <2> HIDE DEF c, o
  <2>5. o \in ToSet(winner.opts) /\ OptionFits(o, c)
    BY <2>3, <2>4, EligibleIs
  <2> HIDE DEF s
  <2>6. \E a \in ToSet(s.accepts) : a.valid /\ a.option = o
    BY <2>4, <2>5, ObservedOffers
  <2>7. /\ \E a \in ToSet(seller[answer.url].accepts) : a.valid /\ a.option = o
        /\ o.payTo = PayToOf(seller[answer.url].accepts)
    BY <1>3, <2>3, <2>4, <2>6 DEF s
  <2>8. ServedFits'
    BY <1>1, <1>2, <1>3, <2>1, <2>3, <2>5, <2>7 DEF ServedFits, Selectable, o
  <2> QED BY <1>1, <1>3, <1>4, <2>2, <2>8 DEF AnswerInv
<1>6. CASE ~Billable(winner, o)
  <2>1. answer'.code = 503
    BY <1>1, <1>6 DEF Miss
  <2> QED BY <1>1, <1>3, <1>4, <2>1 DEF AnswerInv, ServedFits, Won
<1> QED BY <1>5, <1>6
-----------------------------------------------------------------------------
LEMMA AnswerKept ==
    ASSUME AskedInv, AnswerInv,
           UNCHANGED <<asked, phase, ranked, probed, winner, answer>>,
           phase \in {"committing", "answered"} => UNCHANGED late
    PROVE  AnswerInv'
<1>1. /\ request' = request /\ seller' = seller /\ Constraints' = Constraints /\ phase' = phase
      /\ winner' = winner /\ answer' = answer
  BY WorldKept DEF asked
<1>2. Told(winner) => Told(winner)'
  BY <1>1 DEF Told
<1>3. CheapestHolds => CheapestHolds'
  BY <1>1, WorldKept
<1>4. phase \in {"committing", "answered"} /\ MissHolds => MissHolds'
  BY <1>1, MissKept
<1>5. ServedFits => ServedFits'
  BY <1>1 DEF ServedFits, Won
<1> QED BY <1>1, <1>2, <1>3, <1>4, <1>5 DEF AnswerInv

LEMMA AnswerStep == AskedInv /\ SearchInv /\ AnswerInv /\ [RouteNext]_routeVars => AnswerInv'
<1> SUFFICES ASSUME AskedInv, SearchInv, AnswerInv, [RouteNext]_routeVars PROVE AnswerInv'
  OBVIOUS
<1>1. phase \in {"asked", "searching", "deciding"} => winner = None
  BY DEF AnswerInv
<1>2. CASE Discover
  BY <1>1, <1>2, EarlyAnswer DEF Discover
<1>3. CASE DiscoveryFails
  BY <1>3, DiscoveryFailsAnswer
<1>4. CASE NextTranche
  BY <1>1, <1>4, EarlyAnswer DEF NextTranche
<1>5. CASE TrancheDone
  <2>1. phase = "searching"
    BY <1>5 DEF TrancheDone, SearchInv
  <2> QED BY <1>1, <1>5, <2>1, EarlyAnswer DEF TrancheDone
<1>6. CASE Decide
  BY <1>6, DecideAnswer
<1>7. ASSUME NEW u \in Url, ProbeLands(u) PROVE AnswerInv'
  <2>1. flying # {}
    BY <1>7 DEF ProbeLands
  <2>2. phase = "searching"
    BY <2>1, NothingUnderway DEF SearchInv
  <2> QED BY <1>1, <1>7, <2>2, EarlyAnswer DEF ProbeLands
<1>8. ASSUME NEW written \in BOOLEAN, Commit(written) PROVE AnswerInv'
  BY <1>8, CommitAnswer
<1>9. ASSUME NEW written \in BOOLEAN, DirectProbe(written) PROVE AnswerInv'
  BY <1>1, <1>9, EarlyAnswer DEF DirectProbe
<1>10. CASE DirectDecide
  BY <1>10, DirectDecideAnswer
<1>11. CASE Gate
  BY <1>11, GateAnswer
<1>12. CASE Expire
  BY <1>1, <1>12, EarlyAnswer DEF Expire
<1>13. CASE OthersSettle
  BY <1>13, AnswerKept DEF OthersSettle
<1>14. CASE Answered \/ UNCHANGED routeVars
  BY <1>14, AnswerKept DEF Answered, routeVars, asked
<1> QED BY <1>2, <1>3, <1>4, <1>5, <1>6, <1>7, <1>8, <1>9, <1>10, <1>11, <1>12, <1>13, <1>14 DEF RouteNext

-----------------------------------------------------------------------------
(* The theorems.                                                           *)

IInv == AskedInv /\ SearchInv /\ AnswerInv

LEMMA IInvHolds == RouteSpec => []IInv
<1>1. RouteInit => IInv
  <2> SUFFICES ASSUME RouteInit PROVE IInv
    OBVIOUS
  <2>1. AnswerInv
    BY DEF RouteInit, AnswerInv, ServedFits, Won
  <2> QED BY <2>1, SearchInit DEF IInv
<1>2. IInv /\ [RouteNext]_routeVars => IInv'
  BY SearchStep, AnswerStep DEF IInv
<1> QED BY <1>1, <1>2, PTL DEF RouteSpec

\* What a 200 names is what was asked for, for any sellers, catalogs and requests: the option
\* is one its seller demands, within every bound, when _billable_winner is done.
THEOREM ServedAsAsked == RouteSpec => []ServedFits
<1>1. IInv => ServedFits
  BY DEF IInv, AnswerInv
<1> QED BY <1>1, IInvHolds, PTL

\* "cheapest" is cheapest among all that was probed, however many candidates and options
\* there are and in whatever order pick_winner sorts them.
THEOREM CheapestIsServed == RouteSpec => []CheapestServed
<1>1. IInv => CheapestServed
  BY DEF IInv, AnswerInv, CheapestHolds, CheapestServed, Won
<1> QED BY <1>1, IInvHolds, PTL

\* A miss is one, and says what happened: pick_winner, the early stop and route_need's
\* reasons agree on what was collected.
THEOREM MissesAreTrue == RouteSpec => []MissIsTrue
<1>1. IInv => MissIsTrue
  BY DEF IInv, AnswerInv, MissHolds, MissIsTrue
<1> QED BY <1>1, IInvHolds, PTL

\* History never moves a candidate before a substantially better match of its rail group
\* (_history_boost_shortlist), however long the shortlist.
THEOREM HistoryKeepsOrder == RouteSpec => []NoLeapfrog
<1>1. IInv => NoLeapfrog
  BY DEF IInv, SearchInv, NearlyFalling, NoLeapfrog
<1> QED BY <1>1, IInvHolds, PTL
=============================================================================
