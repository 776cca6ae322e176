------------------------- MODULE HumanCanaryProofs --------------------------
(***************************************************************************)
(* Proofs about HumanCanary: one operator posts once for a tree, and what  *)
(* was latched is never lost, for any number of trees, fees and clocks and *)
(* however often a run dies and its commands are given again.              *)
(***************************************************************************)
EXTENDS HumanCanary, FiniteSetsExt, FiniteSetTheorems, WellFoundedInduction, TLAPS

\* A set of natural numbers that is not empty has a least element.
LEMMA LeastNatural ==
    ASSUME NEW T \in SUBSET Nat, T # {}
    PROVE  \E m \in T : \A n \in T : m <= n
<1> DEFINE R == OpToRel(<, Nat)
<1>1. IsWellFoundedOn(R, Nat)
  BY NatLessThanWellFounded
<1>2. \A x, y \in Nat : x < y => <<x, y>> \in R
  BY DEF OpToRel
<1> HIDE DEF R
<1>3. PICK x \in T : \A y \in T : <<y, x>> \notin R
  BY <1>1, WFMin
<1>4. ASSUME NEW y \in T PROVE x <= y
  <2>1. x \in Nat /\ y \in Nat /\ <<y, x>> \notin R
    BY <1>3
  <2>2. ~(y < x)
    BY <1>2, <2>1
  <2> QED BY <2>1, <2>2
<1> QED BY <1>4

\* Max is what it is meant to be on a bounded set of natural numbers.
LEMMA LargestNatural ==
    ASSUME NEW S \in SUBSET Nat, S # {}, NEW B \in Nat, \A x \in S : x <= B
    PROVE  Max(S) \in S /\ \A y \in S : Max(S) >= y
<1> DEFINE T == {n \in Nat : \A x \in S : x <= n}
<1>1. T \subseteq Nat /\ T # {}
  OBVIOUS
<1>2. PICK m \in T : \A n \in T : m <= n
  BY <1>1, LeastNatural
<1>3. m \in S
  <2>1. SUFFICES ASSUME m \notin S PROVE FALSE
    OBVIOUS
  <2>2. PICK x \in S : x \in Nat
    OBVIOUS
  <2>3. m # 0 /\ m - 1 \in Nat
    BY <2>1, <2>2
  <2>4. \A y \in S : y <= m - 1
    BY <2>1, <2>3
  <2> QED BY <1>2, <2>3, <2>4
<1>4. \A y \in S : m >= y
  BY <1>2
<1> QED BY <1>3, <1>4 DEF Max

-----------------------------------------------------------------------------

\* The commands are one person's: two runs never interleave.
OneOperator == \A o, p \in Operator : o = p

RowPcs == {"latch", "marksent", "post", "answered", "marksub", "poll", "found", "markconf",
           "pointer", "advance"}
SavePcs == {"marksent", "marksub", "markconf"}
LatchPcs == RowPcs \ {"latch", "marksent"}
Pcs == RowPcs \cup {"idle", "next", "discard", "dial", "persist"}

TableType ==
    /\ clock \in Time
    /\ tree \in Tree
    /\ auth \in [Tree -> AuthRow \cup {None}]
    /\ lastAuth \in Tree \cup {0}
    /\ posts \in [Tree -> Nat]

\* Rows are for trees the log has had.
Past == \A t \in Exists(auth) : t <= tree

\* What a latched row says was sent is what was signed.
Pinned == \A t \in Tree : Latched(auth[t]) => auth[t].expected = auth[t].signed

\* What was posted is latched.
Posted == \A t \in Tree : posts[t] <= 1 /\ (posts[t] # 0 => Latched(auth[t]))

Held == [pc: Pcs, todo: SUBSET Command, size: Nat, req: Request \cup {None},
         row: AuthRow \cup {None}, seen: AuthRow \cup {None}]

\* What a run holds is what the tables say: no other run writes them.
Fits(r, rows, top, sent) ==
    /\ r \in Held
    /\ r.pc \notin {"idle", "next"} => r.size \in Tree /\ r.size <= top
    /\ r.pc = "discard" => Discardable(rows[r.size])
    /\ r.pc \in {"dial", "persist"} => r.req \in Request /\ rows[r.size] = None
    /\ r.pc = "persist" => r.seen = None
    /\ r.pc \in RowPcs => rows[r.size] # None /\ r.row = rows[r.size]
    /\ r.pc \in SavePcs => r.seen = rows[r.size]
    /\ r.pc \in {"latch", "marksent"} => r.row.state = "AUTHORIZED"
    /\ r.pc \in LatchPcs => Latched(rows[r.size])
    /\ r.pc = "post" => sent[r.size] = 0

RunInv ==
    /\ run \in [Operator -> Held]
    /\ \A o \in Operator : Fits(run[o], auth, tree, posts)

CanaryInv == TableType /\ Past /\ Pinned /\ Posted /\ RunInv

\* What LatchedForever says of one step.
LatchStep ==
    \A t \in Tree : Latched(auth[t]) =>
        /\ auth'[t] # None
        /\ Rank[auth'[t].state] >= Rank[auth[t].state]
        /\ auth'[t].signed = auth[t].signed
        /\ auth'[t].expected = auth[t].expected

-----------------------------------------------------------------------------

LEMMA Ranks ==
    /\ Rank["AUTHORIZED"] = 0 /\ Rank["SEND_ATTEMPTED"] = 1
    /\ Rank["SUBMITTED"] = 2 /\ Rank["CONFIRMED"] = 3
    /\ \A s \in SendState : Rank[s] \in Nat /\ (Rank[s] >= 1 <=> s # "AUTHORIZED")
BY DEF Rank, SendState

LEMMA TreeSize == Tree \subseteq Nat /\ 0 \notin Tree
BY TreeAssumption

\* The row that --discard and --go work on is there.
LEMMA LastExists ==
    ASSUME TableType, Past, LastAuthorized # 0
    PROVE  LastAuthorized \in Exists(auth)
<1>1. CASE lastAuth \in Exists(auth)
  BY <1>1 DEF LastAuthorized
<1>2. CASE lastAuth \notin Exists(auth) /\ Exists(auth) # {}
  <2>1. tree \in Nat /\ Exists(auth) \subseteq Nat
    BY TreeSize DEF TableType, Exists
  <2>2. Max(Exists(auth)) \in Exists(auth)
    BY <1>2, <2>1, LargestNatural DEF Past
  <2> QED BY <1>2, <2>2 DEF LastAuthorized
<1>3. Exists(auth) # {} \/ lastAuth \in Exists(auth)
  BY DEF LastAuthorized
<1> QED BY <1>1, <1>2, <1>3

\* A run that holds nothing fits any tables.
LEMMA FitsAway ==
    ASSUME NEW r \in Held, r.pc \in {"idle", "next"}, NEW rows, NEW top, NEW sent
    PROVE  Fits(r, rows, top, sent)
BY DEF Fits, RowPcs, SavePcs, LatchPcs

LEMMA NoRunFits == NoRun \in Held /\ NoRun.pc = "idle"
BY DEF NoRun, Held, Pcs, RowPcs, Command

LEMMA DoneFits ==
    ASSUME NEW r \in Held, NEW c
    PROVE  LET d == [r EXCEPT !.pc = "next", !.todo = @ \ {c}, !.row = None, !.seen = None]
           IN  d \in Held /\ d.pc = "next"
<1>1. r.todo \ {c} \in SUBSET Command
  BY DEF Held
<1> QED BY <1>1 DEF Held, Pcs

\* With one operator, a step of a run is the step of the only one.
LEMMA HoldRuns ==
    ASSUME OneOperator, RunInv, NEW o \in Operator, NEW k, Hold(o, k),
           Fits(k, auth', tree', posts')
    PROVE  RunInv'
<1>1. k \in Held
  BY DEF Fits
<1>2. run' \in [Operator -> Held] /\ run'[o] = k
  BY <1>1 DEF Hold, RunInv
<1>3. \A p \in Operator : run'[p] = k
  BY <1>2 DEF OneOperator
<1> QED BY <1>2, <1>3 DEF RunInv

\* A step that writes no table.
LEMMA QuietStep ==
    ASSUME OneOperator, CanaryInv, NEW o \in Operator, NEW k, Hold(o, k),
           Fits(k, auth, tree, posts), UNCHANGED <<clock, auth, lastAuth, posts, tree>>
    PROVE  CanaryInv' /\ LatchStep
<1>1. RunInv'
  BY HoldRuns DEF CanaryInv
<1>2. LatchStep
  <2>1. ASSUME NEW t \in Tree, Latched(auth[t]) PROVE Rank[auth[t].state] \in Nat
    BY <2>1, Ranks DEF Latched, CanaryInv, TableType, AuthRow
  <2> QED BY <2>1 DEF LatchStep, Latched
<1> QED BY <1>1, <1>2 DEF CanaryInv, TableType, Past, Pinned, Posted, Exists

LEMMA ExitStep ==
    ASSUME OneOperator, CanaryInv, NEW o \in Operator, Exit(o),
           UNCHANGED <<clock, auth, lastAuth, posts, tree>>
    PROVE  CanaryInv' /\ LatchStep
BY NoRunFits, FitsAway, QuietStep DEF Exit

LEMMA DoneStep ==
    ASSUME OneOperator, CanaryInv, NEW o \in Operator, NEW c, Done(o, c),
           UNCHANGED <<clock, auth, lastAuth, posts, tree>>
    PROVE  CanaryInv' /\ LatchStep
<1> DEFINE d == [run[o] EXCEPT !.pc = "next", !.todo = @ \ {c}, !.row = None, !.seen = None]
<1>1. run[o] \in Held
  BY DEF CanaryInv, RunInv
<1>2. d \in Held /\ d.pc = "next"
  BY <1>1, DoneFits
<1>3. Hold(o, d)
  BY DEF Done
<1> HIDE DEF d
<1> QED BY <1>2, <1>3, FitsAway, QuietStep

-----------------------------------------------------------------------------
(* The steps of a run *)

LEMMA StartStep ==
    ASSUME OneOperator, CanaryInv, NEW o \in Operator, Start(o)
    PROVE  CanaryInv' /\ LatchStep
<1>1. PICK todo \in SUBSET Command : Hold(o, [NoRun EXCEPT !.pc = "next", !.todo = todo])
  BY DEF Start
<1> DEFINE k == [NoRun EXCEPT !.pc = "next", !.todo = todo]
<1>2. k \in Held /\ k.pc = "next"
  BY NoRunFits DEF Held, Pcs
<1>3. UNCHANGED <<clock, auth, lastAuth, posts, tree>>
  BY DEF Start, Quiet, tables, network
<1> HIDE DEF k
<1> QED BY <1>1, <1>2, <1>3, FitsAway, QuietStep DEF k

LEMMA DiscardStep ==
    ASSUME OneOperator, CanaryInv, NEW o \in Operator, Discard(o)
    PROVE  CanaryInv' /\ LatchStep
<1> DEFINE t == LastAuthorized
           k == [run[o] EXCEPT !.pc = "discard", !.size = t, !.seen = auth[t]]
<1>1. UNCHANGED <<clock, auth, lastAuth, posts, tree>>
  BY DEF Discard, Quiet, tables, network
<1>2. \/ Done(o, "discard") \/ Exit(o)
      \/ t # 0 /\ Discardable(auth[t]) /\ Hold(o, k)
  BY DEF Discard
<1>3. CASE t # 0 /\ Discardable(auth[t]) /\ Hold(o, k)
  <2>1. t \in Exists(auth) /\ t \in Tree /\ t \in Nat /\ t <= tree
    BY <1>3, LastExists, TreeSize DEF CanaryInv, Exists, Past
  <2>2. run[o] \in Held /\ auth[t] \in AuthRow \cup {None}
    BY <2>1 DEF CanaryInv, RunInv, TableType
  <2> HIDE DEF t
  <2>3. k \in Held /\ k.pc = "discard" /\ k.size = t
    BY <2>1, <2>2 DEF Held, Pcs
  <2>4. Fits(k, auth, tree, posts)
    BY <1>3, <2>1, <2>3 DEF Fits, RowPcs, SavePcs, LatchPcs
  <2> HIDE DEF k
  <2> QED BY <1>1, <1>3, <2>4, QuietStep
<1> QED BY <1>1, <1>2, <1>3, DoneStep, ExitStep

\* What is deleted was not latched when it was read, and nobody latched it since.
LEMMA DeleteStep ==
    ASSUME OneOperator, CanaryInv, NEW o \in Operator, Delete(o)
    PROVE  CanaryInv' /\ LatchStep
<1> DEFINE t == run[o].size
           d == [run[o] EXCEPT !.pc = "next", !.todo = @ \ {"discard"}, !.row = None,
                               !.seen = None]
<1>1. run[o] \in Held /\ t \in Tree /\ ~Latched(auth[t])
  BY DEF Delete, At, CanaryInv, RunInv, Fits, Discardable
<1>2. /\ auth' = [auth EXCEPT ![t] = None] /\ lastAuth' \in {0, lastAuth}
      /\ Hold(o, d) /\ UNCHANGED <<clock, posts, tree>>
  BY DEF Delete, Done, network
<1>3. \A u \in Tree : auth'[u] = IF u = t THEN None ELSE auth[u]
  BY <1>1, <1>2 DEF CanaryInv, TableType
<1>4. d \in Held /\ d.pc = "next"
  BY <1>1, DoneFits
<1> HIDE DEF d
<1>5. RunInv'
  BY <1>2, <1>4, FitsAway, HoldRuns DEF CanaryInv
<1>6. TableType'
  BY <1>1, <1>2 DEF CanaryInv, TableType
<1>7. Past'
  BY <1>2, <1>3 DEF CanaryInv, Past, Exists
<1>8. Pinned' /\ Posted'
  BY <1>1, <1>2, <1>3 DEF CanaryInv, Pinned, Posted, Latched
<1>9. LatchStep
  <2>1. ASSUME NEW u \in Tree, Latched(auth[u])
        PROVE  auth'[u] = auth[u] /\ auth[u] # None /\ Rank[auth[u].state] \in Nat
    BY <1>1, <1>3, <2>1, Ranks DEF Latched, CanaryInv, TableType, AuthRow
  <2> QED BY <2>1 DEF LatchStep
<1> QED BY <1>5, <1>6, <1>7, <1>8, <1>9 DEF CanaryInv

LEMMA AuthorizeStep ==
    ASSUME OneOperator, CanaryInv, NEW o \in Operator, Authorize(o)
    PROVE  CanaryInv' /\ LatchStep
<1>1. UNCHANGED <<clock, auth, lastAuth, posts, tree>>
  BY DEF Authorize, Quiet, tables, network
<1>2. \/ Done(o, "prepare") \/ Exit(o)
      \/ auth[tree] = None /\ \E fee \in Fee :
             Hold(o, [run[o] EXCEPT !.pc = "dial", !.size = tree,
                         !.req = [serial |-> o, at |-> clock, fee |-> fee]])
  BY DEF Authorize
<1>3. ASSUME auth[tree] = None, NEW fee \in Fee,
             Hold(o, [run[o] EXCEPT !.pc = "dial", !.size = tree,
                         !.req = [serial |-> o, at |-> clock, fee |-> fee]])
      PROVE  CanaryInv' /\ LatchStep
  <2> DEFINE q == [serial |-> o, at |-> clock, fee |-> fee]
             k == [run[o] EXCEPT !.pc = "dial", !.size = tree, !.req = q]
  <2>1. q \in Request
    BY OperatorAssumption DEF Request, CanaryInv, TableType
  <2>2. run[o] \in Held /\ tree \in Tree /\ tree \in Nat
    BY TreeSize DEF CanaryInv, RunInv, TableType
  <2> HIDE DEF q
  <2>3. k \in Held /\ k.pc = "dial" /\ k.size = tree /\ k.req = q
    BY <2>1, <2>2 DEF Held, Pcs
  <2>4. Hold(o, k)
    BY <1>3 DEF q
  <2> HIDE DEF k
  <2>5. Fits(k, auth, tree, posts)
    BY <1>3, <2>1, <2>2, <2>3 DEF Fits, RowPcs, SavePcs, LatchPcs
  <2> QED BY <1>1, <2>4, <2>5, QuietStep
<1> QED BY <1>1, <1>2, <1>3, DoneStep, ExitStep

LEMMA DialStep ==
    ASSUME OneOperator, CanaryInv, NEW o \in Operator, Dial(o)
    PROVE  CanaryInv' /\ LatchStep
<1> DEFINE k == [run[o] EXCEPT !.pc = "persist", !.seen = auth[run[o].size]]
<1>1. UNCHANGED <<clock, auth, lastAuth, posts, tree>>
  BY DEF Dial, tables, network
<1>2. Exit(o) \/ Hold(o, k)
  BY DEF Dial
<1>3. run[o] \in Held /\ Fits(run[o], auth, tree, posts) /\ run[o].pc = "dial"
  BY DEF Dial, At, CanaryInv, RunInv
<1>4. /\ auth[run[o].size] = None /\ run[o].size \in Tree /\ run[o].size <= tree
      /\ run[o].req \in Request
  BY <1>3 DEF Fits
<1>5. /\ k \in Held /\ k.pc = "persist" /\ k.size = run[o].size /\ k.req = run[o].req
      /\ k.seen = None
  BY <1>3, <1>4 DEF Held, Pcs
<1> HIDE DEF k
<1>6. Fits(k, auth, tree, posts)
  BY <1>4, <1>5 DEF Fits, RowPcs, SavePcs, LatchPcs
<1> QED BY <1>1, <1>2, <1>6, QuietStep, ExitStep

\* A row is only inserted where there is none.
LEMMA PersistStep ==
    ASSUME OneOperator, CanaryInv, NEW o \in Operator, Persist(o)
    PROVE  CanaryInv' /\ LatchStep
<1> DEFINE r == run[o]
           t == r.size
           new == [signed |-> r.req, state |-> "AUTHORIZED", expected |-> None, attempted |-> 0]
           d == [r EXCEPT !.pc = "next", !.todo = @ \ {"prepare"}, !.row = None, !.seen = None]
<1>1. /\ r \in Held /\ t \in Tree /\ t <= tree /\ auth[t] = None /\ r.seen = None
      /\ r.req \in Request
  BY DEF Persist, At, CanaryInv, RunInv, Fits
<1>2. new \in AuthRow
  BY <1>1 DEF AuthRow, SendState
<1>3. ~Latched(new)
  BY Ranks DEF Latched
<1>4. SaveVerdict(r.seen, new) = "insert"
  BY <1>1 DEF SaveVerdict
<1>5. /\ auth' = [auth EXCEPT ![t] = new] /\ lastAuth' = t
      /\ Hold(o, d) /\ UNCHANGED <<clock, posts, tree>>
  BY <1>4 DEF Persist, SaveAuthorized, Done, network
<1>6. d \in Held /\ d.pc = "next"
  BY <1>1, DoneFits
<1> HIDE DEF d, new
<1>7. \A u \in Tree : auth'[u] = IF u = t THEN new ELSE auth[u]
  BY <1>1, <1>5 DEF CanaryInv, TableType
<1>8. RunInv'
  BY <1>5, <1>6, FitsAway, HoldRuns DEF CanaryInv
<1>9. TableType'
  BY <1>1, <1>2, <1>5 DEF CanaryInv, TableType
<1>10. Past'
  BY <1>1, <1>5, <1>7 DEF CanaryInv, Past, Exists
<1>11. ~Latched(auth[t])
  BY <1>1 DEF Latched
<1>12. Pinned' /\ Posted'
  BY <1>1, <1>3, <1>5, <1>7, <1>11 DEF CanaryInv, Pinned, Posted
<1>13. LatchStep
  <2>1. ASSUME NEW u \in Tree, Latched(auth[u])
        PROVE  auth'[u] = auth[u] /\ auth[u] # None /\ Rank[auth[u].state] \in Nat
    <3>1. u # t
      BY <1>11, <2>1
    <3> QED BY <1>7, <2>1, <3>1, Ranks DEF Latched, CanaryInv, TableType, AuthRow
  <2> QED BY <2>1 DEF LatchStep
<1> QED BY <1>8, <1>9, <1>10, <1>12, <1>13 DEF CanaryInv

LEMMA GoStep ==
    ASSUME OneOperator, CanaryInv, NEW o \in Operator, Go(o)
    PROVE  CanaryInv' /\ LatchStep
<1> DEFINE t == LastAuthorized
           row == auth[t]
           k(pc) == [run[o] EXCEPT !.pc = pc, !.size = t, !.row = row]
<1>1. UNCHANGED <<clock, auth, lastAuth, posts, tree>>
  BY DEF Go, Quiet, tables, network
<1>2. \/ Exit(o)
      \/ t # 0 /\ PolledOnly(row) /\ Hold(o, k("poll"))
      \/ t # 0 /\ row.state # "CONFIRMED" /\ ~PolledOnly(row) /\ Hold(o, k("latch"))
  BY DEF Go
<1>3. ASSUME t # 0
      PROVE  /\ t \in Tree /\ t \in Nat /\ t <= tree /\ row \in AuthRow /\ row # None
             /\ run[o] \in Held /\ row.state \in SendState
  <2>1. t \in Exists(auth)
    BY <1>3, LastExists DEF CanaryInv
  <2> HIDE DEF t
  <2>2. t \in Tree /\ row \in AuthRow /\ row # None
    BY <2>1 DEF Exists, CanaryInv, TableType
  <2> QED BY <2>1, <2>2, TreeSize DEF CanaryInv, RunInv, Past, AuthRow
<1>4. ASSUME t # 0, NEW pc \in {"poll", "latch"}
      PROVE  k(pc) \in Held /\ k(pc).pc = pc /\ k(pc).size = t /\ k(pc).row = row
  <2> HIDE DEF t, row
  <2> QED BY <1>3, <1>4 DEF Held, Pcs, RowPcs
<1>5. CASE t # 0 /\ PolledOnly(row) /\ Hold(o, k("poll"))
  <2>1. Latched(row)
    BY <1>3, <1>5, Ranks DEF Latched, PolledOnly
  <2>2. Fits(k("poll"), auth, tree, posts)
    <3> HIDE DEF t, k
    <3> QED BY <1>3, <1>4, <1>5, <2>1 DEF Fits, RowPcs, SavePcs, LatchPcs
  <2> QED BY <1>1, <1>5, <2>2, QuietStep
<1>6. CASE t # 0 /\ row.state # "CONFIRMED" /\ ~PolledOnly(row) /\ Hold(o, k("latch"))
  <2>1. row.state = "AUTHORIZED"
    BY <1>3, <1>6 DEF PolledOnly, SendState
  <2>2. Fits(k("latch"), auth, tree, posts)
    <3> HIDE DEF t, k
    <3> QED BY <1>3, <1>4, <1>6, <2>1 DEF Fits, RowPcs, SavePcs, LatchPcs
  <2> QED BY <1>1, <1>6, <2>2, QuietStep
<1> QED BY <1>1, <1>2, <1>5, <1>6, ExitStep

\* A run moves on between two steps that hold its row.
LEMMA MoveFits ==
    ASSUME CanaryInv, NEW o \in Operator, run[o].pc \in LatchPcs,
           NEW to \in {"found", "advance"}
    PROVE  Fits([run[o] EXCEPT !.pc = to], auth, tree, posts)
<1> DEFINE r == run[o]
           k == [r EXCEPT !.pc = to]
<1>1. r \in Held /\ Fits(r, auth, tree, posts)
  BY DEF CanaryInv, RunInv
<1>2. /\ r.size \in Tree /\ r.size <= tree /\ auth[r.size] # None /\ r.row = auth[r.size]
      /\ Latched(auth[r.size])
  BY <1>1 DEF Fits, LatchPcs, RowPcs
<1>3. k \in Held /\ k.pc = to /\ k.size = r.size /\ k.row = r.row
  BY <1>1 DEF Held, Pcs, RowPcs
<1> HIDE DEF k
<1>4. Fits(k, auth, tree, posts)
  BY <1>2, <1>3 DEF Fits, RowPcs, SavePcs, LatchPcs
<1> QED BY <1>4 DEF k

LEMMA ReadStep ==
    ASSUME OneOperator, CanaryInv, NEW o \in Operator, Read(o)
    PROVE  CanaryInv' /\ LatchStep
<1> DEFINE r == run[o]
           to == CASE r.pc = "latch" -> "marksent" [] r.pc = "answered" -> "marksub"
                   [] r.pc = "found" -> "markconf"
           k == [r EXCEPT !.seen = auth[r.size], !.pc = to]
<1>1. UNCHANGED <<clock, auth, lastAuth, posts, tree>>
  BY DEF Read, Quiet, tables, network
<1>2. r \in Held /\ Fits(r, auth, tree, posts) /\ r.pc \in {"latch", "answered", "found"}
  BY DEF Read, CanaryInv, RunInv
<1>3. /\ r.size \in Tree /\ r.size <= tree /\ auth[r.size] # None /\ r.row = auth[r.size]
      /\ auth[r.size] \in AuthRow
  BY <1>2 DEF Fits, RowPcs, CanaryInv, TableType
<1>4. to \in SavePcs /\ (to = "marksent" => r.pc = "latch") /\ (to # "marksent" => r.pc # "latch")
  BY <1>2 DEF SavePcs
<1>5. Hold(o, k)
  BY <1>2 DEF Read, Held
<1> HIDE DEF to
<1>6. k \in Held /\ k.pc = to /\ k.size = r.size /\ k.row = r.row /\ k.seen = auth[r.size]
  BY <1>2, <1>3, <1>4 DEF Held, Pcs, RowPcs, SavePcs
<1> HIDE DEF k
<1>7. r.pc = "latch" => r.row.state = "AUTHORIZED"
  BY <1>2 DEF Fits
<1>8. r.pc # "latch" => Latched(auth[r.size])
  BY <1>2 DEF Fits, LatchPcs, RowPcs
<1>9. Fits(k, auth, tree, posts)
  BY <1>3, <1>4, <1>6, <1>7, <1>8 DEF Fits, RowPcs, SavePcs, LatchPcs
<1> QED BY <1>1, <1>5, <1>9, QuietStep

\* A save of a row that nobody has written since it was read is an update: it
\* keeps what was signed, and what was sent once there is such a thing.
LEMMA WriteStep ==
    ASSUME OneOperator, CanaryInv, NEW o \in Operator, run[o].pc \in SavePcs,
           NEW new \in AuthRow, NEW next \in {"post", "poll", "pointer"}, Write(o, new, next),
           new.signed = run[o].row.signed, new.state # "AUTHORIZED",
           Rank[new.state] >= Rank[run[o].row.state],
           new.expected = IF Latched(run[o].row) THEN run[o].row.expected
                          ELSE run[o].row.signed,
           next = "post" => ~Latched(run[o].row)
    PROVE  CanaryInv' /\ LatchStep
<1> DEFINE r == run[o]
           t == r.size
           row == auth[t]
           up == [row EXCEPT !.state = new.state, !.expected = new.expected,
                             !.attempted = IF new.attempted = 0 THEN @ ELSE new.attempted]
           k == [r EXCEPT !.pc = next, !.row = up, !.seen = None]
<1>1. r \in Held /\ Fits(r, auth, tree, posts)
  BY DEF CanaryInv, RunInv
<1>2. /\ t \in Tree /\ t <= tree /\ row # None /\ row \in AuthRow
      /\ r.row = row /\ r.seen = row
  BY <1>1 DEF Fits, SavePcs, RowPcs, CanaryInv, TableType
<1>3. /\ row.signed \in Request /\ row.state \in SendState /\ new.state \in SendState
      /\ Latched(row) => row.expected = row.signed
  BY <1>2 DEF AuthRow, CanaryInv, Pinned
<1>4. new.expected = row.signed /\ new.expected # None
  BY <1>2, <1>3, NoneAssumption
<1>5. SaveVerdict(row, new) = "update"
  <2>1. ~(Rank[new.state] < Rank[row.state])
    BY <1>2, <1>3, Ranks
  <2> QED BY <1>2, <1>3, <1>4, <2>1 DEF SaveVerdict
<1>6. Updated(row, new) = up
  BY <1>2, <1>4 DEF Updated
<1>7. /\ up \in AuthRow /\ up.signed = row.signed /\ up.state = new.state
      /\ up.expected = new.expected
  <2>1. new.attempted \in Nat /\ new.expected \in Request
    BY <1>3, <1>4 DEF AuthRow
  <2> QED BY <1>2, <1>3, <2>1 DEF AuthRow
<1>8. up # None /\ Latched(up)
  BY <1>3, <1>7, Ranks, NoneAssumption DEF Latched
<1> HIDE DEF up
<1>9. Saved(t, row, new) = up
  BY <1>5, <1>6, <1>8 DEF Saved
<1>10. auth' = [auth EXCEPT ![t] = up] /\ lastAuth' = t
  BY <1>2, <1>5, <1>6 DEF Write, SaveAuthorized
<1>11. Hold(o, k) /\ UNCHANGED <<clock, posts, tree>>
  <2>1. SaveVerdict(r.seen, new) # "refuse" /\ Saved(r.size, r.seen, new) = up
    BY <1>2, <1>5, <1>9
  <2>2. up.signed = r.row.signed
    BY <1>2, <1>7
  <2> QED BY <2>1, <2>2 DEF Write, network
<1>12. \A u \in Tree : auth'[u] = IF u = t THEN up ELSE auth[u]
  BY <1>2, <1>10 DEF CanaryInv, TableType
<1>13. k \in Held /\ k.pc = next /\ k.size = t /\ k.row = up
  BY <1>1, <1>7 DEF Held, Pcs, RowPcs
<1> HIDE DEF k
<1>14. next = "post" => posts[t] = 0
  BY <1>2 DEF CanaryInv, Posted
<1>15. Fits(k, auth', tree', posts')
  BY <1>2, <1>8, <1>11, <1>12, <1>13, <1>14 DEF Fits, RowPcs, SavePcs, LatchPcs
<1>16. RunInv'
  BY <1>11, <1>15, HoldRuns DEF CanaryInv
<1>17. TableType'
  BY <1>2, <1>7, <1>10, <1>11 DEF CanaryInv, TableType
<1>18. Past'
  BY <1>2, <1>11, <1>12 DEF CanaryInv, Past, Exists
<1>19. Pinned'
  BY <1>4, <1>7, <1>12 DEF CanaryInv, Pinned
<1>20. Posted'
  BY <1>8, <1>11, <1>12 DEF CanaryInv, Posted
<1>21. LatchStep
  <2>1. ASSUME NEW u \in Tree, Latched(auth[u])
        PROVE  /\ auth'[u] # None
               /\ Rank[auth'[u].state] >= Rank[auth[u].state]
               /\ auth'[u].signed = auth[u].signed
               /\ auth'[u].expected = auth[u].expected
    <3>1. CASE u = t
      <4>1. auth'[u] = up /\ auth[u] = row
        BY <1>12, <3>1
      <4>2. Latched(r.row) /\ r.row = row
        BY <1>2, <2>1, <3>1
      <4> QED BY <1>2, <1>7, <1>8, <4>1, <4>2
    <3>2. CASE u # t
      <4>1. auth'[u] = auth[u] /\ auth[u] # None /\ Rank[auth[u].state] \in Nat
        BY <1>12, <2>1, <3>2, Ranks DEF Latched, CanaryInv, TableType, AuthRow
      <4> QED BY <4>1
    <3> QED BY <3>1, <3>2
  <2> QED BY <2>1 DEF LatchStep
<1> QED BY <1>16, <1>17, <1>18, <1>19, <1>20, <1>21 DEF CanaryInv

LEMMA MarkAttemptedStep ==
    ASSUME OneOperator, CanaryInv, NEW o \in Operator, MarkAttempted(o)
    PROVE  CanaryInv' /\ LatchStep
<1> DEFINE row == run[o].row
           new == [row EXCEPT !.state = "SEND_ATTEMPTED", !.expected = row.signed,
                              !.attempted = clock]
<1>1. run[o].pc = "marksent" /\ Write(o, new, "post")
  BY DEF MarkAttempted, At
<1>2. row \in AuthRow /\ row.state = "AUTHORIZED" /\ clock \in Nat
  BY <1>1 DEF CanaryInv, RunInv, Fits, RowPcs, TableType, Time
<1>3. /\ new \in AuthRow /\ new.signed = row.signed /\ new.state = "SEND_ATTEMPTED"
      /\ new.expected = row.signed
  BY <1>2 DEF AuthRow, SendState
<1>4. ~Latched(row) /\ Rank[new.state] >= Rank[row.state]
  BY <1>2, <1>3, Ranks DEF Latched
<1> HIDE DEF new
<1> QED BY <1>1, <1>3, <1>4, WriteStep DEF SavePcs

LEMMA MarkOnStep ==
    ASSUME OneOperator, CanaryInv, NEW o \in Operator, MarkSubmitted(o) \/ MarkConfirmed(o)
    PROVE  CanaryInv' /\ LatchStep
<1> DEFINE row == run[o].row
           new(state) == [row EXCEPT !.state = state]
<1>1. \/ run[o].pc = "marksub" /\ Write(o, new("SUBMITTED"), "poll")
      \/ run[o].pc = "markconf" /\ Write(o, new("CONFIRMED"), "pointer")
  BY DEF MarkSubmitted, MarkConfirmed, At
<1>2. row \in AuthRow /\ Latched(row) /\ run[o].seen = row /\ row # None
  BY <1>1 DEF CanaryInv, RunInv, Fits, RowPcs, LatchPcs, SavePcs, TableType
<1>3. ASSUME NEW state \in {"SUBMITTED", "CONFIRMED"}
      PROVE  /\ new(state) \in AuthRow /\ new(state).signed = row.signed
             /\ new(state).state = state /\ new(state).expected = row.expected
  BY <1>2 DEF AuthRow, SendState
<1>4. ASSUME NEW state \in {"SUBMITTED", "CONFIRMED"}, NEW next \in {"poll", "pointer"},
             run[o].pc \in SavePcs, Write(o, new(state), next)
      PROVE  CanaryInv' /\ LatchStep
  <2> HIDE DEF new
  <2>1. CASE Rank[state] >= Rank[row.state]
    BY <1>2, <1>3, <1>4, <2>1, WriteStep
  <2>2. CASE ~(Rank[state] >= Rank[row.state])
    <3>1. Rank[state] < Rank[row.state]
      BY <1>2, <2>2, Ranks DEF AuthRow, SendState
    <3>2. SaveVerdict(run[o].seen, new(state)) = "refuse"
      BY <1>2, <1>3, <3>1 DEF SaveVerdict
    <3>3. Exit(o) /\ UNCHANGED <<clock, auth, lastAuth, posts, tree>>
      BY <1>4, <3>2 DEF Write, SaveAuthorized, network
    <3> QED BY <3>3, ExitStep
  <2> QED BY <2>1, <2>2
<1> HIDE DEF new
<1> QED BY <1>1, <1>4 DEF SavePcs

\* The one POST: the row is latched and nothing was sent for its tree.
LEMMA PostStep ==
    ASSUME OneOperator, CanaryInv, NEW o \in Operator, PostOnce(o)
    PROVE  CanaryInv' /\ LatchStep
<1> DEFINE r == run[o]
           t == r.size
           k == [r EXCEPT !.pc = "answered"]
<1>1. r \in Held /\ Fits(r, auth, tree, posts) /\ r.pc = "post"
  BY DEF PostOnce, At, CanaryInv, RunInv
<1>2. t \in Tree /\ posts[t] = 0 /\ Latched(auth[t])
  BY <1>1 DEF Fits, LatchPcs, RowPcs
<1>3. posts' = [posts EXCEPT ![t] = @ + 1] /\ UNCHANGED <<clock, auth, lastAuth, tree>>
  BY DEF PostOnce, Post, tables
<1>4. \A u \in Tree : posts'[u] = IF u = t THEN 1 ELSE posts[u]
  BY <1>2, <1>3 DEF CanaryInv, TableType
<1>5. posts' \in [Tree -> Nat]
  BY <1>2, <1>3 DEF CanaryInv, TableType
<1>6. RunInv'
  <2>1. CASE Exit(o)
    BY <2>1, NoRunFits, FitsAway, HoldRuns DEF Exit, CanaryInv
  <2>2. CASE Goto(o, "answered")
    <3>1. /\ t <= tree /\ auth[t] # None /\ r.row = auth[t]
      BY <1>1 DEF Fits, RowPcs
    <3>2. k \in Held /\ k.pc = "answered" /\ k.size = t /\ k.row = r.row
      BY <1>1 DEF Held, Pcs, RowPcs
    <3>3. Hold(o, k)
      BY <2>2 DEF Goto
    <3> HIDE DEF k
    <3>4. Fits(k, auth', tree', posts')
      BY <1>2, <1>3, <3>1, <3>2 DEF Fits, RowPcs, SavePcs, LatchPcs
    <3> QED BY <3>3, <3>4, HoldRuns DEF CanaryInv
  <2> QED BY <2>1, <2>2 DEF PostOnce
<1>7. Posted'
  BY <1>2, <1>3, <1>4 DEF CanaryInv, Posted
<1>8. LatchStep
  <2>1. ASSUME NEW u \in Tree, Latched(auth[u])
        PROVE  auth'[u] = auth[u] /\ auth[u] # None /\ Rank[auth[u].state] \in Nat
    BY <1>3, <2>1, Ranks DEF Latched, CanaryInv, TableType, AuthRow
  <2> QED BY <2>1 DEF LatchStep
<1> QED BY <1>3, <1>5, <1>6, <1>7, <1>8 DEF CanaryInv, TableType, Past, Pinned, Exists

LEMMA PollStep ==
    ASSUME OneOperator, CanaryInv, NEW o \in Operator,
           Poll(o) \/ ReadPointer(o) \/ AdvancePointer(o) \/ Die(o)
    PROVE  CanaryInv' /\ LatchStep
<1>1. UNCHANGED <<clock, auth, lastAuth, posts, tree>>
  BY DEF Poll, ReadPointer, AdvancePointer, Die, Quiet, tables, network
<1>2. \/ Exit(o)
      \/ run[o].pc \in LatchPcs /\ (Goto(o, "found") \/ Goto(o, "advance"))
  BY DEF Poll, ReadPointer, AdvancePointer, Die, At, LatchPcs, RowPcs
<1>3. CASE run[o].pc \in LatchPcs /\ (Goto(o, "found") \/ Goto(o, "advance"))
  BY <1>1, <1>3, MoveFits, QuietStep DEF Goto
<1> QED BY <1>1, <1>2, <1>3, ExitStep

\* The server appends while a run is under way, time passes, blocks come.
LEMMA WorldStep ==
    ASSUME CanaryInv, ((ClockTick \/ Include) /\ UNCHANGED <<tree, run, dials>>) \/ Grow
    PROVE  CanaryInv' /\ LatchStep
<1>1. UNCHANGED <<auth, lastAuth, posts, run>>
  BY DEF ClockTick, Include, Grow, tables, network
<1>2. clock' \in Time
  BY TimeAssumption DEF ClockTick, Include, Grow, CanaryInv, TableType, Time
<1>3. tree' \in Tree /\ tree \in Nat /\ tree <= tree' /\ tree' \in Nat
  BY TreeSize DEF ClockTick, Include, Grow, CanaryInv, TableType
<1>4. RunInv'
  <2>1. ASSUME NEW o \in Operator PROVE Fits(run[o], auth, tree', posts)
    <3>1. Fits(run[o], auth, tree, posts)
      BY DEF CanaryInv, RunInv
    <3>2. run[o].size <= tree => run[o].size <= tree'
      <4>1. run[o].size \in Nat
        BY <3>1 DEF Fits, Held
      <4> QED BY <1>3, <4>1
    <3> QED BY <3>1, <3>2 DEF Fits
  <2> QED BY <1>1, <2>1 DEF CanaryInv, RunInv
<1>5. Past'
  <2>1. \A t \in Exists(auth) : t \in Nat /\ t <= tree
    BY TreeSize DEF CanaryInv, Past, Exists
  <2> QED BY <1>1, <1>3, <2>1 DEF Past, Exists
<1>6. LatchStep
  <2>1. ASSUME NEW u \in Tree, Latched(auth[u])
        PROVE  auth'[u] = auth[u] /\ auth[u] # None /\ Rank[auth[u].state] \in Nat
    BY <1>1, <2>1, Ranks DEF Latched, CanaryInv, TableType, AuthRow
  <2> QED BY <2>1 DEF LatchStep
<1> QED BY <1>1, <1>2, <1>3, <1>4, <1>5, <1>6 DEF CanaryInv, TableType, Pinned, Posted

LEMMA CanaryStep ==
    ASSUME OneOperator, CanaryInv, Next
    PROVE  CanaryInv' /\ LatchStep
BY WorldStep, StartStep, DiscardStep, DeleteStep, AuthorizeStep, DialStep, PersistStep, GoStep,
   ReadStep, MarkAttemptedStep, PostStep, MarkOnStep, PollStep DEF Next

LEMMA CanaryInit == Init => CanaryInv
<1> SUFFICES ASSUME Init PROVE CanaryInv
  OBVIOUS
<1>1. TableType
  BY TimeAssumption DEF Init, StoreInit, TableType, Time
<1>2. \A t \in Tree : auth[t] = None /\ ~Latched(auth[t]) /\ posts[t] = 0
  BY DEF Init, StoreInit, Latched
<1>3. RunInv
  BY NoRunFits, FitsAway DEF Init, RunInv
<1> QED BY <1>1, <1>2, <1>3 DEF CanaryInv, Past, Pinned, Posted, Exists

LEMMA CanaryInvHolds == ASSUME OneOperator PROVE Spec => []CanaryInv
<1>1. CanaryInv /\ [Next]_vars => CanaryInv'
  <2>1. CanaryInv /\ UNCHANGED vars => CanaryInv'
    BY DEF vars, tables, network, CanaryInv, TableType, Past, Pinned, Posted, RunInv, Exists
  <2> QED BY <2>1, CanaryStep
<1> QED BY <1>1, CanaryInit, PTL DEF Spec

-----------------------------------------------------------------------------

\* However often the script dies and its commands are given again, one operator
\* posts at most once for a tree (send_durable polls after SEND_ATTEMPTED, and
\* discard_authorized_checkpoint is refused a latched row).
THEOREM OneOperatorPostsOnce == ASSUME OneOperator PROVE Spec => []OnePostPerTree
<1>1. CanaryInv => OnePostPerTree
  BY DEF CanaryInv, Posted, OnePostPerTree
<1> QED BY <1>1, CanaryInvHolds, PTL

\* With one operator the row of a POST is never lost: it keeps its transaction
\* and its txid and its state never goes back (save_authorized_checkpoint).
THEOREM LatchIsForever == ASSUME OneOperator PROVE Spec => LatchedForever
<1>1. CanaryInv /\ [Next]_vars => [LatchStep]_vars
  BY CanaryStep
<1>2. CanaryInv /\ [Next]_vars =>
          [\A t \in Tree : Latched(auth[t]) =>
              /\ auth'[t] # None
              /\ Rank[auth'[t].state] >= Rank[auth[t].state]
              /\ auth'[t].signed = auth[t].signed
              /\ auth'[t].expected = auth[t].expected]_vars
  BY <1>1 DEF LatchStep
<1> QED BY <1>2, CanaryInvHolds, PTL DEF Spec, LatchedForever
=============================================================================
