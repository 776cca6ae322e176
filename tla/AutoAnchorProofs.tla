-------------------------- MODULE AutoAnchorProofs --------------------------
(***************************************************************************)
(* Proofs about AutoAnchor, for any number of processes, trees, fees and   *)
(* budgets: type correctness; that no tree is posted twice, as long as no  *)
(* record is old enough to be deleted; that only what a block contains is  *)
(* confirmed; and that no ceiling is passed, with one process always, with *)
(* several as long as nothing is deleted.                                  *)
(***************************************************************************)
EXTENDS AutoAnchor, FiniteSetsExt, FiniteSetTheorems, WellFoundedInduction, TLAPS

\* A set of natural numbers that is not empty has a least element.
LEMMA LeastNatural ==
    ASSUME NEW T \in SUBSET Nat, T # {}
    PROVE  \E m \in T : \A n \in T : m <= n
<1> DEFINE R == OpToRel(<, Nat)
<1>1. IsWellFoundedOn(R, Nat)
  BY NatLessThanWellFounded
<1>2. \A x, y \in Nat : x < y => <<x, y>> \in R
  BY DEF OpToRel
<1> HIDE DEF R
<1>3. PICK x \in T : \A y \in T : <<y, x>> \notin R
  BY <1>1, WFMin
<1>4. ASSUME NEW y \in T PROVE x <= y
  <2>1. x \in Nat /\ y \in Nat /\ <<y, x>> \notin R
    BY <1>3
  <2>2. ~(y < x)
    BY <1>2, <2>1
  <2> QED BY <2>1, <2>2
<1> QED BY <1>4

-----------------------------------------------------------------------------
(* SumFunctionOnSet takes the elements of its set one by one, in an order  *)
(* nobody knows: the sum does not depend on it.                            *)

Pick(s) == CHOOSE x \in s : TRUE

\* One step of the sum over s, given the sums over its subsets.
SumBody(f, g, s) == IF s = {} THEN 0 ELSE f[Pick(s)] + g[s \ {Pick(s)}]

\* g is the table of sums over the subsets of S.
IsSums(f, g, S) == g = [s \in SUBSET S |-> SumBody(f, g, s)]

LEMMA SumIs ==
    ASSUME NEW f, NEW S
    PROVE  SumFunctionOnSet(f, S) = (CHOOSE g : IsSums(f, g, S))[S]
BY DEF SumFunctionOnSet, FoldFunctionOnSet, MapThenFoldSet, IsSums, SumBody, Pick

LEMMA PickIn ==
    ASSUME NEW s, s # {}
    PROVE  Pick(s) \in s
BY DEF Pick

\* Taking an element out of a finite set.
LEMMA OneLess ==
    ASSUME NEW s, IsFiniteSet(s), NEW x \in s
    PROVE  /\ IsFiniteSet(s \ {x})
           /\ Cardinality(s) \in Nat /\ Cardinality(s \ {x}) \in Nat
           /\ Cardinality(s \ {x}) = Cardinality(s) - 1
           /\ Cardinality(s) # 0
<1>1. IsFiniteSet(s \ {x}) /\ Cardinality(s \ {x}) = Cardinality(s) - 1
  BY FS_RemoveElement
<1>2. Cardinality(s) \in Nat /\ Cardinality(s \ {x}) \in Nat
  BY <1>1, FS_CardinalityType
<1>3. Cardinality(s) # 0
  BY FS_EmptySet
<1> QED BY <1>1, <1>2, <1>3

\* Induction over the subsets of a finite set: among those that are bad there is
\* one that is no longer bad when any element is taken out.
LEMMA SmallestBad ==
    ASSUME NEW S, IsFiniteSet(S), NEW Bad \in SUBSET (SUBSET S), Bad # {}
    PROVE  \E s \in Bad : IsFiniteSet(s) /\ \A x \in s : s \ {x} \notin Bad
<1> DEFINE Sizes == {Cardinality(s) : s \in Bad}
<1>1. \A s \in Bad : IsFiniteSet(s) /\ Cardinality(s) \in Nat
  BY FS_Subset, FS_CardinalityType
<1>2. PICK m \in Sizes : \A n \in Sizes : m <= n
  <2>1. Sizes \in SUBSET Nat /\ Sizes # {}
    BY <1>1
  <2> QED BY <2>1, LeastNatural
<1>3. PICK s \in Bad : Cardinality(s) = m
  BY <1>2
<1>4. ASSUME NEW x \in s, s \ {x} \in Bad PROVE FALSE
  <2>1. Cardinality(s \ {x}) = m - 1 /\ m \in Nat
    BY <1>1, <1>3, OneLess
  <2>2. Cardinality(s \ {x}) \in Sizes
    BY <1>4
  <2>3. m <= m - 1
    BY <1>2, <2>1, <2>2
  <2> QED BY <2>1, <2>3
<1> QED BY <1>1, <1>3, <1>4

\* There is a table for the subsets of S of at most n elements, for every n.
LEMMA TablesExist ==
    ASSUME NEW f, NEW S, IsFiniteSet(S)
    PROVE  \E g : IsSums(f, g, S)
<1> DEFINE Small(n) == {s \in SUBSET S : Cardinality(s) <= n}
           Has(n) == \E g : g = [s \in Small(n) |-> SumBody(f, g, s)]
           Fails == {n \in Nat : ~Has(n)}
<1>1. \A s \in SUBSET S : IsFiniteSet(s) /\ Cardinality(s) \in Nat /\ Cardinality(s) <= Cardinality(S)
  BY FS_Subset, FS_CardinalityType
<1>2. Has(0)
  <2> DEFINE g == [s \in Small(0) |-> 0]
  <2>1. \A s \in Small(0) : s = {}
    BY <1>1, FS_EmptySet
  <2>2. \A s \in Small(0) : SumBody(f, g, s) = 0
    BY <2>1 DEF SumBody
  <2>3. g = [s \in Small(0) |-> SumBody(f, g, s)]
    BY <2>2
  <2> QED BY <2>3
<1>3. ASSUME NEW n \in Nat, Has(n) PROVE Has(n + 1)
  <2>1. PICK g : g = [s \in Small(n) |-> SumBody(f, g, s)]
    BY <1>3
  <2> DEFINE h == [s \in Small(n + 1) |-> SumBody(f, g, s)]
  <2>2. ASSUME NEW s \in Small(n + 1) PROVE SumBody(f, h, s) = SumBody(f, g, s)
    <3>1. CASE s = {}
      BY <3>1 DEF SumBody
    <3>2. CASE s # {}
      <4> DEFINE x == Pick(s)
      <4>1. x \in s
        BY <3>2, PickIn
      <4>2. s \ {x} \in Small(n) /\ s \ {x} \in Small(n + 1)
        BY <1>1, <4>1, OneLess
      <4>3. h[s \ {x}] = SumBody(f, g, s \ {x}) /\ g[s \ {x}] = SumBody(f, g, s \ {x})
        BY <2>1, <4>2
      <4> QED BY <3>2, <4>3 DEF SumBody
    <3> QED BY <3>1, <3>2
  <2>3. h = [s \in Small(n + 1) |-> SumBody(f, h, s)]
    BY <2>2
  <2> QED BY <2>3
<1> HIDE DEF Has
<1>4. Fails = {}
  <2>1. SUFFICES ASSUME Fails # {} PROVE FALSE
    OBVIOUS
  <2>2. PICK m \in Fails : \A n \in Fails : m <= n
    BY <2>1, LeastNatural
  <2>3. m \in Nat /\ m # 0 /\ ~Has(m)
    BY <1>2, <2>2
  <2>4. m - 1 \in Nat /\ m - 1 \notin Fails
    BY <2>2, <2>3
  <2>5. Has((m - 1) + 1)
    BY <1>3, <2>4
  <2> QED BY <2>3, <2>5
<1>5. Has(Cardinality(S))
  BY <1>1, <1>4
<1>6. Small(Cardinality(S)) = SUBSET S
  BY <1>1
<1> QED BY <1>5, <1>6 DEF Has, IsSums

\* Two tables agree where both have an entry.
LEMMA TablesAgree ==
    ASSUME NEW f, NEW g, NEW h, NEW S, NEW T, IsFiniteSet(S),
           IsSums(f, g, S), IsSums(f, h, T), T \subseteq S
    PROVE  \A s \in SUBSET T : g[s] = h[s]
<1> DEFINE Bad == {s \in SUBSET T : g[s] # h[s]}
<1>1. SUFFICES ASSUME Bad # {} PROVE FALSE
  OBVIOUS
<1>2. PICK s \in Bad : \A x \in s : s \ {x} \notin Bad
  <2>1. Bad \in SUBSET (SUBSET S)
    OBVIOUS
  <2> QED BY <1>1, <2>1, SmallestBad
<1>3. g[s] = SumBody(f, g, s) /\ h[s] = SumBody(f, h, s)
  BY <1>2 DEF IsSums
<1>4. s # {}
  BY <1>2, <1>3 DEF SumBody
<1>5. Pick(s) \in s /\ s \ {Pick(s)} \in SUBSET T
  BY <1>4, PickIn
<1>6. g[s \ {Pick(s)}] = h[s \ {Pick(s)}]
  BY <1>2, <1>5
<1>7. g[s] = h[s]
  BY <1>3, <1>4, <1>6 DEF SumBody
<1> QED BY <1>2, <1>7

\* The sum over a set, one element taken out.
LEMMA SumStep ==
    ASSUME NEW f, NEW S, IsFiniteSet(S)
    PROVE  SumFunctionOnSet(f, S)
               = IF S = {} THEN 0 ELSE f[Pick(S)] + SumFunctionOnSet(f, S \ {Pick(S)})
<1> DEFINE T == S \ {Pick(S)}
           g == CHOOSE g : IsSums(f, g, S)
           h == CHOOSE h : IsSums(f, h, T)
<1>1. IsFiniteSet(T)
  BY FS_Subset
<1>2. IsSums(f, g, S) /\ IsSums(f, h, T)
  BY <1>1, TablesExist
<1>3. SumFunctionOnSet(f, S) = g[S] /\ SumFunctionOnSet(f, T) = h[T]
  BY SumIs
<1> HIDE DEF g, h
<1>4. g[S] = SumBody(f, g, S)
  BY <1>2 DEF IsSums
<1>5. g[T] = h[T]
  BY <1>2, TablesAgree
<1> QED BY <1>3, <1>4, <1>5 DEF SumBody

LEMMA SumNothing ==
    ASSUME NEW f
    PROVE  SumFunctionOnSet(f, {}) = 0
<1>1. IsFiniteSet({})
  BY FS_EmptySet
<1>2. SumFunctionOnSet(f, {})
        = IF {} = {} THEN 0 ELSE f[Pick({})] + SumFunctionOnSet(f, {} \ {Pick({})})
  BY <1>1, SumStep
<1> QED BY <1>2

\* A sum of natural numbers is one.
LEMMA SumType ==
    ASSUME NEW f, NEW S, IsFiniteSet(S), \A x \in S : f[x] \in Nat
    PROVE  \A s \in SUBSET S : SumFunctionOnSet(f, s) \in Nat
<1> DEFINE Bad == {s \in SUBSET S : SumFunctionOnSet(f, s) \notin Nat}
<1>1. SUFFICES ASSUME Bad # {} PROVE FALSE
  OBVIOUS
<1>2. PICK s \in Bad : IsFiniteSet(s) /\ \A x \in s : s \ {x} \notin Bad
  <2>1. Bad \in SUBSET (SUBSET S)
    OBVIOUS
  <2> QED BY <1>1, <2>1, SmallestBad
<1>3. CASE s = {}
  <2>1. SumFunctionOnSet(f, s) = 0
    BY <1>3, SumNothing
  <2> QED BY <1>2, <2>1
<1>4. CASE s # {}
  <2>1. Pick(s) \in s /\ s \ {Pick(s)} \in SUBSET S
    BY <1>2, <1>4, PickIn
  <2>2. SumFunctionOnSet(f, s \ {Pick(s)}) \in Nat /\ f[Pick(s)] \in Nat
    BY <1>2, <2>1
  <2>3. SumFunctionOnSet(f, s) = f[Pick(s)] + SumFunctionOnSet(f, s \ {Pick(s)})
    BY <1>2, <1>4, SumStep
  <2> QED BY <1>2, <2>2, <2>3
<1> QED BY <1>3, <1>4

\* Whichever element is taken out, the rest of the sum is the sum of the rest.
LEMMA SumTake ==
    ASSUME NEW f, NEW S, IsFiniteSet(S), \A x \in S : f[x] \in Nat
    PROVE  \A s \in SUBSET S : \A x \in s :
               SumFunctionOnSet(f, s) = f[x] + SumFunctionOnSet(f, s \ {x})
<1> DEFINE Sum(s) == SumFunctionOnSet(f, s)
           Bad == {s \in SUBSET S : \E x \in s : Sum(s) # f[x] + Sum(s \ {x})}
<1>1. SUFFICES ASSUME Bad # {} PROVE FALSE
  OBVIOUS
<1>2. PICK s \in Bad : IsFiniteSet(s) /\ \A x \in s : s \ {x} \notin Bad
  <2>1. Bad \in SUBSET (SUBSET S)
    OBVIOUS
  <2> QED BY <1>1, <2>1, SmallestBad
<1>3. PICK x \in s : Sum(s) # f[x] + Sum(s \ {x})
  BY <1>2
<1>4. PICK c \in s : c = Pick(s)
  BY <1>3, PickIn
<1>5. Sum(s) = f[c] + Sum(s \ {c})
  BY <1>2, <1>3, <1>4, SumStep
<1>6. x # c
  BY <1>3, <1>5
<1>7. Sum(s \ {c}) = f[x] + Sum((s \ {c}) \ {x})
  BY <1>2, <1>4, <1>6
<1>8. Sum(s \ {x}) = f[c] + Sum((s \ {x}) \ {c})
  BY <1>2, <1>4, <1>6
<1>9. (s \ {c}) \ {x} = (s \ {x}) \ {c}
  OBVIOUS
<1>10. f[x] \in Nat /\ f[c] \in Nat /\ Sum((s \ {x}) \ {c}) \in Nat
  BY <1>2, <1>3, <1>4, SumType
<1> HIDE DEF Sum
<1>11. Sum(s) = f[x] + Sum(s \ {x})
  BY <1>5, <1>7, <1>8, <1>9, <1>10
<1> QED BY <1>3, <1>11

\* Adding an element adds its value.
LEMMA SumAdd ==
    ASSUME NEW f, NEW S, IsFiniteSet(S), NEW x, x \notin S, \A y \in S \cup {x} : f[y] \in Nat
    PROVE  SumFunctionOnSet(f, S \cup {x}) = SumFunctionOnSet(f, S) + f[x]
<1>1. IsFiniteSet(S \cup {x})
  BY FS_AddElement
<1>2. (S \cup {x}) \ {x} = S
  OBVIOUS
<1>3. SumFunctionOnSet(f, S \cup {x}) = f[x] + SumFunctionOnSet(f, (S \cup {x}) \ {x})
  BY <1>1, SumTake
<1>4. SumFunctionOnSet(f, S) \in Nat
  BY SumType
<1>5. f[x] \in Nat
  OBVIOUS
<1> QED BY <1>2, <1>3, <1>4, <1>5

\* A sum whose terms all are terms of another one, at different places, is not
\* larger.
LEMMA SumEmbeds ==
    ASSUME NEW W, IsFiniteSet(W), NEW S, IsFiniteSet(S), NEW f, NEW g, NEW h \in [W -> S],
           \A y \in S : g[y] \in Nat, \A w \in W : f[w] = g[h[w]],
           \A v, w \in W : h[v] = h[w] => v = w
    PROVE  SumFunctionOnSet(f, W) <= SumFunctionOnSet(g, S)
<1> DEFINE Into(w) == {h[v] : v \in w}
           Bad == {w \in SUBSET W : \E s \in SUBSET S :
                      Into(w) \subseteq s /\ ~(SumFunctionOnSet(f, w) <= SumFunctionOnSet(g, s))}
<1>1. SUFFICES ASSUME Bad # {} PROVE FALSE
  <2>1. Into(W) \subseteq S
    OBVIOUS
  <2> QED BY <2>1
<1>2. PICK w \in Bad : IsFiniteSet(w) /\ \A x \in w : w \ {x} \notin Bad
  <2>1. Bad \in SUBSET (SUBSET W)
    OBVIOUS
  <2> QED BY <1>1, <2>1, SmallestBad
<1>3. PICK s \in SUBSET S :
          Into(w) \subseteq s /\ ~(SumFunctionOnSet(f, w) <= SumFunctionOnSet(g, s))
  BY <1>2
<1>4. \A v \in W : f[v] \in Nat
  OBVIOUS
<1>5. SumFunctionOnSet(g, s) \in Nat
  BY <1>3, SumType
<1>6. CASE w = {}
  <2>1. SumFunctionOnSet(f, w) = 0
    BY <1>6, SumNothing
  <2> QED BY <1>3, <1>5, <2>1
<1>7. ASSUME NEW x \in w PROVE FALSE
  <2>1. h[x] \in s /\ x \in W /\ f[x] = g[h[x]] /\ f[x] \in Nat
    BY <1>2, <1>3, <1>4
  <2>2. SumFunctionOnSet(f, w) = f[x] + SumFunctionOnSet(f, w \ {x})
    BY <1>2, <1>4, SumTake
  <2>3. SumFunctionOnSet(g, s) = g[h[x]] + SumFunctionOnSet(g, s \ {h[x]})
    BY <1>3, <2>1, SumTake
  <2>4. Into(w \ {x}) \subseteq s \ {h[x]}
    BY <1>2, <1>3, <2>1
  <2>5. SumFunctionOnSet(f, w \ {x}) <= SumFunctionOnSet(g, s \ {h[x]})
    BY <1>2, <1>7, <2>4
  <2>6. SumFunctionOnSet(f, w \ {x}) \in Nat /\ SumFunctionOnSet(g, s \ {h[x]}) \in Nat
    BY <1>2, <1>3, <1>4, SumType
  <2>7. SumFunctionOnSet(f, w) <= SumFunctionOnSet(g, s)
    BY <2>1, <2>2, <2>3, <2>5, <2>6
  <2> QED BY <1>3, <2>7
<1> QED BY <1>6, <1>7

-----------------------------------------------------------------------------

USE DEF tables, network, records

\* What a tick owes to its place: from which step on it has a tree, a request,
\* the time it began, and the row it goes by.
JobPcs == Pcs \ {"idle", "load", "reconcile", "survey", "prepare"}
RowPcs == {"authorized", "send", "reserve", "post", "marksub", "setsub", "poll", "pollsent",
           "markconf", "pointer", "advance", "setconf"}

Pointer == [size: Nat \ {0}, txid: Request \cup {None}]
Errors == {"none", "plain", "stale", "expired", "cap", "store"}
Held == [pc: Pcs, when: Time \cup {0}, conf: [size: Nat, txid: Request \cup {None}],
         size: Nat, req: Request \cup {None}, resigns: Nat, row: AuthRow \cup {None},
         seen: AuthRow \cup {None}, err: Errors, flow: {"first", "resign"}]

Sound(k) ==
    /\ k \in Held
    /\ k.pc # "idle" => k.when \in Time /\ k.conf \in Pointer
    /\ k.pc \in JobPcs \cup {"reconcile"} => k.size \in Tree
    /\ k.pc \in JobPcs => k.req \in Request
    /\ k.pc \in RowPcs \cup {"reload"} => k.row \in AuthRow

AuthType == auth \in [Tree -> AuthRow \cup {None}] /\ lastAuth \in Tree \cup {0}
ConfirmType == anchors \in [Tree -> Request \cup {None}] /\ confirmed \in Pointer
NetType == posts \in [Tree -> Nat] /\ wire \subseteq Tree \X Request /\ chain \subseteq wire
JobType == jobs \in [Tree -> Job \cup {None}]
SendType == sends \in [Tree -> Send \cup {None}]
              /\ spent \subseteq [tree: Tree, at: Time, fee: Fee]
WorldType ==
    /\ clock \in Time
    /\ tree \in Tree \cup {1}
    /\ dials \in [Tree \X Request -> Nat]
    /\ bad \in Nat /\ deaths \in Nat
TickType ==
    /\ ctl \in [Controller -> Held]
    /\ \A c \in Controller : Sound(ctl[c])
    /\ \A c \in Controller : ctl[c].pc = "prepare" => tree \in Tree

TypeInv == AuthType /\ ConfirmType /\ NetType /\ JobType /\ SendType /\ WorldType /\ TickType

LEMMA TreeSize == \A t \in Tree : t \in Nat \ {0}
BY TreeAssumption

LEMMA TypeInvImpliesTypeOK == TypeInv => TypeOK
<1> SUFFICES ASSUME TypeInv PROVE TypeOK
  OBVIOUS
<1>1. StoreTypeOK
  BY DEF TypeInv, AuthType, ConfirmType, NetType, WorldType, StoreTypeOK, Pointer
<1>2. tree \in Nat
  BY TreeSize DEF TypeInv, WorldType
<1>3. ctl \in [Controller ->
          [pc: Pcs, when: Time \cup {0}, conf: [size: Nat, txid: Request \cup {None}],
           size: Nat, req: Request \cup {None}, resigns: Nat, row: AuthRow \cup {None},
           seen: AuthRow \cup {None}, flow: {"first", "resign"},
           err: {"none", "plain", "stale", "expired", "cap", "store"}]]
  BY DEF TypeInv, TickType, Held, Errors
<1> QED BY <1>1, <1>2, <1>3 DEF TypeInv, JobType, SendType, WorldType, TypeOK

-----------------------------------------------------------------------------
(* What a tick may hold *)

LEMMA NoTickSound == Sound(NoTick)
BY DEF Sound, NoTick, Held, Pcs, JobPcs, RowPcs, Errors

\* Moving on with a job keeps what the tick holds sound.
LEMMA GotoSound ==
    ASSUME NEW k, Sound(k), k.pc \in JobPcs, NEW to \in JobPcs,
           to \in RowPcs \cup {"reload"} => k.row \in AuthRow
    PROVE  Sound([k EXCEPT !.pc = to])
BY DEF Sound, Held, JobPcs, RowPcs

LEMMA RaiseSound ==
    ASSUME NEW k, Sound(k), k.pc \in JobPcs, NEW err \in Errors
    PROVE  Sound([k EXCEPT !.pc = "caught", !.err = err])
BY DEF Sound, Held, JobPcs, RowPcs, Pcs

\* A step of one tick that holds a sound record keeps the types of all.
LEMMA HoldType ==
    ASSUME TickType, NEW c \in Controller, NEW k, Sound(k), Hold(c, k),
           UNCHANGED tree, k.pc # "prepare" \/ tree \in Tree
    PROVE  TickType'
<1>1. k \in Held
  BY DEF Sound
<1>2. ctl' = [ctl EXCEPT ![c] = k] /\ ctl' \in [Controller -> Held]
  BY <1>1 DEF Hold, TickType
<1>3. ASSUME NEW d \in Controller PROVE Sound(ctl'[d]) /\ (ctl'[d].pc = "prepare" => tree' \in Tree)
  BY <1>2 DEF TickType
<1> QED BY <1>2, <1>3 DEF TickType, Sound

LEMMA GotoType ==
    ASSUME TickType, NEW c \in Controller, ctl[c].pc \in JobPcs, NEW to \in JobPcs,
           to \in RowPcs \cup {"reload"} => ctl[c].row \in AuthRow,
           Goto(c, to), UNCHANGED tree
    PROVE  TickType'
<1>1. Sound([ctl[c] EXCEPT !.pc = to])
  BY GotoSound DEF TickType
<1>2. [ctl[c] EXCEPT !.pc = to].pc = to
  BY DEF TickType, Sound, Held
<1> QED BY <1>1, <1>2, HoldType DEF Goto, JobPcs

LEMMA RaiseType ==
    ASSUME TickType, NEW c \in Controller, ctl[c].pc \in JobPcs, NEW err \in Errors,
           Raise(c, err), UNCHANGED tree
    PROVE  TickType'
<1>1. Sound([ctl[c] EXCEPT !.pc = "caught", !.err = err])
  BY RaiseSound DEF TickType
<1>2. [ctl[c] EXCEPT !.pc = "caught", !.err = err].pc = "caught"
  BY DEF TickType, Sound, Held
<1> QED BY <1>1, <1>2, HoldType DEF Raise

LEMMA EndType ==
    ASSUME TickType, NEW c \in Controller, EndTick(c), UNCHANGED tree
    PROVE  TickType'
BY NoTickSound, HoldType DEF EndTick, NoTick

LEMMA AbandonType ==
    ASSUME TickType, NEW c \in Controller, ctl[c].pc \in JobPcs, Abandon(c), UNCHANGED tree
    PROVE  TickType'
BY EndType, RaiseType DEF Abandon, Errors

-----------------------------------------------------------------------------
(* What is written into the tables *)

LEMMA SaveType ==
    ASSUME AuthType, NEW t \in Tree, NEW seen \in AuthRow \cup {None}, NEW new \in AuthRow,
           SaveAuthorized(t, seen, new)
    PROVE  AuthType'
<1>1. \A row \in AuthRow \cup {None} : Updated(row, new) \in AuthRow \cup {None}
  BY DEF Updated, AuthRow
<1>2. SaveVerdict(seen, new) = "insert" => auth' = [auth EXCEPT ![t] = new]
  BY DEF SaveAuthorized
<1>3. SaveVerdict(seen, new) = "update" => auth' = [auth EXCEPT ![t] = Updated(auth[t], new)]
  BY DEF SaveAuthorized, AuthType
<1>4. SaveVerdict(seen, new) \notin {"insert", "update"} => auth' = auth
  BY DEF SaveAuthorized
<1>5. auth' \in [Tree -> AuthRow \cup {None}]
  BY <1>1, <1>2, <1>3, <1>4 DEF AuthType
<1> QED BY <1>5 DEF SaveAuthorized, AuthType

LEMMA SavedType ==
    ASSUME AuthType, NEW t \in Tree, NEW seen \in AuthRow \cup {None}, NEW new \in AuthRow,
           SaveVerdict(seen, new) # "refuse"
    PROVE  Saved(t, seen, new) \in AuthRow
<1>1. \A row \in AuthRow \cup {None} : Updated(row, new) \in AuthRow \cup {None}
  BY DEF Updated, AuthRow
<1>2. seen = None => SaveVerdict(seen, new) = "insert"
  BY DEF SaveVerdict
<1>3. new # None
  BY NoneAssumption
<1> QED BY <1>1, <1>2, <1>3 DEF Saved, AuthType

LEMMA SetJobType ==
    ASSUME JobType, NEW t \in Tree, NEW want \in JobStatus, NEW when \in Time,
           JobMay(t, want), SetJob(t, want, when)
    PROVE  JobType'
<1>1. [jobs[t] EXCEPT !.status = want, !.updated = when] \in Job
  BY DEF JobType, JobMay, Job
<1>2. jobs' = [jobs EXCEPT ![t] = [jobs[t] EXCEPT !.status = want, !.updated = when]]
  BY DEF SetJob, JobType
<1> QED BY <1>1, <1>2 DEF JobType

LEMMA SetSendType ==
    ASSUME JobType, SendType, NEW t \in Tree, NEW want \in SendState, NEW when \in Time,
           SendMay(t, want), SetSend(t, want, when), UNCHANGED spent
    PROVE  JobType' /\ SendType'
<1> DEFINE s == [sends EXCEPT ![t].status = want]
           j == IF jobs[t] = None THEN jobs
                ELSE [jobs EXCEPT ![t].status = want, ![t].updated = when]
<1>1. [sends[t] EXCEPT !.status = want] \in Send
  BY DEF SendType, SendMay, Send
<1>2. s \in [Tree -> Send \cup {None}]
  BY <1>1 DEF SendType
<1>3. jobs[t] # None => [jobs[t] EXCEPT !.status = want, !.updated = when] \in Job
  BY DEF JobType, Job, JobStatus
<1>4. j \in [Tree -> Job \cup {None}]
  BY <1>3 DEF JobType
<1>5. sends' = [u \in Tree |-> IF want = "CONFIRMED" /\ s[u] # None /\ Old(s[u], s[u].at, when)
                               THEN None ELSE s[u]]
  BY DEF SetSend
<1>6. jobs' = [u \in Tree |-> IF want = "CONFIRMED" /\ j[u] # None /\ Old(j[u], j[u].updated, when)
                              THEN None ELSE j[u]]
  BY DEF SetSend
<1> HIDE DEF s, j
<1> QED BY <1>2, <1>4, <1>5, <1>6 DEF JobType, SendType

-----------------------------------------------------------------------------
(* One lemma per action *)

LEMMA TypeInit == Init => TypeInv
<1> SUFFICES ASSUME Init PROVE TypeInv
  OBVIOUS
<1>1. clock = 1 /\ 1 \in Time
  BY TimeAssumption DEF Init, StoreInit, Time
<1>2. Sound(NoTick) /\ NoTick \in Held /\ NoTick.pc = "idle"
  BY NoTickSound DEF Sound, NoTick
<1>3. TickType
  BY <1>2 DEF Init, TickType
<1> QED BY <1>1, <1>3 DEF Init, StoreInit, TypeInv, AuthType, ConfirmType, NetType, JobType,
                        SendType, WorldType, Pointer

LEMMA QuietType ==
    ASSUME TypeInv, Quiet, TickType'
    PROVE  TypeInv'
BY DEF TypeInv, Quiet, AuthType, ConfirmType, NetType, JobType, SendType, WorldType

LEMMA TickStartType == ASSUME TypeInv, NEW c \in Controller, TickStart(c) PROVE TypeInv'
<1> DEFINE k == [NoTick EXCEPT !.pc = "load", !.when = clock, !.conf = confirmed]
<1>1. Sound(k) /\ k.pc = "load"
  BY DEF TypeInv, WorldType, ConfirmType, Pointer, Sound, NoTick, Held, Pcs, JobPcs, RowPcs, Errors
<1>2. TickType'
  <2>1. Hold(c, k) /\ TickType /\ UNCHANGED tree
    BY DEF TickStart, TypeInv, Quiet
  <2> HIDE DEF k
  <2> QED BY <1>1, <2>1, HoldType
<1> QED BY <1>2, QuietType DEF TickStart

LEMMA ProceedSound ==
    ASSUME NEW k, Sound(k), k.pc \in JobPcs \cup {"load"}, k.size \in Tree, k.req \in Request,
           NEW row \in AuthRow \cup {None}
    PROVE  Sound(Proceed(k, row)) /\ Proceed(k, row).pc # "prepare"
<1>1. Sound([k EXCEPT !.pc = "halt"]) /\ [k EXCEPT !.pc = "halt"].pc = "halt"
  BY DEF Sound, Held, JobPcs, RowPcs, Pcs
<1>2. ASSUME row # None, NEW to \in {"poll", "send"}
      PROVE  /\ Sound([k EXCEPT !.pc = to, !.row = row])
             /\ [k EXCEPT !.pc = to, !.row = row].pc = to
  BY <1>2 DEF Sound, Held, JobPcs, RowPcs, Pcs
<1>3. Sound(NoTick) /\ NoTick.pc = "idle"
  BY NoTickSound DEF NoTick
<1> QED BY <1>1, <1>2, <1>3 DEF Proceed

LEMMA TickLoadType == ASSUME TypeInv, NEW c \in Controller, TickLoad(c) PROVE TypeInv'
<1> DEFINE k == ctl[c]
<1>1. PICK j \in Tree \cup {0} :
          LET held == [k EXCEPT !.size = j, !.req = jobs[j].req, !.resigns = jobs[j].resigns]
          IN  /\ IsLastJob(j)
              /\ \/ Unreconciled(k, j) /\ Hold(c, [k EXCEPT !.pc = "reconcile", !.size = j])
                 \/ ~Open(k, j) /\ ~Unreconciled(k, j) /\ Goto(c, "survey")
                 \/ Open(k, j) /\ jobs[j].status = "HALTED" /\ EndTick(c)
                 \/ /\ Open(k, j) /\ jobs[j].status = "PENDING"
                    /\ Hold(c, [held EXCEPT !.pc = IF k.when > held.req.at + SnapshotMaxAge
                                                   THEN "halt" ELSE "attempt"])
                 \/ /\ Open(k, j) /\ jobs[j].status \in SendState
                    /\ Hold(c, Proceed(held, auth[j]))
  BY DEF TickLoad
<1> DEFINE held == [k EXCEPT !.size = j, !.req = jobs[j].req, !.resigns = jobs[j].resigns]
<1>2. Quiet /\ UNCHANGED tree /\ k.pc = "load" /\ TickType /\ Sound(k)
  BY DEF TickLoad, Quiet, At, TypeInv, TickType
<1>3. CASE Unreconciled(k, j) /\ Hold(c, [k EXCEPT !.pc = "reconcile", !.size = j])
  <2>1. j \in Tree
    BY <1>3 DEF Unreconciled
  <2>2. Sound([k EXCEPT !.pc = "reconcile", !.size = j])
    BY <1>2, <2>1, TreeSize DEF Sound, Held, JobPcs, RowPcs, Pcs
  <2>3. [k EXCEPT !.pc = "reconcile", !.size = j].pc = "reconcile"
    BY <1>2 DEF Sound, Held
  <2> QED BY <1>2, <1>3, <2>2, <2>3, HoldType, QuietType
<1>4. CASE Goto(c, "survey")
  <2>1. Sound([k EXCEPT !.pc = "survey"]) /\ [k EXCEPT !.pc = "survey"].pc = "survey"
    BY <1>2 DEF Sound, Held, JobPcs, RowPcs, Pcs
  <2> QED BY <1>2, <1>4, <2>1, HoldType, QuietType DEF Goto
<1>5. CASE EndTick(c)
  BY <1>2, <1>5, EndType, QuietType
<1>7. ASSUME Open(k, j), IsLastJob(j)
      PROVE  j \in Tree /\ jobs[j] \in Job /\ Sound(held) /\ held.pc = "load" /\ held.size = j
               /\ held.req \in Request
  <2>1. j # 0
    BY <1>2, <1>7 DEF Open, Sound, Pointer
  <2>2. j \in Tree /\ jobs[j] \in Job
    BY <1>7, <2>1 DEF IsLastJob, Exists, TypeInv, JobType
  <2>3. j \in Nat /\ jobs[j].req \in Request /\ jobs[j].resigns \in Nat
    BY <2>2, TreeSize DEF Job
  <2> QED BY <1>2, <2>2, <2>3 DEF Sound, Held, JobPcs, RowPcs
<1>8. CASE /\ Open(k, j) /\ jobs[j].status = "PENDING"
           /\ Hold(c, [held EXCEPT !.pc = IF k.when > held.req.at + SnapshotMaxAge
                                          THEN "halt" ELSE "attempt"])
  <2> DEFINE to == IF k.when > held.req.at + SnapshotMaxAge THEN "halt" ELSE "attempt"
  <2>1. to \in {"halt", "attempt"}
    OBVIOUS
  <2>2. Sound(held) /\ held.size \in Tree /\ held.req \in Request /\ held.pc = "load"
    BY <1>1, <1>7, <1>8
  <2>3. Hold(c, [held EXCEPT !.pc = to])
    BY <1>8
  <2> HIDE DEF to, held
  <2>4. Sound([held EXCEPT !.pc = to]) /\ [held EXCEPT !.pc = to].pc = to
    BY <2>1, <2>2 DEF Sound, Held, JobPcs, RowPcs, Pcs
  <2> QED BY <1>2, <2>1, <2>3, <2>4, HoldType, QuietType
<1>9. CASE Open(k, j) /\ jobs[j].status \in SendState /\ Hold(c, Proceed(held, auth[j]))
  <2>1. Sound(held) /\ held.size \in Tree /\ held.req \in Request /\ held.pc = "load" /\ j \in Tree
    BY <1>1, <1>7, <1>9
  <2>2. auth[j] \in AuthRow \cup {None}
    BY <2>1 DEF TypeInv, AuthType
  <2> HIDE DEF held
  <2>3. Sound(Proceed(held, auth[j])) /\ Proceed(held, auth[j]).pc # "prepare"
    BY <2>1, <2>2, ProceedSound
  <2> QED BY <1>2, <1>9, <2>3, HoldType, QuietType
<1> QED BY <1>1, <1>3, <1>4, <1>5, <1>8, <1>9

LEMMA TickReconcileType == ASSUME TypeInv, NEW c \in Controller, TickReconcile(c) PROVE TypeInv'
<1> DEFINE k == ctl[c]
<1>1. k.pc = "reconcile" /\ Sound(k) /\ k.size \in Tree /\ k.when \in Time /\ TickType
  BY DEF TickReconcile, At, TypeInv, TickType, Sound
<1>2. TickType'
  <2>1. Sound([k EXCEPT !.pc = "survey"]) /\ [k EXCEPT !.pc = "survey"].pc = "survey"
    BY <1>1 DEF Sound, Held, JobPcs, RowPcs, Pcs
  <2>2. Goto(c, "survey") /\ UNCHANGED tree
    BY DEF TickReconcile
  <2> QED BY <1>1, <2>1, <2>2, HoldType DEF Goto
<1>3. JobType' /\ SendType'
  <2>1. JobType /\ SendType /\ UNCHANGED spent
    BY DEF TypeInv, TickReconcile
  <2>2. CASE SendMay(k.size, "CONFIRMED")
    <3>1. SetSend(k.size, "CONFIRMED", k.when)
      BY <2>2 DEF TickReconcile
    <3> QED BY <1>1, <2>1, <2>2, <3>1, SetSendType DEF SendState
  <2>3. CASE ~SendMay(k.size, "CONFIRMED")
    BY <2>1, <2>3 DEF TickReconcile, JobType, SendType
  <2> QED BY <2>2, <2>3
<1> QED BY <1>2, <1>3 DEF TickReconcile, TypeInv, AuthType, ConfirmType, NetType, WorldType

LEMMA SurveyType == ASSUME TypeInv, NEW c \in Controller, Survey(c) PROVE TypeInv'
<1>1. Quiet /\ UNCHANGED tree /\ TickType /\ Sound(ctl[c]) /\ ctl[c].pc = "survey"
  BY DEF Survey, Quiet, At, TypeInv, TickType
<1>2. CASE EndTick(c)
  BY <1>1, <1>2, EndType, QuietType
<1>3. CASE tree > ctl[c].conf.size /\ Goto(c, "prepare")
  <2>1. tree \in Tree
    <3>1. ctl[c].conf.size \in Nat \ {0}
      BY <1>1 DEF Sound, Pointer
    <3> QED BY <1>3, <3>1 DEF TypeInv, WorldType
  <2>2. Sound([ctl[c] EXCEPT !.pc = "prepare"])
    BY <1>1 DEF Sound, Held, JobPcs, RowPcs, Pcs
  <2> QED BY <1>1, <1>3, <2>1, <2>2, HoldType, QuietType DEF Goto
<1> QED BY <1>2, <1>3 DEF Survey

LEMMA PrepareType == ASSUME TypeInv, NEW c \in Controller, Prepare(c) PROVE TypeInv'
<1> DEFINE k == ctl[c]
           r(fee) == [serial |-> 0, at |-> k.when, fee |-> fee]
<1>1. k.pc = "prepare" /\ Sound(k) /\ tree \in Tree /\ k.when \in Time /\ TickType /\ UNCHANGED tree
  BY DEF Prepare, At, TypeInv, TickType, Sound
<1>2. ASSUME NEW fee \in Fee,
             jobs' = [jobs EXCEPT ![tree] = [status |-> "PENDING", req |-> r(fee), resigns |-> 0,
                                             signs |-> 0, updated |-> k.when]],
             Hold(c, [k EXCEPT !.pc = "attempt", !.size = tree, !.req = r(fee)])
      PROVE  JobType' /\ TickType'
  <2>1. r(fee) \in Request
    BY <1>1, SerialAssumption DEF Request
  <2> DEFINE h == [k EXCEPT !.pc = "attempt", !.size = tree, !.req = r(fee)]
  <2> HIDE DEF r
  <2>2. Sound(h) /\ h.pc = "attempt"
    BY <1>1, <2>1, TreeSize DEF Sound, Held, JobPcs, RowPcs, Pcs
  <2>3. JobType'
    BY <1>1, <1>2, <2>1 DEF TypeInv, JobType, Job, JobStatus
  <2>4. Hold(c, h)
    BY <1>2
  <2> HIDE DEF h
  <2> QED BY <1>1, <2>2, <2>3, <2>4, HoldType
<1>3. JobType' /\ TickType'
  <2>1. CASE UNCHANGED jobs /\ EndTick(c)
    BY <1>1, <2>1, EndType DEF TypeInv, JobType
  <2> QED BY <1>2, <2>1 DEF Prepare
<1> QED BY <1>3 DEF Prepare, TypeInv, AuthType, ConfirmType, NetType, SendType, WorldType

LEMMA RecordAttemptType == ASSUME TypeInv, NEW c \in Controller, RecordAttempt(c) PROVE TypeInv'
<1> DEFINE k == ctl[c]
           j == jobs[k.size]
<1>1. /\ k.pc = "attempt" /\ Sound(k) /\ k.size \in Tree /\ k.when \in Time
      /\ TickType /\ UNCHANGED tree
  BY DEF RecordAttempt, At, TypeInv, TickType, Sound, JobPcs, Pcs
<1>2. CASE /\ MaySign(j)
           /\ jobs' = [jobs EXCEPT ![k.size].signs = @ + 1, ![k.size].updated = k.when]
           /\ Hold(c, [k EXCEPT !.pc = "authorize", !.req = j.req])
  <2>1. j \in Job /\ j.signs + 1 \in 0..2
    BY <1>1, <1>2 DEF MaySign, TypeInv, JobType, Job
  <2>2. [j EXCEPT !.signs = j.signs + 1, !.updated = k.when] \in Job
    BY <1>1, <2>1 DEF Job
  <2>3. jobs' = [jobs EXCEPT ![k.size] = [j EXCEPT !.signs = j.signs + 1, !.updated = k.when]]
    BY <1>1, <1>2 DEF TypeInv, JobType
  <2>4. JobType'
    BY <2>2, <2>3 DEF TypeInv, JobType
  <2>5. /\ Sound([k EXCEPT !.pc = "authorize", !.req = j.req])
        /\ [k EXCEPT !.pc = "authorize", !.req = j.req].pc = "authorize"
    BY <1>1, <2>1 DEF Sound, Held, JobPcs, RowPcs, Pcs, Job
  <2>6. TickType'
    BY <1>1, <1>2, <2>5, HoldType
  <2> QED BY <2>4, <2>6 DEF RecordAttempt, TypeInv, AuthType, ConfirmType, NetType, SendType, WorldType
<1>3. CASE Goto(c, "signfail") /\ UNCHANGED jobs
  <2>1. TickType'
    BY <1>1, <1>3, GotoType DEF JobPcs, RowPcs, Pcs
  <2> QED BY <1>3, <2>1 DEF RecordAttempt, TypeInv, AuthType, ConfirmType, NetType, JobType, SendType,
                            WorldType
<1> QED BY <1>2, <1>3 DEF RecordAttempt

LEMMA AuthorizeType == ASSUME TypeInv, NEW c \in Controller, Authorize(c) PROVE TypeInv'
<1> DEFINE k == ctl[c]
           row == auth[k.size]
<1>1. k.pc = "authorize" /\ Sound(k) /\ k.size \in Tree /\ TickType /\ UNCHANGED tree /\ Quiet
  BY DEF Authorize, Quiet, At, TypeInv, TickType, Sound, JobPcs, Pcs
<1>2. row \in AuthRow \cup {None}
  BY <1>1 DEF TypeInv, AuthType
<1>3. CASE Goto(c, "dial") \/ Goto(c, "signfail")
  BY <1>1, <1>3, GotoType, QuietType DEF JobPcs, RowPcs, Pcs
<1>4. CASE row # None /\ Hold(c, [k EXCEPT !.pc = "authorized", !.row = row])
  <2>1. Sound([k EXCEPT !.pc = "authorized", !.row = row])
    BY <1>1, <1>2, <1>4 DEF Sound, Held, JobPcs, RowPcs, Pcs
  <2>2. [k EXCEPT !.pc = "authorized", !.row = row].pc = "authorized"
    BY <1>1 DEF Sound, Held
  <2> QED BY <1>1, <1>4, <2>1, <2>2, HoldType, QuietType
<1> QED BY <1>3, <1>4 DEF Authorize

LEMMA DialType == ASSUME TypeInv, NEW c \in Controller, Dial(c) PROVE TypeInv'
<1> DEFINE k == ctl[c]
<1>1. k.pc = "dial" /\ Sound(k) /\ k.size \in Tree /\ k.req \in Request /\ TickType /\ UNCHANGED tree
  BY DEF Dial, At, TypeInv, TickType, Sound, JobPcs, Pcs
<1>2. dials' \in [Tree \X Request -> Nat]
  BY <1>1 DEF Dial, TypeInv, WorldType
<1>3. TickType'
  <2>1. CASE Goto(c, "signfail")
    BY <1>1, <2>1, GotoType DEF JobPcs, RowPcs, Pcs
  <2>2. CASE Hold(c, [k EXCEPT !.pc = "persist", !.seen = auth[k.size]])
    <3>1. auth[k.size] \in AuthRow \cup {None}
      BY <1>1 DEF TypeInv, AuthType
    <3>2. /\ Sound([k EXCEPT !.pc = "persist", !.seen = auth[k.size]])
          /\ [k EXCEPT !.pc = "persist", !.seen = auth[k.size]].pc = "persist"
      BY <1>1, <3>1 DEF Sound, Held, JobPcs, RowPcs, Pcs
    <3> QED BY <1>1, <2>2, <3>2, HoldType
  <2> QED BY <2>1, <2>2 DEF Dial
<1> QED BY <1>2, <1>3 DEF Dial, TypeInv, AuthType, ConfirmType, NetType, JobType, SendType, WorldType

\* A save that is not refused moves the tick on with a row; a refused one does not.
LEMMA PersistType == ASSUME TypeInv, NEW c \in Controller, Persist(c) PROVE TypeInv'
<1> DEFINE k == ctl[c]
           new == [signed |-> k.req, state |-> "AUTHORIZED", expected |-> None, attempted |-> 0]
<1>1. /\ k.pc = "persist" /\ Sound(k) /\ k.size \in Tree /\ k.req \in Request
      /\ k.seen \in AuthRow \cup {None} /\ TickType /\ UNCHANGED tree
  BY DEF Persist, At, TypeInv, TickType, Sound, Held, JobPcs, Pcs
<1>2. new \in AuthRow
  BY <1>1 DEF AuthRow, SendState
<1>3. AuthType'
  <2>1. AuthType /\ SaveAuthorized(k.size, k.seen, new)
    BY DEF Persist, TypeInv
  <2> HIDE DEF new
  <2> QED BY <1>1, <1>2, <2>1, SaveType
<1>4. TickType'
  <2>1. CASE Goto(c, "signfail")
    BY <1>1, <2>1, GotoType DEF JobPcs, RowPcs, Pcs
  <2>2. CASE /\ SaveVerdict(k.seen, new) # "refuse"
             /\ Hold(c, [k EXCEPT !.pc = "authorized", !.seen = None,
                                  !.row = Saved(k.size, k.seen, new)])
    <3> DEFINE row == Saved(k.size, k.seen, new)
    <3>1. row \in AuthRow
      <4> HIDE DEF new
      <4> QED BY <1>1, <1>2, <2>2, SavedType DEF TypeInv
    <3> HIDE DEF row
    <3>2. /\ Sound([k EXCEPT !.pc = "authorized", !.seen = None, !.row = row])
          /\ [k EXCEPT !.pc = "authorized", !.seen = None, !.row = row].pc = "authorized"
      BY <1>1, <3>1 DEF Sound, Held, JobPcs, RowPcs, Pcs
    <3>3. Hold(c, [k EXCEPT !.pc = "authorized", !.seen = None, !.row = row])
      BY <2>2 DEF row
    <3> QED BY <1>1, <3>2, <3>3, HoldType
  <2> QED BY <2>1, <2>2 DEF Persist
<1> QED BY <1>3, <1>4 DEF Persist, TypeInv, ConfirmType, NetType, JobType, SendType, WorldType

LEMMA AuthorizedType == ASSUME TypeInv, NEW c \in Controller, Authorized(c) PROVE TypeInv'
<1> DEFINE k == ctl[c]
           may == k.row.signed = k.req /\ JobMay(k.size, "AUTHORIZED")
<1>1. /\ k.pc = "authorized" /\ Sound(k) /\ k.size \in Tree /\ k.row \in AuthRow /\ k.when \in Time
      /\ TickType /\ UNCHANGED tree
  BY DEF Authorized, At, TypeInv, TickType, Sound, JobPcs, RowPcs, Pcs
<1>2. JobType'
  <2>1. CASE may
    <3>1. JobMay(k.size, "AUTHORIZED") /\ SetJob(k.size, "AUTHORIZED", k.when)
      BY <2>1 DEF Authorized
    <3> QED BY <1>1, <3>1, SetJobType DEF TypeInv, JobStatus, SendState
  <2>2. CASE ~may
    BY <2>2 DEF Authorized, TypeInv, JobType
  <2> QED BY <2>1, <2>2
<1>3. TickType'
  <2>1. PICK to \in {"signfail", "reload", "send", "poll"} : Goto(c, to)
    BY DEF Authorized
  <2> QED BY <1>1, <2>1, GotoType DEF JobPcs, RowPcs, Pcs
<1> QED BY <1>2, <1>3 DEF Authorized, TypeInv, AuthType, ConfirmType, NetType, SendType, WorldType

LEMMA ReloadType == ASSUME TypeInv, NEW c \in Controller, Reload(c) PROVE TypeInv'
<1> DEFINE k == ctl[c]
           j == jobs[k.size]
           held == IF j = None THEN k ELSE [k EXCEPT !.req = j.req, !.resigns = j.resigns]
<1>1. /\ k.pc = "reload" /\ Sound(k) /\ k.size \in Tree /\ k.req \in Request /\ k.row \in AuthRow
      /\ TickType /\ UNCHANGED tree /\ Quiet
  BY DEF Reload, Quiet, At, TypeInv, TickType, Sound, JobPcs, RowPcs, Pcs
<1>2. Sound(held) /\ held.pc = "reload" /\ held.size \in Tree /\ held.req \in Request
  <2>1. j \in Job \cup {None}
    BY <1>1 DEF TypeInv, JobType
  <2>2. j # None => j.req \in Request /\ j.resigns \in Nat
    BY <2>1 DEF Job
  <2> HIDE DEF j
  <2>3. j # None => /\ Sound([k EXCEPT !.req = j.req, !.resigns = j.resigns])
                    /\ [k EXCEPT !.req = j.req, !.resigns = j.resigns].pc = "reload"
                    /\ [k EXCEPT !.req = j.req, !.resigns = j.resigns].size \in Tree
                    /\ [k EXCEPT !.req = j.req, !.resigns = j.resigns].req \in Request
    BY <1>1, <2>2 DEF Sound, Held, JobPcs, RowPcs, Pcs
  <2> QED BY <1>1, <2>3
<1>3. Hold(c, Proceed(held, k.row))
  BY DEF Reload
<1> HIDE DEF held
<1>4. Sound(Proceed(held, k.row)) /\ Proceed(held, k.row).pc # "prepare"
  BY <1>1, <1>2, ProceedSound DEF JobPcs, Pcs
<1> QED BY <1>1, <1>3, <1>4, HoldType, QuietType

LEMMA SignFailedType == ASSUME TypeInv, NEW c \in Controller, SignFailed(c) PROVE TypeInv'
<1>1. ctl[c].pc \in JobPcs /\ TickType /\ Quiet /\ UNCHANGED tree
  BY DEF SignFailed, Quiet, At, TypeInv, JobPcs, Pcs
<1>2. Raise(c, "plain") \/ Goto(c, "halt") \/ EndTick(c)
  BY DEF SignFailed
<1> QED BY <1>1, <1>2, EndType, GotoType, RaiseType, QuietType DEF JobPcs, RowPcs, Pcs, Errors

LEMMA SendGateType == ASSUME TypeInv, NEW c \in Controller, SendGate(c) PROVE TypeInv'
<1>1. ctl[c].pc \in JobPcs /\ TickType /\ Quiet /\ UNCHANGED tree /\ ctl[c].row \in AuthRow
  BY DEF SendGate, Quiet, At, TypeInv, TickType, Sound, JobPcs, RowPcs, Pcs
<1>2. Raise(c, "plain") \/ Raise(c, "stale") \/ Goto(c, "reserve") \/ Abandon(c)
  BY DEF SendGate
<1> QED BY <1>1, <1>2, AbandonType, GotoType, RaiseType, QuietType DEF JobPcs, RowPcs, Pcs, Errors

LEMMA ReserveType == ASSUME TypeInv, NEW c \in Controller, Reserve(c) PROVE TypeInv'
<1> DEFINE k == ctl[c]
           t == k.size
           fee == k.row.signed.fee
           row == Latch(auth[t], k.row.signed, k.when)
<1>1. /\ k.pc = "reserve" /\ Sound(k) /\ t \in Tree /\ k.row \in AuthRow /\ k.when \in Time
      /\ k.row.signed \in Request /\ fee \in Fee
      /\ TickType /\ UNCHANGED tree
  BY DEF Reserve, At, TypeInv, TickType, Sound, JobPcs, RowPcs, Pcs, AuthRow, Request
<1>2. CASE /\ Reservable(t)
           /\ sends' = [sends EXCEPT ![t] = [txid |-> k.row.signed, fee |-> fee,
                                             at |-> k.when, status |-> "SEND_ATTEMPTED"]]
           /\ spent' = spent \cup {[tree |-> t, at |-> k.when, fee |-> fee]}
           /\ auth' = [auth EXCEPT ![t] = row]
           /\ SetJob(t, "SEND_ATTEMPTED", k.when)
           /\ IF row.signed = k.row.signed THEN Hold(c, [k EXCEPT !.pc = "post", !.row = row])
              ELSE Raise(c, "plain")
  <2>1. auth[t] \in AuthRow /\ jobs[t] \in Job
    BY <1>1, <1>2 DEF Reservable, TypeInv, AuthType, JobType
  <2>2. row \in AuthRow
    <3>1. k.when \in Nat
      BY <1>1, TimeAssumption DEF Time
    <3> QED BY <1>1, <2>1, <3>1 DEF Latch, AuthRow, SendState
  <2>3. AuthType'
    <3>1. UNCHANGED lastAuth
      BY DEF Reserve
    <3> HIDE DEF row
    <3> QED BY <1>1, <1>2, <2>2, <3>1 DEF TypeInv, AuthType
  <2>4. SendType'
    BY <1>1, <1>2 DEF TypeInv, SendType, Send, SendState
  <2>5. JobType'
    <3>1. JobMay(t, "SEND_ATTEMPTED")
      BY <1>2 DEF Reservable, JobMay, JobRank, JobStatus, Rank, SendState
    <3> QED BY <1>1, <1>2, <3>1, SetJobType DEF TypeInv, JobStatus, SendState
  <2>6. TickType'
    <3>1. CASE Hold(c, [k EXCEPT !.pc = "post", !.row = row])
      <4> HIDE DEF row
      <4>1. /\ Sound([k EXCEPT !.pc = "post", !.row = row])
            /\ [k EXCEPT !.pc = "post", !.row = row].pc = "post"
        BY <1>1, <2>2 DEF Sound, Held, JobPcs, RowPcs, Pcs
      <4> QED BY <1>1, <3>1, <4>1, HoldType
    <3>2. CASE Raise(c, "plain")
      BY <1>1, <3>2, RaiseType DEF JobPcs, Pcs, Errors
    <3> QED BY <1>2, <3>1, <3>2
  <2> QED BY <2>3, <2>4, <2>5, <2>6 DEF Reserve, TypeInv, ConfirmType, NetType, WorldType
<1>3. CASE /\ Raise(c, IF Reservable(t) THEN "cap" ELSE "store")
           /\ UNCHANGED <<records, auth>>
  <2>1. TickType'
    BY <1>1, <1>3, RaiseType DEF JobPcs, Pcs, Errors
  <2> QED BY <1>3, <2>1 DEF Reserve, TypeInv, AuthType, ConfirmType, NetType, JobType, SendType,
                            WorldType
<1> QED BY <1>2, <1>3 DEF Reserve

LEMMA PostOnceType == ASSUME TypeInv, NEW c \in Controller, PostOnce(c) PROVE TypeInv'
<1> DEFINE k == ctl[c]
<1>1. /\ k.pc = "post" /\ Sound(k) /\ k.size \in Tree /\ k.row \in AuthRow
      /\ k.row.signed \in Request /\ TickType /\ UNCHANGED tree
  BY DEF PostOnce, At, TypeInv, TickType, Sound, JobPcs, RowPcs, Pcs, AuthRow
<1>2. NetType'
  BY <1>1 DEF PostOnce, Post, TypeInv, NetType
<1>3. TickType'
  <2>1. CASE Raise(c, "plain")
    BY <1>1, <2>1, RaiseType DEF JobPcs, Pcs, Errors
  <2>2. CASE Hold(c, [k EXCEPT !.pc = "marksub", !.seen = auth[k.size]])
    <3>1. auth[k.size] \in AuthRow \cup {None}
      BY <1>1 DEF TypeInv, AuthType
    <3>2. /\ Sound([k EXCEPT !.pc = "marksub", !.seen = auth[k.size]])
          /\ [k EXCEPT !.pc = "marksub", !.seen = auth[k.size]].pc = "marksub"
      BY <1>1, <3>1 DEF Sound, Held, JobPcs, RowPcs, Pcs
    <3> QED BY <1>1, <2>2, <3>2, HoldType
  <2> QED BY <1>1, <2>1, <2>2 DEF PostOnce
<1> QED BY <1>2, <1>3 DEF PostOnce, TypeInv, AuthType, ConfirmType, JobType, SendType, WorldType

LEMMA MarkType ==
    ASSUME TypeInv, NEW c \in Controller, NEW at \in RowPcs, NEW state \in SendState,
           NEW next \in RowPcs, Mark(c, at, state, next)
    PROVE  TypeInv'
<1> DEFINE k == ctl[c]
           new == [k.row EXCEPT !.state = state]
           row == IF state = "SUBMITTED" THEN Saved(k.size, k.seen, new) ELSE k.row
<1>1. /\ k.pc = at /\ at \in JobPcs /\ next \in JobPcs /\ Sound(k) /\ k.size \in Tree
      /\ k.row \in AuthRow /\ k.seen \in AuthRow \cup {None} /\ TickType /\ UNCHANGED tree
  BY DEF Mark, At, TypeInv, TickType, Sound, Held, JobPcs, RowPcs, Pcs
<1>2. new \in AuthRow
  BY <1>1 DEF AuthRow
<1>3. AuthType'
  <2>1. AuthType /\ SaveAuthorized(k.size, k.seen, new)
    BY DEF Mark, TypeInv
  <2> HIDE DEF new
  <2> QED BY <1>1, <1>2, <2>1, SaveType
<1>4. TickType'
  <2>1. CASE Raise(c, "store")
    BY <1>1, <2>1, RaiseType DEF Errors
  <2>2. CASE /\ SaveVerdict(k.seen, new) # "refuse"
             /\ Hold(c, [k EXCEPT !.pc = next, !.seen = None, !.row = row])
    <3>1. row \in AuthRow
      <4> HIDE DEF new
      <4> QED BY <1>1, <1>2, <2>2, SavedType DEF TypeInv
    <3>2. Hold(c, [k EXCEPT !.pc = next, !.seen = None, !.row = row])
      BY <2>2
    <3> HIDE DEF row
    <3>3. /\ Sound([k EXCEPT !.pc = next, !.seen = None, !.row = row])
          /\ [k EXCEPT !.pc = next, !.seen = None, !.row = row].pc = next
      BY <1>1, <3>1 DEF Sound, Held, JobPcs, RowPcs, Pcs
    <3> QED BY <1>1, <3>2, <3>3, HoldType DEF RowPcs
  <2>3. IF SaveVerdict(k.seen, new) = "refuse" THEN Raise(c, "store")
        ELSE Hold(c, [k EXCEPT !.pc = next, !.seen = None, !.row = row])
    BY <1>1 DEF Mark
  <2> QED BY <2>1, <2>2, <2>3
<1> QED BY <1>3, <1>4 DEF Mark, TypeInv, ConfirmType, NetType, JobType, SendType, WorldType

LEMMA SetSendStatusType ==
    ASSUME TypeInv, NEW c \in Controller, NEW at \in RowPcs, NEW want \in SendState,
           SetSendStatus(c, at, want)
    PROVE  TypeInv'
<1> DEFINE k == ctl[c]
<1>1. /\ k.pc = at /\ at \in JobPcs /\ Sound(k) /\ k.size \in Tree /\ k.when \in Time
      /\ k.row \in AuthRow /\ TickType /\ UNCHANGED tree
  BY DEF SetSendStatus, At, TypeInv, TickType, Sound, JobPcs, RowPcs, Pcs
<1>2. JobType' /\ SendType'
  <2>1. JobType /\ SendType /\ UNCHANGED spent
    BY DEF TypeInv, SetSendStatus
  <2>2. CASE SendMay(k.size, want)
    <3>1. SetSend(k.size, want, k.when)
      BY <2>2 DEF SetSendStatus
    <3> QED BY <1>1, <2>1, <2>2, <3>1, SetSendType
  <2>3. CASE ~SendMay(k.size, want)
    BY <2>1, <2>3 DEF SetSendStatus, JobType, SendType
  <2> QED BY <2>2, <2>3
<1>3. TickType'
  <2>1. Raise(c, "store") \/ Goto(c, "pollsent") \/ EndTick(c)
    BY DEF SetSendStatus
  <2> QED BY <1>1, <2>1, RaiseType, GotoType, EndType DEF JobPcs, RowPcs, Pcs, Errors
<1> QED BY <1>2, <1>3 DEF SetSendStatus, TypeInv, AuthType, ConfirmType, NetType, WorldType

LEMMA PollType ==
    ASSUME TypeInv, NEW c \in Controller,
           PollSettled(c) \/ PollFound(c) \/ PollMissing(c) \/ PollBad(c)
    PROVE  TypeInv'
<1> DEFINE k == ctl[c]
<1>1. /\ k.pc \in {"poll", "pollsent"} /\ Sound(k) /\ k.size \in Tree /\ k.row \in AuthRow
      /\ TickType /\ UNCHANGED tree
  BY DEF PollSettled, PollFound, PollMissing, PollBad, Polling, Quiet, At, TypeInv, TickType, Sound,
         JobPcs, RowPcs, Pcs
<1>2. CASE PollSettled(c)
  BY <1>1, <1>2, GotoType, QuietType DEF PollSettled, JobPcs, RowPcs, Pcs
<1>3. CASE PollFound(c)
  <2>1. auth[k.size] \in AuthRow \cup {None}
    BY <1>1 DEF TypeInv, AuthType
  <2>2. /\ Sound([k EXCEPT !.pc = "markconf", !.seen = auth[k.size]])
        /\ [k EXCEPT !.pc = "markconf", !.seen = auth[k.size]].pc = "markconf"
    BY <1>1, <2>1 DEF Sound, Held, JobPcs, RowPcs, Pcs
  <2> QED BY <1>1, <1>3, <2>2, HoldType, QuietType DEF PollFound
<1>4. CASE PollMissing(c)
  BY <1>1, <1>4, EndType, RaiseType, QuietType DEF PollMissing, JobPcs, Pcs, Errors
<1>5. CASE PollBad(c)
  <2>1. TickType'
    BY <1>1, <1>5, AbandonType DEF PollBad, JobPcs, Pcs
  <2> QED BY <1>5, <2>1 DEF PollBad, TypeInv, AuthType, ConfirmType, NetType, JobType, SendType,
                            WorldType
<1> QED BY <1>2, <1>3, <1>4, <1>5

LEMMA ReadPointerType == ASSUME TypeInv, NEW c \in Controller, ReadPointer(c) PROVE TypeInv'
<1>1. ctl[c].pc \in JobPcs /\ TickType /\ Quiet /\ UNCHANGED tree /\ ctl[c].row \in AuthRow
  BY DEF ReadPointer, Quiet, At, TypeInv, TickType, Sound, JobPcs, RowPcs, Pcs
<1>2. Goto(c, "setconf") \/ Goto(c, "advance") \/ Abandon(c)
  BY DEF ReadPointer
<1> QED BY <1>1, <1>2, AbandonType, GotoType, QuietType DEF JobPcs, RowPcs, Pcs

LEMMA AdvancePointerType == ASSUME TypeInv, NEW c \in Controller, AdvancePointer(c) PROVE TypeInv'
<1> DEFINE k == ctl[c]
<1>1. /\ k.pc \in JobPcs /\ TickType /\ UNCHANGED tree /\ k.row \in AuthRow /\ k.size \in Tree
      /\ k.row.expected \in Request \cup {None}
  BY DEF AdvancePointer, At, TypeInv, TickType, Sound, JobPcs, RowPcs, Pcs, AuthRow
<1>2. ConfirmType'
  BY <1>1, TreeSize DEF AdvancePointer, SaveConfirmed, TypeInv, ConfirmType, Pointer
<1>3. TickType'
  <2>1. Goto(c, "setconf") \/ Abandon(c)
    BY DEF AdvancePointer
  <2> QED BY <1>1, <2>1, AbandonType, GotoType DEF JobPcs, RowPcs, Pcs
<1> QED BY <1>2, <1>3 DEF AdvancePointer, TypeInv, AuthType, NetType, JobType, SendType, WorldType

LEMMA CaughtType == ASSUME TypeInv, NEW c \in Controller, Caught(c) PROVE TypeInv'
<1>1. ctl[c].pc \in JobPcs /\ TickType /\ Quiet /\ UNCHANGED tree
  BY DEF Caught, Quiet, At, TypeInv, JobPcs, Pcs
<1>2. Goto(c, "resign") \/ Goto(c, "halt") \/ EndTick(c)
  BY DEF Caught
<1> QED BY <1>1, <1>2, EndType, GotoType, QuietType DEF JobPcs, RowPcs, Pcs

LEMMA ResignType == ASSUME TypeInv, NEW c \in Controller, Resign(c) PROVE TypeInv'
<1> DEFINE k == ctl[c]
           t == k.size
           r(fee) == [serial |-> 1, at |-> k.when, fee |-> fee]
<1>1. /\ k.pc = "resign" /\ Sound(k) /\ t \in Tree /\ k.when \in Time /\ TickType /\ UNCHANGED tree
  BY DEF Resign, At, TypeInv, TickType, Sound, JobPcs, Pcs
<1>2. ASSUME NEW fee \in Fee, jobs[t] # None, jobs[t].resigns < 1,
             jobs' = [jobs EXCEPT ![t] = [status |-> "PENDING", req |-> r(fee),
                          resigns |-> jobs[t].resigns + 1, signs |-> 0, updated |-> k.when]],
             Hold(c, [k EXCEPT !.pc = "attempt", !.flow = "resign", !.req = r(fee),
                               !.resigns = 1, !.row = None]),
             auth' = [auth EXCEPT ![t] = None],
             lastAuth' = IF lastAuth = t THEN 0 ELSE lastAuth
      PROVE  JobType' /\ AuthType' /\ TickType'
  <2>1. r(fee) \in Request
    BY <1>1, SerialAssumption DEF Request
  <2>2. jobs[t] \in Job /\ jobs[t].resigns + 1 \in 0..1
    BY <1>1, <1>2 DEF TypeInv, JobType, Job
  <2> DEFINE q == r(fee)
             h == [k EXCEPT !.pc = "attempt", !.flow = "resign", !.req = q, !.resigns = 1, !.row = None]
  <2> HIDE DEF q
  <2>3. Sound(h) /\ h.pc = "attempt"
    BY <1>1, <2>1 DEF Sound, Held, JobPcs, RowPcs, Pcs, q
  <2>4. JobType'
    BY <1>1, <1>2, <2>1, <2>2 DEF TypeInv, JobType, Job, JobStatus
  <2>5. AuthType'
    BY <1>1, <1>2 DEF TypeInv, AuthType
  <2>6. Hold(c, h)
    BY <1>2 DEF q
  <2> HIDE DEF h
  <2> QED BY <1>1, <2>3, <2>4, <2>5, <2>6, HoldType
<1>3. ASSUME Hold(c, [k EXCEPT !.flow = "resign", !.pc = "caught", !.err = "plain"]),
             UNCHANGED <<jobs, auth, lastAuth>>
      PROVE  JobType' /\ AuthType' /\ TickType'
  <2> DEFINE h == [k EXCEPT !.flow = "resign", !.pc = "caught", !.err = "plain"]
  <2>1. Sound(h) /\ h.pc = "caught"
    BY <1>1 DEF Sound, Held, JobPcs, RowPcs, Pcs, Errors
  <2>2. Hold(c, h)
    BY <1>3
  <2> HIDE DEF h
  <2> QED BY <1>1, <1>3, <2>1, <2>2, HoldType DEF TypeInv, JobType, AuthType
<1>4. JobType' /\ AuthType' /\ TickType'
  <2>1. (t \in DOMAIN jobs) => \A f \in Fee :
          [jobs EXCEPT ![t] = [status |-> "PENDING", req |-> r(f),
                          resigns |-> @.resigns + 1, signs |-> 0, updated |-> k.when]]
          = [jobs EXCEPT ![t] = [status |-> "PENDING", req |-> r(f),
                          resigns |-> jobs[t].resigns + 1, signs |-> 0, updated |-> k.when]]
    OBVIOUS
  <2> QED BY <1>1, <1>2, <1>3, <2>1 DEF Resign, TypeInv, JobType
<1> QED BY <1>4 DEF Resign, TypeInv, ConfirmType, NetType, SendType, WorldType

LEMMA HaltType == ASSUME TypeInv, NEW c \in Controller, Halt(c) PROVE TypeInv'
<1> DEFINE k == ctl[c]
<1>1. k.size \in Tree /\ k.when \in Time /\ TickType /\ UNCHANGED tree /\ EndTick(c)
  BY DEF Halt, At, TypeInv, TickType, Sound, JobPcs, Pcs
<1>2. JobType'
  <2>1. CASE JobMay(k.size, "HALTED")
    BY <1>1, <2>1, SetJobType DEF Halt, TypeInv, JobStatus
  <2>2. CASE ~JobMay(k.size, "HALTED")
    BY <2>2 DEF Halt, TypeInv, JobType
  <2> QED BY <2>1, <2>2
<1>3. TickType'
  BY <1>1, EndType
<1> QED BY <1>2, <1>3 DEF Halt, TypeInv, AuthType, ConfirmType, NetType, SendType, WorldType

LEMMA DieType == ASSUME TypeInv, NEW c \in Controller, Die(c) PROVE TypeInv'
<1>1. TickType'
  BY EndType DEF Die, TypeInv
<1> QED BY <1>1 DEF Die, TypeInv, AuthType, ConfirmType, NetType, JobType, SendType, WorldType

LEMMA WorldStepType == ASSUME TypeInv, World PROVE TypeInv'
<1>1. CASE ClockTick /\ UNCHANGED <<tree, records, ctl, dials, bad, deaths>>
  <2>1. clock' \in Time
    BY <1>1, TimeAssumption DEF ClockTick, TypeInv, WorldType, Time
  <2> QED BY <1>1, <2>1 DEF ClockTick, TypeInv, AuthType, ConfirmType, NetType, JobType, SendType,
                            WorldType, TickType
<1>2. CASE Include /\ UNCHANGED <<tree, records, ctl, dials, bad, deaths>>
  BY <1>2 DEF Include, TypeInv, AuthType, ConfirmType, NetType, JobType, SendType, WorldType, TickType
<1>3. CASE Grow
  BY <1>3 DEF Grow, TypeInv, AuthType, ConfirmType, NetType, JobType, SendType, WorldType, TickType
<1> QED BY <1>1, <1>2, <1>3 DEF World

LEMMA TypeStep == TypeInv /\ [Next]_vars => TypeInv'
<1> SUFFICES ASSUME TypeInv, [Next]_vars PROVE TypeInv'
  OBVIOUS
<1>1. CASE World
  BY <1>1, WorldStepType
<1>2. ASSUME NEW c \in Controller, Tick(c) PROVE TypeInv'
  <2>1. CASE TickStart(c) \/ TickLoad(c) \/ TickReconcile(c) \/ Survey(c) \/ Prepare(c)
    BY <2>1, TickStartType, TickLoadType, TickReconcileType, SurveyType, PrepareType
  <2>2. CASE RecordAttempt(c) \/ Authorize(c) \/ Dial(c) \/ Persist(c) \/ Authorized(c)
    BY <2>2, RecordAttemptType, AuthorizeType, DialType, PersistType, AuthorizedType
  <2>3. CASE Reload(c) \/ SignFailed(c) \/ SendGate(c) \/ Reserve(c) \/ PostOnce(c)
    BY <2>3, ReloadType, SignFailedType, SendGateType, ReserveType, PostOnceType
  <2>4. CASE MarkSubmitted(c) \/ MarkConfirmed(c)
    BY <2>4, MarkType DEF MarkSubmitted, MarkConfirmed, RowPcs, SendState
  <2>5. CASE SetSubmitted(c) \/ SetConfirmed(c)
    BY <2>5, SetSendStatusType DEF SetSubmitted, SetConfirmed, RowPcs, SendState
  <2>6. CASE PollSettled(c) \/ PollFound(c) \/ PollMissing(c) \/ PollBad(c)
    BY <2>6, PollType
  <2>7. CASE ReadPointer(c) \/ AdvancePointer(c) \/ Caught(c) \/ Resign(c) \/ Halt(c)
    BY <2>7, ReadPointerType, AdvancePointerType, CaughtType, ResignType, HaltType
  <2> QED BY <1>2, <2>1, <2>2, <2>3, <2>4, <2>5, <2>6, <2>7 DEF Tick
<1>3. ASSUME NEW c \in Controller, Die(c) PROVE TypeInv'
  BY <1>3, DieType
<1>4. CASE UNCHANGED vars
  BY <1>4 DEF vars, TypeInv, AuthType, ConfirmType, NetType, JobType, SendType, WorldType, TickType
<1> QED BY <1>1, <1>2, <1>3, <1>4 DEF Next

LEMMA AlwaysTyped == Spec => []TypeInv
BY TypeInit, TypeStep, PTL DEF Spec

\* Every table, and everything a tick carries between its commits, stays what
\* the schema of store.py and the controller take it to be.
THEOREM TypeCorrect == Spec => []TypeOK
BY AlwaysTyped, TypeInvImpliesTypeOK, PTL

-----------------------------------------------------------------------------
(* One POST for each tree *)

\* What is posted was reserved, and what is reserved but not posted is held by
\* the one tick that reserved it.
Taken(t) == \E s \in spent : s.tree = t
Unposted(t) == posts[t] = 0 /\ \A r \in Request : <<t, r>> \notin wire
Reserved(t) ==
    /\ posts[t] <= 1
    /\ \A r \in Request : <<t, r>> \in wire /\ sends[t] # None => sends[t].txid = r
Posting(c) == ctl[c].pc = "post"
PostInv ==
    /\ \A t \in Tree : IF Taken(t) THEN Reserved(t) ELSE Unposted(t) /\ sends[t] = None
    /\ \A c \in Controller : Posting(c) =>
          /\ sends[ctl[c].size] # None
          /\ sends[ctl[c].size].txid = ctl[c].row.signed
          /\ posts[ctl[c].size] = 0
    /\ \A c, d \in Controller :
          Posting(c) /\ Posting(d) /\ ctl[c].size = ctl[d].size => c = d

\* Where a tick is about to post, to save a row it has read, or to record what
\* it found in a block.
Watched == {"post", "persist", "marksub", "markconf", "pointer", "advance"}

\* No tick acts on a time that is over for a deletion it did not see: there is
\* one controller, or nothing is ever deleted.
NoStaleTick == MaxTime <= Retention \/ \A c, d \in Controller : c = d

\* What is reserved is not reserved again.
Barred == \A t \in Tree : Taken(t) => ~Reservable(t)

\* A step that neither reserves nor posts, and deletes nothing a tick will post.
Calm ==
    /\ UNCHANGED <<posts, wire, spent>>
    /\ \A t \in Tree : sends[t] = None => sends'[t] = None
    /\ \A t \in Tree : sends'[t] # None => sends'[t].txid = sends[t].txid
    /\ \A c \in Controller : ctl'[c].pc = "post" =>
          /\ ctl'[c] = ctl[c]
          /\ sends[ctl[c].size] # None => sends'[ctl[c].size] # None

LEMMA CalmStep == ASSUME TypeInv, PostInv, Calm PROVE PostInv'
<1>1. \A t \in Tree : (IF Taken(t) THEN Reserved(t) ELSE Unposted(t) /\ sends[t] = None)'
  BY DEF PostInv, Calm, Taken, Unposted, Reserved
<1>2. \A c \in Controller : Posting(c)' => Posting(c) /\ ctl'[c] = ctl[c] /\ ctl[c].size \in Tree
  BY DEF Calm, Posting, TypeInv, TickType, Sound, JobPcs, Pcs
<1>3. \A c \in Controller : Posting(c)' =>
          /\ sends'[ctl'[c].size] # None
          /\ sends'[ctl'[c].size].txid = ctl'[c].row.signed
          /\ posts'[ctl'[c].size] = 0
  BY <1>2 DEF PostInv, Calm, Posting
<1> QED BY <1>1, <1>2, <1>3 DEF PostInv

\* A step that records no confirmation and does not come nearer to one.
Still ==
    /\ UNCHANGED <<anchors, confirmed>> /\ chain \subseteq chain'
    /\ \A c \in Controller :
          ctl'[c].pc \in {"markconf", "pointer", "advance"} => ctl'[c] = ctl[c]

\* A step that does not read the row a save goes by.
Saving(c) == ctl[c].pc \in {"persist", "marksub", "markconf"}
Unread == \A c \in Controller : Saving(c)' => ctl'[c] = ctl[c]

LEMMA HoldCalm ==
    ASSUME TypeInv, NEW c \in Controller, NEW k, Hold(c, k), k.pc \notin Watched
    PROVE  \A d \in Controller : ctl'[d].pc \in Watched => ctl'[d] = ctl[d]
BY DEF Hold, TypeInv, TickType

LEMMA GotoCalm ==
    ASSUME TypeInv, NEW c \in Controller, NEW to, to \notin Watched,
           Goto(c, to) \/ EndTick(c) \/ Abandon(c) \/ \E err \in Errors : Raise(c, err)
    PROVE  \A d \in Controller : ctl'[d].pc \in Watched => ctl'[d] = ctl[d]
<1>1. /\ [ctl[c] EXCEPT !.pc = to].pc = to
      /\ \A err \in Errors : [ctl[c] EXCEPT !.pc = "caught", !.err = err].pc = "caught"
      /\ NoTick.pc = "idle"
  BY DEF TypeInv, TickType, Sound, Held, NoTick
<1>2. Goto(c, to) \/ EndTick(c) \/ \E err \in Errors : Raise(c, err)
  BY DEF Abandon, Errors
<1>3. \E k : Hold(c, k) /\ k.pc \notin Watched
  BY <1>1, <1>2 DEF Goto, EndTick, Raise, Watched
<1> QED BY <1>3, HoldCalm

LEMMA EndCalm ==
    ASSUME TypeInv, NEW c \in Controller,
           EndTick(c) \/ Abandon(c) \/ \E err \in Errors : Raise(c, err)
    PROVE  \A d \in Controller : ctl'[d].pc \in Watched => ctl'[d] = ctl[d]
<1>1. "idle" \notin Watched
  BY DEF Watched
<1> QED BY <1>1, GotoCalm

LEMMA SavingCalm ==
    ASSUME TypeInv, NEW c \in Controller, NEW to, to \notin Watched, NEW row,
           Hold(c, [ctl[c] EXCEPT !.pc = to, !.seen = None, !.row = row])
    PROVE  \A d \in Controller : ctl'[d].pc \in Watched => ctl'[d] = ctl[d]
<1>1. [ctl[c] EXCEPT !.pc = to, !.seen = None, !.row = row].pc = to
  BY DEF TypeInv, TickType, Sound, Held
<1> QED BY <1>1, HoldCalm

LEMMA ProceedCalm ==
    ASSUME TypeInv, NEW c \in Controller, NEW k \in Held, NEW row, Hold(c, Proceed(k, row))
    PROVE  \A d \in Controller : ctl'[d].pc \in Watched => ctl'[d] = ctl[d]
<1>1. Proceed(k, row).pc \in {"halt", "poll", "idle", "send"}
  BY DEF Proceed, Held, NoTick
<1> QED BY <1>1, HoldCalm DEF Watched

\* A status changes nothing else but what it deletes, which is nothing as long as
\* nothing is old enough.
LEMMA SetSendKeeps ==
    ASSUME TypeInv, NEW t \in Tree, NEW want \in SendState,
           NEW when \in Time, SendMay(t, want), SetSend(t, want, when)
    PROVE  /\ \A u \in Tree : sends[u] = None => sends'[u] = None
           /\ \A u \in Tree : sends'[u] # None => sends'[u].txid = sends[u].txid
           /\ MaxTime <= Retention => \A u \in Tree : sends[u] # None => sends'[u] # None
<1> DEFINE s == [sends EXCEPT ![t].status = want]
<1>1. sends \in [Tree -> Send \cup {None}] /\ sends[t] \in Send
  BY DEF TypeInv, SendType, SendMay
<1>2. [sends[t] EXCEPT !.status = want] \in Send
      /\ [sends[t] EXCEPT !.status = want].txid = sends[t].txid
  BY <1>1 DEF Send
<1>3. s[t] = [sends[t] EXCEPT !.status = want] /\ \A u \in Tree : u # t => s[u] = sends[u]
  BY <1>1
<1>4. \A u \in Tree : s[u] # None => s[u] \in Send
  BY <1>1, <1>2, <1>3
<1>5. sends' = [u \in Tree |-> IF want = "CONFIRMED" /\ s[u] # None /\ Old(s[u], s[u].at, when)
                               THEN None ELSE s[u]]
  BY DEF SetSend
<1> HIDE DEF s
<1>6. MaxTime <= Retention => \A u \in Tree : s[u] # None => ~Old(s[u], s[u].at, when)
  <2>1. ASSUME MaxTime <= Retention, NEW u \in Tree, s[u] # None
        PROVE  ~(s[u].at + Retention < when)
    <3>1. s[u].at \in 1..MaxTime /\ when \in 1..MaxTime
      BY <1>4, <2>1 DEF Send, Time
    <3> QED BY <2>1, <3>1, TimeAssumption, BudgetAssumption
  <2> QED BY <2>1 DEF Old
<1>7. \A u \in Tree : sends'[u] = s[u] \/ (sends'[u] = None /\ ~(MaxTime <= Retention))
  BY <1>5, <1>6
<1>8. sends[t] # None /\ s[t] # None
  <2>1. s[t] # None
    BY <1>2, <1>3, RowAssumption
  <2> QED BY <2>1 DEF SendMay
<1>9. \A u \in Tree : (s[u] = None) = (sends[u] = None)
  BY <1>3, <1>8
<1>10. \A u \in Tree : sends'[u] # None => sends'[u].txid = sends[u].txid
  BY <1>2, <1>3, <1>7
<1> QED BY <1>7, <1>9, <1>10

\* The steps that leave the sends alone.
LEMMA QuietCalm ==
    ASSUME TypeInv, UNCHANGED <<posts, wire, chain, spent, sends, anchors, confirmed>>,
           \A d \in Controller : ctl'[d].pc \in Watched => ctl'[d] = ctl[d]
    PROVE  Calm /\ Still /\ Unread
BY DEF Calm, Still, Unread, Saving, Watched

LEMMA ReadCalm ==
    ASSUME TypeInv, NEW c \in Controller, NEW k, Hold(c, k), k.pc \in {"persist", "marksub"},
           UNCHANGED <<posts, wire, chain, spent, sends, anchors, confirmed>>
    PROVE  Calm /\ Still
BY DEF Hold, TypeInv, TickType, Calm, Still

USE DEF Watched

LEMMA StartsCalm ==
    ASSUME TypeInv, NEW c \in Controller,
           \/ TickStart(c) \/ TickLoad(c) \/ Survey(c) \/ Prepare(c) \/ RecordAttempt(c)
    PROVE  Calm /\ Still /\ Unread
<1> DEFINE k == ctl[c]
<1>0. Sound(k) /\ k \in Held
  BY DEF TypeInv, TickType, Sound
<1>1. CASE TickStart(c)
  <2>1. [NoTick EXCEPT !.pc = "load", !.when = clock, !.conf = confirmed].pc \notin Watched
    BY DEF NoTick
  <2>2. Hold(c, [NoTick EXCEPT !.pc = "load", !.when = clock, !.conf = confirmed])
    BY <1>1 DEF TickStart
  <2> QED BY <1>1, <2>1, <2>2, HoldCalm, QuietCalm DEF TickStart, Quiet
<1>2. CASE TickLoad(c)
  <2>1. PICK j \in Tree \cup {0} :
          LET held == [k EXCEPT !.size = j, !.req = jobs[j].req, !.resigns = jobs[j].resigns]
          IN  \/ Hold(c, [k EXCEPT !.pc = "reconcile", !.size = j])
              \/ Goto(c, "survey")
              \/ EndTick(c)
              \/ Hold(c, [held EXCEPT !.pc = IF k.when > held.req.at + SnapshotMaxAge
                                             THEN "halt" ELSE "attempt"])
              \/ IsLastJob(j) /\ Open(k, j) /\ Hold(c, Proceed(held, auth[j]))
    BY <1>2 DEF TickLoad
  <2> DEFINE held == [k EXCEPT !.size = j, !.req = jobs[j].req, !.resigns = jobs[j].resigns]
  <2>2. CASE Hold(c, [k EXCEPT !.pc = "reconcile", !.size = j])
    <3>1. [k EXCEPT !.pc = "reconcile", !.size = j].pc = "reconcile"
      BY <1>0 DEF Held
    <3> QED BY <1>2, <2>2, <3>1, HoldCalm, QuietCalm DEF TickLoad, Quiet
  <2>3. CASE Goto(c, "survey") \/ EndTick(c)
    <3>1. UNCHANGED <<posts, wire, chain, spent, sends, anchors, confirmed>>
      BY <1>2 DEF TickLoad, Quiet
    <3>2. "survey" \notin Watched
      OBVIOUS
    <3> QED BY <2>3, <3>1, <3>2, GotoCalm, QuietCalm
  <2>4. CASE Hold(c, [held EXCEPT !.pc = IF k.when > held.req.at + SnapshotMaxAge
                                         THEN "halt" ELSE "attempt"])
    <3> DEFINE to == IF k.when > held.req.at + SnapshotMaxAge THEN "halt" ELSE "attempt"
    <3>1. to \notin Watched
      OBVIOUS
    <3>2. Hold(c, [held EXCEPT !.pc = to])
      BY <2>4
    <3> HIDE DEF to
    <3>3. [held EXCEPT !.pc = to].pc = to
      BY <1>0 DEF Held
    <3> QED BY <1>2, <3>1, <3>2, <3>3, HoldCalm, QuietCalm DEF TickLoad, Quiet
  <2>5. CASE IsLastJob(j) /\ Open(k, j) /\ Hold(c, Proceed(held, auth[j]))
    <3>1. k.pc = "load" /\ k.conf \in Pointer
      BY <1>0, <1>2 DEF TickLoad, At, Sound
    <3>2. j \in Tree /\ j \in Nat /\ jobs[j] \in Job
      BY <2>5, <3>1, TreeSize DEF IsLastJob, Exists, Open, Pointer, TypeInv, JobType
    <3>3. jobs[j].req \in Request /\ jobs[j].resigns \in Nat
      BY <3>2 DEF Job
    <3>4. held \in Held
      BY <1>0, <3>2, <3>3 DEF Held
    <3> HIDE DEF held
    <3> QED BY <1>2, <2>5, <3>4, ProceedCalm, QuietCalm DEF TickLoad, Quiet
  <2> QED BY <2>1, <2>2, <2>3, <2>4, <2>5
<1>3. CASE Survey(c)
  BY <1>3, GotoCalm, EndCalm, QuietCalm DEF Survey, Quiet
<1>4. CASE Prepare(c)
  <2>1. \A r : [k EXCEPT !.pc = "attempt", !.size = tree, !.req = r].pc = "attempt"
    BY <1>0 DEF Held
  <2>2. EndTick(c) \/ \E r : Hold(c, [k EXCEPT !.pc = "attempt", !.size = tree, !.req = r])
    BY <1>4 DEF Prepare
  <2> QED BY <1>4, <2>1, <2>2, GotoCalm, EndCalm, HoldCalm, QuietCalm DEF Prepare
<1>5. CASE RecordAttempt(c)
  <2>1. \A r : [k EXCEPT !.pc = "authorize", !.req = r].pc = "authorize"
    BY <1>0 DEF Held
  <2>2. Goto(c, "signfail") \/ \E r : Hold(c, [k EXCEPT !.pc = "authorize", !.req = r])
    BY <1>5 DEF RecordAttempt
  <2>3. UNCHANGED <<posts, wire, chain, spent, sends, anchors, confirmed>>
    BY <1>5 DEF RecordAttempt
  <2>4. CASE Goto(c, "signfail")
    BY <2>3, <2>4, GotoCalm, QuietCalm
  <2>5. ASSUME NEW r, Hold(c, [k EXCEPT !.pc = "authorize", !.req = r]) PROVE Calm /\ Still /\ Unread
    BY <2>1, <2>3, <2>5, HoldCalm, QuietCalm
  <2> QED BY <2>2, <2>4, <2>5
<1> QED BY <1>1, <1>2, <1>3, <1>4, <1>5

LEMMA SignsCalm ==
    ASSUME TypeInv, NEW c \in Controller,
           Authorize(c) \/ Dial(c) \/ Persist(c) \/ Authorized(c) \/ Reload(c) \/ SignFailed(c)
           \/ SendGate(c)
    PROVE  Calm /\ Still /\ (Dial(c) \/ Unread)
<1> DEFINE k == ctl[c]
<1>0. Sound(k) /\ k \in Held
  BY DEF TypeInv, TickType, Sound
<1>1. CASE Authorize(c)
  <2>1. \A r : [k EXCEPT !.pc = "authorized", !.row = r].pc = "authorized"
    BY <1>0 DEF Held
  <2>2. \/ Goto(c, "signfail") \/ Goto(c, "dial")
        \/ \E r : Hold(c, [k EXCEPT !.pc = "authorized", !.row = r])
    BY <1>1 DEF Authorize
  <2>3. UNCHANGED <<posts, wire, chain, spent, sends, anchors, confirmed>>
    BY <1>1 DEF Authorize, Quiet
  <2>4. CASE Goto(c, "signfail") \/ Goto(c, "dial")
    BY <2>3, <2>4, GotoCalm, QuietCalm
  <2>5. ASSUME NEW r, Hold(c, [k EXCEPT !.pc = "authorized", !.row = r]) PROVE Calm /\ Still /\ (Dial(c) \/ Unread)
    BY <2>1, <2>3, <2>5, HoldCalm, QuietCalm
  <2> QED BY <2>2, <2>4, <2>5
<1>2. CASE Dial(c)
  <2>1. \A r : [k EXCEPT !.pc = "persist", !.seen = r].pc = "persist"
    BY <1>0 DEF Held
  <2>2. \/ Goto(c, "signfail")
        \/ \E r : Hold(c, [k EXCEPT !.pc = "persist", !.seen = r])
    BY <1>2 DEF Dial
  <2>3. UNCHANGED <<posts, wire, chain, spent, sends, anchors, confirmed>>
    BY <1>2 DEF Dial
  <2>4. CASE Goto(c, "signfail")
    BY <2>3, <2>4, GotoCalm, QuietCalm
  <2>5. ASSUME NEW r, Hold(c, [k EXCEPT !.pc = "persist", !.seen = r]) PROVE Calm /\ Still /\ (Dial(c) \/ Unread)
    BY <1>2, <2>1, <2>3, <2>5, ReadCalm
  <2> QED BY <2>2, <2>4, <2>5
<1>3. CASE Persist(c)
  <2>1. \/ Goto(c, "signfail")
        \/ \E r : Hold(c, [k EXCEPT !.pc = "authorized", !.seen = None, !.row = r])
    BY <1>3 DEF Persist
  <2>2. UNCHANGED <<posts, wire, chain, spent, sends, anchors, confirmed>>
    BY <1>3 DEF Persist
  <2>3. CASE Goto(c, "signfail")
    BY <2>2, <2>3, GotoCalm, QuietCalm
  <2>4. ASSUME NEW r, Hold(c, [k EXCEPT !.pc = "authorized", !.seen = None, !.row = r])
        PROVE  Calm /\ Still /\ (Dial(c) \/ Unread)
    BY <2>2, <2>4, SavingCalm, QuietCalm
  <2> QED BY <2>1, <2>3, <2>4
<1>4. CASE Authorized(c)
  <2>1. \E to \in {"signfail", "reload", "send", "poll"} : Goto(c, to)
    BY <1>4 DEF Authorized
  <2> QED BY <1>4, <2>1, GotoCalm, EndCalm, QuietCalm DEF Authorized
<1>5. CASE Reload(c)
  <2> DEFINE j == jobs[k.size]
             held == IF j = None THEN k ELSE [k EXCEPT !.req = j.req, !.resigns = j.resigns]
  <2>1. k.size \in Tree
    BY <1>0, <1>5 DEF Reload, At, Sound, JobPcs, Pcs
  <2>2. j = None \/ (j.req \in Request /\ j.resigns \in Nat)
    BY <2>1 DEF TypeInv, JobType, Job
  <2> HIDE DEF j
  <2>3. held \in Held
    BY <1>0, <2>2 DEF Held
  <2>4. Hold(c, Proceed(held, k.row))
    BY <1>5 DEF Reload, j
  <2> HIDE DEF held
  <2> QED BY <1>5, <2>3, <2>4, ProceedCalm, QuietCalm DEF Reload, Quiet
<1>6. CASE SignFailed(c)
  <2>1. Raise(c, "plain") \/ Goto(c, "halt") \/ EndTick(c)
    BY <1>6 DEF SignFailed
  <2> QED BY <1>6, <2>1, GotoCalm, EndCalm, QuietCalm DEF SignFailed, Quiet, Errors
<1>7. CASE SendGate(c)
  <2>1. Raise(c, "plain") \/ Raise(c, "stale") \/ Goto(c, "reserve") \/ Abandon(c)
    BY <1>7 DEF SendGate
  <2> QED BY <1>7, <2>1, GotoCalm, EndCalm, QuietCalm DEF SendGate, Quiet, Errors
<1> QED BY <1>1, <1>2, <1>3, <1>4, <1>5, <1>6, <1>7

LEMMA MarkCalm ==
    ASSUME TypeInv, NEW c \in Controller, NEW at, NEW state, NEW next, next \notin Watched,
           Mark(c, at, state, next)
    PROVE  Calm /\ Still /\ Unread
<1>1. \/ Raise(c, "store")
      \/ \E r : Hold(c, [ctl[c] EXCEPT !.pc = next, !.seen = None, !.row = r])
  <2>1. ctl[c] \in Held
    BY DEF TypeInv, TickType, Sound
  <2>2. CASE SaveVerdict(ctl[c].seen, [ctl[c].row EXCEPT !.state = state]) = "refuse"
    BY <2>2 DEF Mark
  <2>3. CASE SaveVerdict(ctl[c].seen, [ctl[c].row EXCEPT !.state = state]) # "refuse"
    BY <2>1, <2>3 DEF Mark, Held
  <2> QED BY <2>2, <2>3
<1>2. UNCHANGED <<posts, wire, chain, spent, sends, anchors, confirmed>>
  BY DEF Mark
<1>3. CASE Raise(c, "store")
  BY <1>2, <1>3, EndCalm, QuietCalm DEF Errors
<1>4. ASSUME NEW r, Hold(c, [ctl[c] EXCEPT !.pc = next, !.seen = None, !.row = r])
      PROVE  Calm /\ Still /\ Unread
  BY <1>2, <1>4, SavingCalm, QuietCalm
<1> QED BY <1>1, <1>3, <1>4

LEMMA StatusMoves ==
    ASSUME TypeInv, NEW c \in Controller,
           TickReconcile(c) \/ SetSubmitted(c) \/ SetConfirmed(c)
    PROVE  /\ \A d \in Controller : ctl'[d].pc \in Watched => ctl'[d] = ctl[d]
           /\ UNCHANGED <<posts, wire, chain, spent, anchors, confirmed>>
<1>1. Goto(c, "survey") \/ Goto(c, "pollsent") \/ Raise(c, "store") \/ EndTick(c)
  BY DEF TickReconcile, SetSubmitted, SetConfirmed, SetSendStatus
<1>2. \A d \in Controller : ctl'[d].pc \in Watched => ctl'[d] = ctl[d]
  BY <1>1, GotoCalm, EndCalm DEF Errors
<1>3. UNCHANGED <<posts, wire, chain, spent, anchors, confirmed>>
  BY DEF TickReconcile, SetSubmitted, SetConfirmed, SetSendStatus
<1> QED BY <1>2, <1>3

LEMMA StatusStill ==
    ASSUME TypeInv, NEW c \in Controller,
           TickReconcile(c) \/ SetSubmitted(c) \/ SetConfirmed(c)
    PROVE  Still /\ Unread
BY StatusMoves DEF Still, Unread, Saving

\* The steps that change the status of a send.
LEMMA StatusCalm ==
    ASSUME NoStaleTick, TypeInv, NEW c \in Controller,
           TickReconcile(c) \/ SetSubmitted(c) \/ SetConfirmed(c)
    PROVE  Calm
<1> DEFINE k == ctl[c]
<1>1. k.size \in Tree /\ k.when \in Time
  BY DEF TickReconcile, SetSubmitted, SetConfirmed, SetSendStatus, At, TypeInv, TickType, Sound,
         JobPcs, Pcs
<1>2. \E want \in SendState :
         (SendMay(k.size, want) /\ SetSend(k.size, want, k.when)) \/ UNCHANGED sends
  BY DEF TickReconcile, SetSubmitted, SetConfirmed, SetSendStatus, SendState
<1>3. /\ \A u \in Tree : sends[u] = None => sends'[u] = None
      /\ \A u \in Tree : sends'[u] # None => sends'[u].txid = sends[u].txid
      /\ MaxTime <= Retention => \A u \in Tree : sends[u] # None => sends'[u] # None
  BY <1>1, <1>2, SetSendKeeps
<1>4. /\ \A d \in Controller : ctl'[d].pc \in Watched => ctl'[d] = ctl[d]
      /\ UNCHANGED <<posts, wire, spent>>
  BY StatusMoves
<1>5. ASSUME NEW d \in Controller, ctl'[d].pc = "post" PROVE MaxTime <= Retention
  <2>1. At(c, "reconcile") \/ At(c, "setsub") \/ At(c, "setconf")
    BY DEF TickReconcile, SetSubmitted, SetConfirmed, SetSendStatus
  <2>2. ctl[d].pc = "post" /\ d # c
    BY <1>4, <1>5, <2>1 DEF At
  <2> QED BY <2>2 DEF NoStaleTick
<1>6. ASSUME NEW d \in Controller, ctl'[d].pc = "post" PROVE ctl[d].size \in Tree
  BY <1>4, <1>6 DEF TypeInv, TickType, Sound, JobPcs, Pcs
<1> QED BY <1>3, <1>4, <1>5, <1>6 DEF Calm

LEMMA EndsCalm ==
    ASSUME TypeInv, NEW c \in Controller,
           \/ PollSettled(c) \/ PollMissing(c) \/ PollBad(c) \/ Caught(c) \/ Resign(c)
           \/ Halt(c) \/ Die(c)
    PROVE  Calm /\ Still /\ Unread
<1> DEFINE k == ctl[c]
<1>0. k \in Held
  BY DEF TypeInv, TickType, Sound
<1>1. CASE PollSettled(c)
  BY <1>1, GotoCalm, EndCalm, QuietCalm DEF PollSettled, Quiet
<1>2. CASE PollMissing(c)
  BY <1>2, GotoCalm, EndCalm, QuietCalm DEF PollMissing, Quiet, Errors
<1>3. CASE PollBad(c)
  BY <1>3, GotoCalm, EndCalm, QuietCalm DEF PollBad
<1>4. CASE Caught(c)
  BY <1>4, GotoCalm, EndCalm, QuietCalm DEF Caught, Quiet
<1>5. CASE Resign(c)
  <2> DEFINE again(r) == [k EXCEPT !.pc = "attempt", !.flow = "resign", !.req = r, !.resigns = 1,
                                   !.row = None]
             failed == [k EXCEPT !.flow = "resign", !.pc = "caught", !.err = "plain"]
  <2>1. failed.pc = "caught" /\ \A r : again(r).pc = "attempt"
    BY <1>0 DEF Held
  <2>2. Hold(c, failed) \/ \E r : Hold(c, again(r))
    BY <1>5 DEF Resign
  <2>3. \E h : Hold(c, h) /\ h.pc \notin Watched
    <3>1. CASE Hold(c, failed)
      BY <2>1, <3>1
    <3>2. ASSUME NEW r, Hold(c, again(r)) PROVE \E h : Hold(c, h) /\ h.pc \notin Watched
      BY <2>1, <3>2
    <3> QED BY <2>2, <3>1, <3>2
  <2> QED BY <1>5, <2>3, HoldCalm, QuietCalm DEF Resign
<1>6. CASE Halt(c)
  BY <1>6, GotoCalm, EndCalm, QuietCalm DEF Halt
<1>7. CASE Die(c)
  BY <1>7, GotoCalm, EndCalm, QuietCalm DEF Die
<1> QED BY <1>1, <1>2, <1>3, <1>4, <1>5, <1>6, <1>7

LEMMA HoldUnposted ==
    ASSUME TypeInv, NEW c \in Controller, NEW k, Hold(c, k), k.pc # "post",
           UNCHANGED <<posts, wire, spent, sends>>
    PROVE  Calm
BY DEF Hold, TypeInv, TickType, Calm

LEMMA GotoUnposted ==
    ASSUME TypeInv, NEW c \in Controller, UNCHANGED <<posts, wire, spent, sends>>,
           Goto(c, "setconf") \/ Goto(c, "advance") \/ Abandon(c)
    PROVE  Calm
<1>1. \A to : [ctl[c] EXCEPT !.pc = to].pc = to
  BY DEF TypeInv, TickType, Sound, Held
<1>2. CASE Goto(c, "setconf") \/ Goto(c, "advance")
  BY <1>1, <1>2, HoldUnposted DEF Goto
<1>3. CASE Abandon(c)
  BY <1>3, EndCalm DEF Calm
<1> QED BY <1>2, <1>3

\* The steps between a transaction found in a block and the pointer.
LEMMA FoundCalm ==
    ASSUME TypeInv, NEW c \in Controller,
           PollFound(c) \/ MarkConfirmed(c) \/ ReadPointer(c) \/ AdvancePointer(c)
    PROVE  Calm
<1> DEFINE k == ctl[c]
<1>1. k \in Held
  BY DEF TypeInv, TickType, Sound
<1>2. UNCHANGED <<posts, wire, spent, sends>>
  BY DEF PollFound, MarkConfirmed, Mark, ReadPointer, AdvancePointer, Quiet
<1>3. CASE PollFound(c)
  <2>1. [k EXCEPT !.pc = "markconf", !.seen = auth[k.size]].pc = "markconf"
    BY <1>1 DEF Held
  <2> QED BY <1>2, <1>3, <2>1, HoldUnposted DEF PollFound
<1>4. CASE MarkConfirmed(c)
  <2> DEFINE new == [k.row EXCEPT !.state = "CONFIRMED"]
  <2>1. CASE SaveVerdict(k.seen, new) = "refuse"
    <3>1. Raise(c, "store")
      BY <1>4, <2>1 DEF MarkConfirmed, Mark
    <3> QED BY <1>2, <3>1, EndCalm DEF Errors, Calm
  <2>2. CASE SaveVerdict(k.seen, new) # "refuse"
    <3>1. Hold(c, [k EXCEPT !.pc = "pointer", !.seen = None, !.row = @])
      BY <1>4, <2>2 DEF MarkConfirmed, Mark
    <3>2. [k EXCEPT !.pc = "pointer", !.seen = None, !.row = @].pc = "pointer"
      BY <1>1 DEF Held
    <3> QED BY <1>2, <3>1, <3>2, HoldUnposted
  <2> QED BY <2>1, <2>2
<1>5. CASE ReadPointer(c) \/ AdvancePointer(c)
  BY <1>2, <1>5, GotoUnposted DEF ReadPointer, AdvancePointer
<1> QED BY <1>3, <1>4, <1>5

LEMMA WorldCalm == ASSUME TypeInv, World PROVE Calm /\ Still /\ Unread
BY DEF World, ClockTick, Include, Grow, Calm, Still, Unread, Saving

\* A reservation finds its tree unposted, and no other tick holds it.
LEMMA ReservePosts ==
    ASSUME TypeInv, PostInv, Barred, NEW c \in Controller, Reserve(c) PROVE PostInv'
<1> DEFINE k == ctl[c]
           t == k.size
           fee == k.row.signed.fee
           send == [txid |-> k.row.signed, fee |-> fee, at |-> k.when, status |-> "SEND_ATTEMPTED"]
           row == Latch(auth[t], k.row.signed, k.when)
<1>1. k \in Held /\ t \in Tree /\ k.row \in AuthRow /\ k.when \in Time
      /\ k.row.signed \in Request /\ fee \in Fee /\ k.pc = "reserve"
  BY DEF Reserve, At, TypeInv, TickType, Sound, JobPcs, RowPcs, Pcs, AuthRow, Request
<1>2. CASE Raise(c, IF Reservable(t) THEN "cap" ELSE "store") /\ UNCHANGED records
  <2>1. Calm
    BY <1>2, GotoCalm, EndCalm, QuietCalm DEF Reserve, Errors
  <2> QED BY <2>1, CalmStep
<1>3. CASE /\ Reservable(t)
           /\ sends' = [sends EXCEPT ![t] = send]
           /\ spent' = spent \cup {[tree |-> t, at |-> k.when, fee |-> fee]}
           /\ IF row.signed = k.row.signed THEN Hold(c, [k EXCEPT !.pc = "post", !.row = row])
              ELSE Raise(c, "plain")
  <2>1. sends[t] = None /\ Unposted(t) /\ ~Taken(t)
    BY <1>1, <1>3 DEF Reservable, PostInv, Barred
  <2>2. send \in Send
    BY <1>1 DEF Send, SendState
  <2>3. sends'[t] = send /\ \A u \in Tree : u # t => sends'[u] = sends[u]
    BY <1>1, <1>3 DEF TypeInv, SendType
  <2>4. sends'[t] # None /\ sends'[t].txid = k.row.signed
    <3> HIDE DEF t
    <3>1. send.txid = k.row.signed
      OBVIOUS
    <3> HIDE DEF send
    <3> QED BY <2>2, <2>3, <3>1, RowAssumption
  <2>5. UNCHANGED <<posts, wire>> /\ spent \subseteq spent' /\ \E s \in spent' : s.tree = t
    <3>1. [tree |-> t, at |-> k.when, fee |-> fee].tree = t
      OBVIOUS
    <3>2. [tree |-> t, at |-> k.when, fee |-> fee] \in spent' /\ spent \subseteq spent'
      BY <1>3
    <3>3. UNCHANGED <<posts, wire>>
      BY DEF Reserve
    <3> HIDE DEF t
    <3> QED BY <3>1, <3>2, <3>3
  <2>6. \A u \in Tree : (IF Taken(u) THEN Reserved(u) ELSE Unposted(u) /\ sends[u] = None)'
    <3>1. ASSUME NEW u \in Tree, u = t PROVE Taken(u)' /\ Reserved(u)'
      <4>1. posts'[t] = 0 /\ \A r \in Request : <<t, r>> \notin wire'
        BY <2>1, <2>5 DEF Unposted
      <4>2. \E s \in spent' : s.tree = t
        BY <2>5
      <4> HIDE DEF t
      <4> QED BY <3>1, <4>1, <4>2 DEF Taken, Reserved
    <3>2. ASSUME NEW u \in Tree, u # t PROVE Taken(u)' = Taken(u)
      <4> DEFINE s == [tree |-> t, at |-> k.when, fee |-> fee]
      <4>1. s.tree = t /\ spent' = spent \cup {s}
        BY <1>3
      <4> HIDE DEF s, t
      <4> QED BY <3>2, <4>1 DEF Taken
    <3>3. ASSUME NEW u \in Tree, u # t
          PROVE  (IF Taken(u) THEN Reserved(u) ELSE Unposted(u) /\ sends[u] = None)'
      <4> HIDE DEF t
      <4> QED BY <2>3, <2>5, <3>2, <3>3 DEF PostInv, Unposted, Reserved
    <3> HIDE DEF t
    <3>4. ASSUME NEW u \in Tree
          PROVE  (IF Taken(u) THEN Reserved(u) ELSE Unposted(u) /\ sends[u] = None)'
      <4>1. CASE u = t
        BY <3>1, <4>1
      <4>2. CASE u # t
        BY <3>3, <4>2
      <4> QED BY <4>1, <4>2
    <3> QED BY <3>4
  <2>7. \A d \in Controller : Posting(d)' =>
            \/ d = c /\ ctl'[d].size = t /\ ctl'[d].row.signed = k.row.signed
            \/ ctl'[d] = ctl[d] /\ Posting(d) /\ ctl[d].size \in Tree /\ ctl[d].size # t
    <3> SUFFICES ASSUME NEW d \in Controller, Posting(d)'
                 PROVE  \/ d = c /\ ctl'[d].size = t /\ ctl'[d].row.signed = k.row.signed
                        \/ /\ ctl'[d] = ctl[d] /\ Posting(d)
                           /\ ctl[d].size \in Tree /\ ctl[d].size # t
      OBVIOUS
    <3>1. CASE Raise(c, "plain")
      <4>1. ctl'[d] = ctl[d]
        BY <3>1, GotoCalm, EndCalm DEF Posting, Errors
      <4> QED BY <2>1, <4>1 DEF PostInv, Posting, TypeInv, TickType, Sound, JobPcs, Pcs
    <3>2. CASE row.signed = k.row.signed /\ Hold(c, [k EXCEPT !.pc = "post", !.row = row])
      <4>1. d # c => ctl'[d] = ctl[d]
        BY <3>2 DEF Hold, TypeInv, TickType
      <4>2. d = c => ctl'[d].size = t /\ ctl'[d].row.signed = k.row.signed
        <5> HIDE DEF row
        <5> QED BY <1>1, <3>2 DEF Hold, TypeInv, TickType, Held
      <4> QED BY <2>1, <4>1, <4>2 DEF PostInv, Posting, TypeInv, TickType, Sound, JobPcs, Pcs
    <3> QED BY <1>3, <3>1, <3>2
  <2> HIDE DEF k, t, send
  <2> QED BY <2>1, <2>3, <2>4, <2>5, <2>6, <2>7 DEF PostInv, Posting, Unposted
<1> QED BY <1>2, <1>3 DEF Reserve

\* The POST takes its tick out of "post", and no other tick is there for the tree.
LEMMA PostOncePosts == ASSUME TypeInv, PostInv, NEW c \in Controller, PostOnce(c) PROVE PostInv'
<1> DEFINE k == ctl[c]
<1>0. k \in Held /\ k.size \in Tree /\ Posting(c)
  BY DEF PostOnce, At, TypeInv, TickType, Sound, JobPcs, RowPcs, Pcs, Posting
<1>1. PICK t \in Tree : t = k.size
  BY <1>0
<1> DEFINE r == k.row.signed
<1>2. sends[t] # None /\ sends[t].txid = r /\ posts[t] = 0 /\ Reserved(t)
  BY <1>0, <1>1 DEF PostInv
<1>21. Taken(t)
  BY <1>1, <1>2 DEF PostInv
<1>3. /\ posts'[t] = 1 /\ \A u \in Tree : u # t => posts'[u] = posts[u]
      /\ wire' \in {wire, wire \cup {<<t, r>>}}
      /\ UNCHANGED <<sends, spent>>
  BY <1>0, <1>1, <1>2 DEF PostOnce, Post, TypeInv, NetType
<1>4. \A d \in Controller : Posting(d)' => Posting(d) /\ ctl'[d] = ctl[d] /\ d # c
  <2>1. CASE Raise(c, "plain")
    <3>1. ctl'[c].pc = "caught"
      BY <1>0, <1>1, <2>1 DEF Raise, Hold, TypeInv, TickType, Held
    <3> QED BY <2>1, <3>1, GotoCalm, EndCalm DEF Posting, Errors
  <2>2. CASE Hold(c, [k EXCEPT !.pc = "marksub", !.seen = auth[t]])
    <3>1. [k EXCEPT !.pc = "marksub", !.seen = auth[t]].pc = "marksub"
      BY <1>0, <1>1 DEF Held
    <3>2. ctl'[c].pc = "marksub"
      BY <2>2, <3>1 DEF Hold, TypeInv, TickType
    <3> QED BY <2>2, <3>1, <3>2 DEF Posting, Hold, TypeInv, TickType
  <2> QED BY <1>1, <2>1, <2>2 DEF PostOnce
<1>5. \A u \in Tree : (IF Taken(u) THEN Reserved(u) ELSE Unposted(u) /\ sends[u] = None)'
  <2>1. Reserved(t)'
    BY <1>2, <1>3 DEF Reserved
  <2>2. ASSUME NEW u \in Tree, u # t
        PROVE  (IF Taken(u) THEN Reserved(u) ELSE Unposted(u) /\ sends[u] = None)'
    BY <1>3, <2>2 DEF PostInv, Taken, Unposted, Reserved
  <2>3. (IF Taken(t) THEN Reserved(t) ELSE Unposted(t) /\ sends[t] = None)'
    BY <1>21, <1>3, <2>1 DEF Taken
  <2>4. ASSUME NEW u \in Tree
        PROVE  (IF Taken(u) THEN Reserved(u) ELSE Unposted(u) /\ sends[u] = None)'
    <3>1. CASE u = t
      BY <2>3, <3>1
    <3>2. CASE u # t
      BY <2>2, <3>2
    <3> QED BY <3>1, <3>2
  <2> QED BY <2>4
<1>6. ASSUME NEW d \in Controller, Posting(d)'
      PROVE  ctl'[d].size \in Tree /\ ctl'[d].size # t
  BY <1>0, <1>1, <1>4, <1>6 DEF PostInv, TypeInv, TickType, Sound, JobPcs, Pcs, Posting
<1> QED BY <1>3, <1>4, <1>5, <1>6 DEF PostInv

LEMMA PostStep ==
    ASSUME NoStaleTick PROVE TypeInv /\ PostInv /\ Barred /\ [Next]_vars => PostInv'
<1> SUFFICES ASSUME TypeInv, PostInv, Barred, [Next]_vars PROVE PostInv'
  OBVIOUS
<1>1. CASE World
  BY <1>1, WorldCalm, CalmStep
<1>2. ASSUME NEW c \in Controller, Tick(c) \/ Die(c) PROVE PostInv'
  <2>1. CASE \/ TickStart(c) \/ TickLoad(c) \/ Survey(c) \/ Prepare(c) \/ RecordAttempt(c)
    BY <2>1, StartsCalm, CalmStep
  <2>2. CASE \/ Authorize(c) \/ Dial(c) \/ Persist(c) \/ Authorized(c) \/ Reload(c)
             \/ SignFailed(c) \/ SendGate(c)
    BY <2>2, SignsCalm, CalmStep
  <2>3. CASE Reserve(c)
    BY <2>3, ReservePosts
  <2>4. CASE PostOnce(c)
    BY <2>4, PostOncePosts
  <2>5. CASE MarkSubmitted(c)
    BY <2>5, MarkCalm, CalmStep DEF MarkSubmitted
  <2>6. CASE TickReconcile(c) \/ SetSubmitted(c) \/ SetConfirmed(c)
    BY <2>6, StatusCalm, CalmStep
  <2>7. CASE \/ PollSettled(c) \/ PollMissing(c) \/ PollBad(c) \/ Caught(c) \/ Resign(c)
             \/ Halt(c) \/ Die(c)
    BY <2>7, EndsCalm, CalmStep
  <2>8. CASE PollFound(c) \/ MarkConfirmed(c) \/ ReadPointer(c) \/ AdvancePointer(c)
    BY <2>8, FoundCalm, CalmStep
  <2> QED BY <1>2, <2>1, <2>2, <2>3, <2>4, <2>5, <2>6, <2>7, <2>8 DEF Tick
<1>3. CASE UNCHANGED vars
  <2>1. Calm
    BY <1>3 DEF vars, Calm
  <2> QED BY <2>1, CalmStep
<1> QED BY <1>1, <1>2, <1>3 DEF Next

LEMMA PostInit == Init => PostInv
BY DEF Init, StoreInit, PostInv, Taken, Unposted, Posting, NoTick

LEMMA PostInvImpliesOnePost == TypeInv /\ PostInv => OnePostPerTree
<1> SUFFICES ASSUME TypeInv, PostInv, NEW t \in Tree
             PROVE  /\ posts[t] <= 1
                    /\ posts[t] = 1 => \E s \in spent : s.tree = t
                    /\ \A r \in Request : <<t, r>> \in wire /\ sends[t] # None => sends[t].txid = r
  BY DEF OnePostPerTree
<1> QED BY DEF PostInv, Taken, Unposted, Reserved

\* While no record is deleted, the row of a reservation bars the next one.
KeptInv == \A s \in spent : sends[s.tree] # None

LEMMA KeptStep ==
    ASSUME MaxTime <= Retention PROVE TypeInv /\ KeptInv /\ [Next]_vars => KeptInv'
<1> SUFFICES ASSUME TypeInv, KeptInv, [Next]_vars PROVE KeptInv'
  OBVIOUS
<1>1. \A s \in spent : s.tree \in Tree
  BY DEF TypeInv, SendType
<1>2. CASE UNCHANGED <<sends, spent>>
  BY <1>2 DEF KeptInv
<1>3. ASSUME NEW c \in Controller, TickReconcile(c) \/ SetSubmitted(c) \/ SetConfirmed(c)
      PROVE  KeptInv'
  <2>1. ctl[c].size \in Tree /\ ctl[c].when \in Time
    BY <1>3 DEF TickReconcile, SetSubmitted, SetConfirmed, SetSendStatus, At, TypeInv, TickType,
                Sound, JobPcs, Pcs
  <2>2. \E want \in SendState :
           \/ SendMay(ctl[c].size, want) /\ SetSend(ctl[c].size, want, ctl[c].when)
           \/ UNCHANGED sends
    BY <1>3 DEF TickReconcile, SetSubmitted, SetConfirmed, SetSendStatus, SendState
  <2>3. \A u \in Tree : sends[u] # None => sends'[u] # None
    BY <2>1, <2>2, SetSendKeeps
  <2>4. UNCHANGED spent
    BY <1>3 DEF TickReconcile, SetSubmitted, SetConfirmed, SetSendStatus
  <2> QED BY <1>1, <2>3, <2>4 DEF KeptInv
<1>4. ASSUME NEW c \in Controller, Reserve(c) PROVE KeptInv'
  <2> DEFINE k == ctl[c]
             fee == k.row.signed.fee
             send == [txid |-> k.row.signed, fee |-> fee, at |-> k.when,
                      status |-> "SEND_ATTEMPTED"]
             s == [tree |-> k.size, at |-> k.when, fee |-> fee]
  <2>1. k.size \in Tree /\ send \in Send
    BY <1>4 DEF Reserve, At, TypeInv, TickType, Sound, JobPcs, RowPcs, Pcs, AuthRow, Request,
                Send, SendState
  <2>2. send # None
    BY <2>1, RowAssumption
  <2>3. s.tree = k.size
    OBVIOUS
  <2>4. \/ UNCHANGED <<sends, spent>>
        \/ sends' = [sends EXCEPT ![k.size] = send] /\ spent' = spent \cup {s}
    BY <1>4 DEF Reserve
  <2> HIDE DEF s, send
  <2> QED BY <1>1, <2>1, <2>2, <2>3, <2>4 DEF KeptInv, TypeInv, SendType
<1>5. CASE World
  BY <1>2, <1>5 DEF World, ClockTick, Include, Grow
<1>6. ASSUME NEW c \in Controller, Tick(c) \/ Die(c),
             ~(TickReconcile(c) \/ SetSubmitted(c) \/ SetConfirmed(c) \/ Reserve(c))
      PROVE  UNCHANGED <<sends, spent>>
  BY <1>6 DEF Tick, Die, TickStart, TickLoad, Survey, Prepare, RecordAttempt, Authorize, Dial,
              Persist, Authorized, Reload, SignFailed, SendGate, PostOnce, MarkSubmitted,
              MarkConfirmed, Mark, PollSettled, PollFound, PollMissing, PollBad, ReadPointer,
              AdvancePointer, Caught, Resign, Halt, Quiet
<1>7. CASE UNCHANGED vars
  BY <1>2, <1>7 DEF vars
<1> QED BY <1>2, <1>3, <1>4, <1>5, <1>6, <1>7 DEF Next

\* With one controller what bars it is the latch, which no record deleted later
\* takes away: a save goes by the row as it is, and a re-sign needs it unlatched.
Single == \A c, d \in Controller : c = d
LatchInv ==
    /\ \A s \in spent : Latched(auth[s.tree])
    /\ \A c \in Controller : Saving(c) => ctl[c].seen = auth[ctl[c].size]

LEMMA UnreadLatch ==
    ASSUME TypeInv, LatchInv, Unread, UNCHANGED <<auth, spent>> PROVE LatchInv'
<1>1. \A c \in Controller : Saving(c)' => Saving(c)
  BY DEF Unread, Saving
<1> QED BY <1>1 DEF LatchInv, Unread

\* A save by the row as it is leaves every latch.
LEMMA SaveLatch ==
    ASSUME TypeInv, NEW t \in Tree, NEW new \in AuthRow, SaveAuthorized(t, auth[t], new),
           NEW u \in Tree, Latched(auth[u])
    PROVE  Latched(auth'[u])
<1>1. auth \in [Tree -> AuthRow \cup {None}]
  BY DEF TypeInv, AuthType
<1>2. CASE UNCHANGED auth
  BY <1>2
<1>3. CASE SaveVerdict(auth[t], new) = "insert"
  <2>1. auth[t] = None
    BY <1>3 DEF SaveVerdict
  <2>2. auth' = [auth EXCEPT ![t] = new] /\ u # t
    BY <1>3, <2>1 DEF SaveAuthorized, Latched
  <2> QED BY <1>1, <2>2
<1>4. CASE SaveVerdict(auth[t], new) = "update"
  <2>1. auth' = [auth EXCEPT ![t] = Updated(@, new)]
    BY <1>4 DEF SaveAuthorized
  <2>2. CASE u # t
    BY <1>1, <2>1, <2>2
  <2>3. CASE u = t
    <3>1. auth[t] \in AuthRow /\ auth[t] # None
      BY <1>1, <2>3 DEF Latched
    <3>2. ~(Rank[new.state] < Rank[auth[t].state])
      BY <1>4, <3>1 DEF SaveVerdict
    <3>3. new.state \in SendState /\ auth[t].state \in SendState
      BY <3>1 DEF AuthRow
    <3>4. Rank[new.state] \in Nat /\ Rank[auth[t].state] \in Nat
      BY <3>3 DEF Rank, SendState
    <3>5. Rank[auth[t].state] >= 1
      BY <2>3 DEF Latched
    <3>6. auth'[t] = Updated(auth[t], new)
      BY <1>1, <2>1
    <3>7. Updated(auth[t], new).state = new.state /\ Updated(auth[t], new) \in AuthRow
      BY <3>1 DEF Updated, AuthRow
    <3>8. Updated(auth[t], new) # None
      BY <3>7, NoneAssumption
    <3>9. Rank[new.state] >= 1
      BY <3>2, <3>4, <3>5
    <3> QED BY <2>3, <3>6, <3>7, <3>8, <3>9 DEF Latched
  <2> QED BY <2>2, <2>3
<1> QED BY <1>2, <1>3, <1>4 DEF SaveAuthorized

\* The steps that save a row.
LEMMA SavesLatch ==
    ASSUME TypeInv, LatchInv, Single, NEW c \in Controller,
           Persist(c) \/ MarkSubmitted(c) \/ MarkConfirmed(c)
    PROVE  LatchInv'
<1> DEFINE k == ctl[c]
<1>1. k \in Held /\ k.size \in Tree /\ Saving(c) /\ k.seen = auth[k.size]
  BY DEF Persist, MarkSubmitted, MarkConfirmed, Mark, At, TypeInv, TickType, Sound, JobPcs, Pcs,
         Saving, LatchInv
<1>2. \E new \in AuthRow : SaveAuthorized(k.size, k.seen, new)
  <2>1. CASE Persist(c)
    <3> DEFINE new == [signed |-> k.req, state |-> "AUTHORIZED", expected |-> None,
                       attempted |-> 0]
    <3>1. k.req \in Request
      BY <2>1 DEF Persist, At, TypeInv, TickType, Sound, JobPcs, Pcs
    <3>2. new \in AuthRow
      BY <3>1 DEF AuthRow, SendState
    <3> QED BY <2>1, <3>2 DEF Persist
  <2>2. CASE MarkSubmitted(c) \/ MarkConfirmed(c)
    <3>1. k.row \in AuthRow
      BY <2>2 DEF MarkSubmitted, MarkConfirmed, Mark, At, TypeInv, TickType, Sound, RowPcs
    <3>2. \A state \in SendState : [k.row EXCEPT !.state = state] \in AuthRow
      BY <3>1 DEF AuthRow
    <3>3. "SUBMITTED" \in SendState /\ "CONFIRMED" \in SendState
      BY DEF SendState
    <3> QED BY <2>2, <3>2, <3>3 DEF MarkSubmitted, MarkConfirmed, Mark
  <2> QED BY <2>1, <2>2
<1>3. \A u \in Tree : Latched(auth[u]) => Latched(auth'[u])
  BY <1>1, <1>2, SaveLatch
<1>4. UNCHANGED spent /\ \A s \in spent : s.tree \in Tree
  BY DEF Persist, MarkSubmitted, MarkConfirmed, Mark, TypeInv, SendType
<1>5. ~Saving(c)'
  <2>1. \/ Goto(c, "signfail") \/ Raise(c, "store")
        \/ \E r : Hold(c, [k EXCEPT !.pc = "authorized", !.seen = None, !.row = r])
        \/ \E r : Hold(c, [k EXCEPT !.pc = "setsub", !.seen = None, !.row = r])
        \/ \E r : Hold(c, [k EXCEPT !.pc = "pointer", !.seen = None, !.row = r])
    <3>1. CASE Persist(c)
      BY <3>1 DEF Persist
    <3>2. CASE MarkSubmitted(c)
      <4>1. CASE SaveVerdict(k.seen, [k.row EXCEPT !.state = "SUBMITTED"]) = "refuse"
        BY <3>2, <4>1 DEF MarkSubmitted, Mark
      <4>2. CASE SaveVerdict(k.seen, [k.row EXCEPT !.state = "SUBMITTED"]) # "refuse"
        BY <1>1, <3>2, <4>2 DEF MarkSubmitted, Mark, Held
      <4> QED BY <4>1, <4>2
    <3>3. CASE MarkConfirmed(c)
      <4>1. CASE SaveVerdict(k.seen, [k.row EXCEPT !.state = "CONFIRMED"]) = "refuse"
        BY <3>3, <4>1 DEF MarkConfirmed, Mark
      <4>2. CASE SaveVerdict(k.seen, [k.row EXCEPT !.state = "CONFIRMED"]) # "refuse"
        BY <1>1, <3>3, <4>2 DEF MarkConfirmed, Mark, Held
      <4> QED BY <4>1, <4>2
    <3> QED BY <3>1, <3>2, <3>3
  <2>2. /\ \A r : /\ [k EXCEPT !.pc = "authorized", !.seen = None, !.row = r].pc = "authorized"
               /\ [k EXCEPT !.pc = "setsub", !.seen = None, !.row = r].pc = "setsub"
               /\ [k EXCEPT !.pc = "pointer", !.seen = None, !.row = r].pc = "pointer"
        /\ [k EXCEPT !.pc = "signfail"].pc = "signfail"
        /\ [k EXCEPT !.pc = "caught", !.err = "store"].pc = "caught"
    BY <1>1 DEF Held
  <2>3. \E h : Hold(c, h) /\ h.pc \notin {"persist", "marksub", "markconf"}
    BY <2>1, <2>2 DEF Goto, Raise
  <2>4. ctl'[c].pc \notin {"persist", "marksub", "markconf"}
    BY <2>3 DEF Hold, TypeInv, TickType
  <2> QED BY <2>4 DEF Saving
<1>6. \A d \in Controller : ~Saving(d)'
  BY <1>5 DEF Single
<1> QED BY <1>3, <1>4, <1>6 DEF LatchInv

\* The steps that read the row for a save.
LEMMA ReadsLatch ==
    ASSUME TypeInv, LatchInv, Single, NEW c \in Controller,
           Dial(c) \/ PostOnce(c) \/ PollFound(c)
    PROVE  LatchInv'
<1> DEFINE k == ctl[c]
<1>1. k \in Held
  BY DEF TypeInv, TickType, Sound
<1>2. UNCHANGED <<auth, spent>>
  BY DEF Dial, PostOnce, PollFound, Quiet, tables, records
<1>3. \/ Goto(c, "signfail") \/ Raise(c, "plain")
      \/ \E to \in {"persist", "marksub", "markconf"} :
            Hold(c, [k EXCEPT !.pc = to, !.seen = auth[k.size]])
  BY DEF Dial, PostOnce, PollFound
<1>4. /\ \A to : /\ [k EXCEPT !.pc = to, !.seen = auth[k.size]].seen = auth[k.size]
                 /\ [k EXCEPT !.pc = to, !.seen = auth[k.size]].size = k.size
      /\ [k EXCEPT !.pc = "signfail"].pc = "signfail"
      /\ [k EXCEPT !.pc = "caught", !.err = "plain"].pc = "caught"
  BY <1>1 DEF Held
<1>5. \E h : Hold(c, h) /\ (h.pc \in {"signfail", "caught"} \/ h.seen = auth[h.size])
  <2>1. CASE Goto(c, "signfail") \/ Raise(c, "plain")
    BY <1>4, <2>1 DEF Goto, Raise
  <2>2. ASSUME NEW to, Hold(c, [k EXCEPT !.pc = to, !.seen = auth[k.size]])
        PROVE  \E h : Hold(c, h) /\ h.seen = auth[h.size]
    <3> DEFINE h == [k EXCEPT !.pc = to, !.seen = auth[k.size]]
    <3>1. h.seen = auth[k.size] /\ h.size = k.size
      BY <1>4
    <3>2. Hold(c, h) /\ h.seen = auth[h.size]
      BY <2>2, <3>1
    <3> HIDE DEF h
    <3> QED BY <3>2
  <2> QED BY <1>3, <2>1, <2>2
<1>6. Saving(c)' => ctl'[c].seen = auth[ctl'[c].size]
  BY <1>5 DEF Hold, TypeInv, TickType, Saving
<1>7. \A d \in Controller : d = c
  BY DEF Single
<1> QED BY <1>2, <1>6, <1>7 DEF LatchInv

\* A reservation latches its tree.
LEMMA ReserveLatch ==
    ASSUME TypeInv, LatchInv, Single, NEW c \in Controller, Reserve(c) PROVE LatchInv'
<1> DEFINE k == ctl[c]
           row == Latch(auth[k.size], k.row.signed, k.when)
           s == [tree |-> k.size, at |-> k.when, fee |-> k.row.signed.fee]
<1>1. k \in Held /\ k.size \in Tree
  BY DEF Reserve, At, TypeInv, TickType, Sound, JobPcs, Pcs
<1>2. ASSUME NEW h, h = [k EXCEPT !.pc = "post", !.row = row] PROVE h.pc = "post"
  BY <1>1, <1>2 DEF Held
<1>3. ~Saving(c)'
  <2>1. \/ Hold(c, [k EXCEPT !.pc = "post", !.row = row])
        \/ \E err \in Errors : Raise(c, err)
    BY DEF Reserve, Errors
  <2>2. \A err \in Errors : [k EXCEPT !.pc = "caught", !.err = err].pc = "caught"
    BY <1>1 DEF Held
  <2>3. \E h : Hold(c, h) /\ h.pc \in {"post", "caught"}
    BY <1>2, <2>1, <2>2 DEF Raise
  <2> QED BY <2>3 DEF Hold, TypeInv, TickType, Saving
<1>4. \A x \in spent : x.tree \in Tree
  BY DEF TypeInv, SendType
<1>5. CASE UNCHANGED <<auth, spent>>
  BY <1>3, <1>5 DEF LatchInv, Single
<1>6. CASE Reservable(k.size) /\ auth' = [auth EXCEPT ![k.size] = row] /\ spent' = spent \cup {s}
  <2>1. auth[k.size] \in AuthRow
    BY <1>1, <1>6 DEF Reservable, TypeInv, AuthType
  <2>2. row.state = "SEND_ATTEMPTED" /\ row \in [signed: Request, state: SendState,
                                                 expected: {k.row.signed}, attempted: {k.when}]
    BY <2>1 DEF Latch, AuthRow, SendState
  <2>3. k.row.signed \in Request /\ k.when \in Nat
    BY DEF Reserve, At, TypeInv, TickType, Sound, RowPcs, AuthRow, Held, Time
  <2>4. row # None
    <3>1. row \in AuthRow
      BY <2>2, <2>3 DEF AuthRow
    <3> QED BY <3>1, NoneAssumption
  <2>5. Latched(row)
    BY <2>2, <2>4 DEF Latched, Rank, SendState
  <2>6. s.tree = k.size
    OBVIOUS
  <2> HIDE DEF row, s
  <2>7. \A x \in spent' : Latched(auth'[x.tree])
    <3>1. \A u \in Tree : auth'[u] = IF u = k.size THEN row ELSE auth[u]
      BY <1>6 DEF TypeInv, AuthType
    <3> QED BY <1>1, <1>4, <1>6, <2>5, <2>6, <3>1 DEF LatchInv
  <2> QED BY <1>3, <2>7 DEF LatchInv, Single
<1> QED BY <1>5, <1>6 DEF Reserve, records

\* A re-sign deletes no latched row.
LEMMA ResignLatch ==
    ASSUME TypeInv, LatchInv, Single, NEW c \in Controller, Resign(c) PROVE LatchInv'
<1>1. Unread
  BY EndsCalm
<1>2. CASE UNCHANGED <<auth, spent>>
  BY <1>1, <1>2, UnreadLatch
<1>3. CASE /\ ~Latched(auth[ctl[c].size]) /\ auth' = [auth EXCEPT ![ctl[c].size] = None]
           /\ UNCHANGED spent
  <2>1. ctl[c].pc = "resign" /\ ctl[c].size \in Tree
    BY DEF Resign, At, TypeInv, TickType, Sound, JobPcs, Pcs
  <2>2. \A x \in spent : x.tree \in Tree /\ x.tree # ctl[c].size
    BY <1>3 DEF LatchInv, TypeInv, SendType
  <2>3. \A x \in spent' : Latched(auth'[x.tree])
    BY <1>3, <2>1, <2>2 DEF LatchInv, TypeInv, AuthType
  <2>4. \A d \in Controller : ~Saving(d)'
    BY <1>1, <2>1 DEF Single, Unread, Saving
  <2> QED BY <2>3, <2>4 DEF LatchInv
<1> QED BY <1>2, <1>3 DEF Resign

LEMMA LatchStep == ASSUME Single PROVE TypeInv /\ LatchInv /\ [Next]_vars => LatchInv'
<1> SUFFICES ASSUME TypeInv, LatchInv, [Next]_vars PROVE LatchInv'
  OBVIOUS
<1>1. CASE World
  <2>1. UNCHANGED <<auth, spent>>
    BY <1>1 DEF World, ClockTick, Include, Grow, tables, records
  <2> QED BY <1>1, <2>1, WorldCalm, UnreadLatch
<1>2. ASSUME NEW c \in Controller, Tick(c) \/ Die(c) PROVE LatchInv'
  <2>1. CASE \/ TickStart(c) \/ TickLoad(c) \/ Survey(c) \/ Prepare(c) \/ RecordAttempt(c)
    <3>1. UNCHANGED <<auth, spent>>
      BY <2>1 DEF TickStart, TickLoad, Survey, Prepare, RecordAttempt, Quiet, tables, records
    <3> QED BY <2>1, <3>1, StartsCalm, UnreadLatch
  <2>2. CASE Authorize(c) \/ Authorized(c) \/ Reload(c) \/ SignFailed(c) \/ SendGate(c)
    <3>1. UNCHANGED <<auth, spent>>
      BY <2>2 DEF Authorize, Authorized, Reload, SignFailed, SendGate, Quiet, tables, records
    <3>2. Unread \/ Dial(c)
      BY <2>2, SignsCalm
    <3> QED BY <3>1, <3>2, UnreadLatch, ReadsLatch
  <2>3. CASE Dial(c) \/ PostOnce(c) \/ PollFound(c)
    BY <2>3, ReadsLatch
  <2>4. CASE Persist(c) \/ MarkSubmitted(c) \/ MarkConfirmed(c)
    BY <2>4, SavesLatch
  <2>5. CASE Reserve(c)
    BY <2>5, ReserveLatch
  <2>6. CASE TickReconcile(c) \/ SetSubmitted(c) \/ SetConfirmed(c)
    <3>1. UNCHANGED <<auth, spent>>
      BY <2>6 DEF TickReconcile, SetSubmitted, SetConfirmed, SetSendStatus, tables
    <3> QED BY <2>6, <3>1, StatusStill, UnreadLatch
  <2>7. CASE PollSettled(c) \/ PollMissing(c) \/ PollBad(c) \/ Caught(c) \/ Halt(c) \/ Die(c)
    <3>1. UNCHANGED <<auth, spent>>
      BY <2>7 DEF PollSettled, PollMissing, PollBad, Caught, Halt, Die, Quiet, tables, records
    <3> QED BY <2>7, <3>1, EndsCalm, UnreadLatch
  <2>8. CASE Resign(c)
    BY <2>8, ResignLatch
  <2>9. CASE ReadPointer(c) \/ AdvancePointer(c)
    <3>1. UNCHANGED <<auth, spent>>
      BY <2>9 DEF ReadPointer, AdvancePointer, Quiet, tables, records
    <3>2. Goto(c, "setconf") \/ Goto(c, "advance") \/ Abandon(c)
      BY <2>9 DEF ReadPointer, AdvancePointer
    <3>3. Unread
      <4>1. \A to : [ctl[c] EXCEPT !.pc = to].pc = to
        BY DEF TypeInv, TickType, Sound, Held
      <4>2. CASE Abandon(c)
        BY <4>2, EndCalm DEF Unread, Saving
      <4>3. CASE Goto(c, "setconf") \/ Goto(c, "advance")
        BY <4>1, <4>3 DEF Goto, Hold, Unread, Saving, TypeInv, TickType
      <4> QED BY <3>2, <4>2, <4>3
    <3> QED BY <3>1, <3>3, UnreadLatch
  <2> QED BY <1>2, <2>1, <2>2, <2>3, <2>4, <2>5, <2>6, <2>7, <2>8, <2>9 DEF Tick
<1>3. CASE UNCHANGED vars
  <2>1. Unread /\ UNCHANGED <<auth, spent>>
    BY <1>3 DEF vars, Unread, tables, records
  <2> QED BY <2>1, UnreadLatch
<1> QED BY <1>1, <1>2, <1>3 DEF Next

\* Whichever of the two it is.
BarInv == (MaxTime <= Retention => KeptInv) /\ (Single => LatchInv)

LEMMA BarInvBars == ASSUME NoStaleTick PROVE TypeInv /\ BarInv => Barred
BY DEF NoStaleTick, Single, BarInv, KeptInv, LatchInv, Barred, Taken, Reservable

LEMMA BarInit == Init => BarInv
BY DEF Init, BarInv, KeptInv, LatchInv, Saving, NoTick

LEMMA BarStep == TypeInv /\ BarInv /\ [Next]_vars => BarInv'
BY KeptStep, LatchStep DEF BarInv, Single

\* One POST for a tree, ever, under a reservation of its own and of what that
\* reservation names, whatever is lost, re-signed or dies: reserve_automatic_send's
\* row, latch and job in one transaction are enough.  It holds for one controller
\* whatever records set_automatic_send_status deletes, because the latch it leaves
\* behind outlives them, and for any number of them as long as none is old enough.
THEOREM AtMostOnePost == ASSUME NoStaleTick PROVE Spec => []OnePostPerTree
<1>1. Init => PostInv /\ BarInv
  BY PostInit, BarInit
<1>2. TypeInv /\ BarInv /\ PostInv /\ [Next]_vars => BarInv' /\ PostInv'
  BY PostStep, BarStep, BarInvBars
<1> QED BY <1>1, <1>2, AlwaysTyped, PostInvImpliesOnePost, PTL DEF Spec

-----------------------------------------------------------------------------
(* Nothing is confirmed that no block contains *)

Tracing(c) == ctl[c].pc \in {"markconf", "pointer", "advance"}

\* A tick on its way to the pointer has seen its transaction in a block.
TraceInv ==
    /\ ConfirmedOnChain
    /\ \A c \in Controller : Tracing(c) => <<ctl[c].size, ctl[c].row.expected>> \in chain

LEMMA StillStep == ASSUME TypeInv, TraceInv, Still PROVE TraceInv'
<1>1. ConfirmedOnChain'
  BY DEF TraceInv, ConfirmedOnChain, Still
<1>2. \A c \in Controller : Tracing(c)' => ctl'[c] = ctl[c] /\ Tracing(c)
  BY DEF Still, Tracing
<1> QED BY <1>1, <1>2 DEF TraceInv, Still

LEMMA HoldTraces ==
    ASSUME TypeInv, TraceInv, NEW c \in Controller, NEW k, Hold(c, k),
           <<k.size, k.row.expected>> \in chain, UNCHANGED <<anchors, confirmed, chain>>
    PROVE  TraceInv'
<1>1. \A d \in Controller : ctl'[d] = IF d = c THEN k ELSE ctl[d]
  BY DEF Hold, TypeInv, TickType
<1> QED BY <1>1 DEF TraceInv, ConfirmedOnChain, Tracing

LEMMA LeaveStill ==
    ASSUME TypeInv, NEW c \in Controller, UNCHANGED <<anchors, confirmed, chain>>,
           Goto(c, "setconf") \/ Abandon(c) \/ \E err \in Errors : Raise(c, err)
    PROVE  Still
<1>1. "setconf" \notin Watched
  OBVIOUS
<1>2. \A d \in Controller : ctl'[d].pc \in Watched => ctl'[d] = ctl[d]
  BY <1>1, GotoCalm
<1> QED BY <1>2 DEF Still

LEMMA FoundTraces ==
    ASSUME TypeInv, TraceInv, NEW c \in Controller,
           PollFound(c) \/ MarkConfirmed(c) \/ ReadPointer(c)
    PROVE  TraceInv'
<1> DEFINE k == ctl[c]
<1>1. k \in Held
  BY DEF TypeInv, TickType, Sound
<1>2. UNCHANGED <<anchors, confirmed, chain>>
  BY DEF PollFound, MarkConfirmed, Mark, ReadPointer, Quiet
<1>3. CASE PollFound(c)
  <2> DEFINE h == [k EXCEPT !.pc = "markconf", !.seen = auth[k.size]]
  <2>1. h.size = k.size /\ h.row = k.row
    BY <1>1 DEF Held
  <2>2. Hold(c, h) /\ <<k.size, k.row.expected>> \in chain
    BY <1>3 DEF PollFound, Found
  <2> HIDE DEF h
  <2> QED BY <1>2, <2>1, <2>2, HoldTraces
<1>4. ASSUME At(c, "markconf") \/ At(c, "pointer")
      PROVE  <<k.size, k.row.expected>> \in chain
  BY <1>4 DEF At, TraceInv, Tracing
<1>5. CASE MarkConfirmed(c)
  <2> DEFINE new == [k.row EXCEPT !.state = "CONFIRMED"]
             h == [k EXCEPT !.pc = "pointer", !.seen = None, !.row = @]
  <2>1. CASE SaveVerdict(k.seen, new) = "refuse"
    <3>1. Raise(c, "store")
      BY <1>5, <2>1 DEF MarkConfirmed, Mark
    <3> QED BY <1>2, <3>1, LeaveStill, StillStep DEF Errors
  <2>2. CASE SaveVerdict(k.seen, new) # "refuse"
    <3>1. Hold(c, h)
      BY <1>5, <2>2 DEF MarkConfirmed, Mark
    <3>2. h.size = k.size /\ h.row = k.row
      BY <1>1 DEF Held
    <3>3. <<k.size, k.row.expected>> \in chain
      BY <1>4, <1>5 DEF MarkConfirmed, Mark
    <3> HIDE DEF h
    <3> QED BY <1>2, <3>1, <3>2, <3>3, HoldTraces
  <2> QED BY <2>1, <2>2
<1>6. CASE ReadPointer(c)
  <2>1. <<k.size, k.row.expected>> \in chain
    BY <1>4, <1>6 DEF ReadPointer
  <2>2. CASE Abandon(c) \/ Goto(c, "setconf")
    BY <1>2, <2>2, LeaveStill, StillStep
  <2>3. CASE Goto(c, "advance")
    <3> DEFINE h == [k EXCEPT !.pc = "advance"]
    <3>1. Hold(c, h)
      BY <2>3 DEF Goto
    <3>2. h.size = k.size /\ h.row = k.row
      BY <1>1 DEF Held
    <3> HIDE DEF h
    <3> QED BY <1>2, <2>1, <3>1, <3>2, HoldTraces
  <2> QED BY <1>6, <2>2, <2>3 DEF ReadPointer
<1> QED BY <1>3, <1>5, <1>6

\* The pointer and its row are written with what was found in the block.
LEMMA AdvanceTraces ==
    ASSUME TypeInv, TraceInv, NEW c \in Controller, AdvancePointer(c)
    PROVE  TraceInv'
<1> DEFINE k == ctl[c]
           txid == k.row.expected
<1>1. k.size \in Tree /\ <<k.size, txid>> \in chain
  BY DEF AdvancePointer, At, TraceInv, Tracing, TypeInv, TickType, Sound, JobPcs, Pcs
<1>2. UNCHANGED chain /\ SaveConfirmed(k.size, txid)
  BY DEF AdvancePointer
<1>3. \A d \in Controller : ctl'[d].pc \in Watched => ctl'[d] = ctl[d]
  <2>1. "setconf" \notin Watched
    OBVIOUS
  <2> QED BY <2>1, GotoCalm DEF AdvancePointer
<1>4. \A d \in Controller : Tracing(d)' => <<ctl'[d].size, ctl'[d].row.expected>> \in chain'
  BY <1>2, <1>3 DEF TraceInv, Tracing
<1>5. ConfirmedOnChain'
  <2>1. CASE anchors[k.size] # None
    BY <1>2, <2>1 DEF SaveConfirmed, TraceInv, ConfirmedOnChain
  <2>2. CASE anchors[k.size] = None
    <3>1. /\ anchors' = [anchors EXCEPT ![k.size] = txid]
          /\ confirmed' = [size |-> k.size, txid |-> txid]
      BY <1>2, <2>2 DEF SaveConfirmed
    <3>2. \A t \in Tree : anchors'[t] = IF t = k.size THEN txid ELSE anchors[t]
      BY <3>1 DEF TypeInv, ConfirmType
    <3>3. confirmed'.size = k.size /\ confirmed'.txid = txid
      BY <3>1
    <3> QED BY <1>1, <1>2, <3>2, <3>3 DEF TraceInv, ConfirmedOnChain
  <2> QED BY <2>1, <2>2
<1> QED BY <1>4, <1>5 DEF TraceInv

LEMMA PostTraces ==
    ASSUME TypeInv, TraceInv, NEW c \in Controller, Reserve(c) \/ PostOnce(c)
    PROVE  TraceInv'
<1> DEFINE k == ctl[c]
<1>1. k \in Held
  BY DEF TypeInv, TickType, Sound
<1>2. UNCHANGED <<anchors, confirmed, chain>>
  BY DEF Reserve, PostOnce, Post
<1>3. \/ \E err \in Errors : Raise(c, err)
      \/ \E row : Hold(c, [k EXCEPT !.pc = "post", !.row = row])
      \/ \E seen : Hold(c, [k EXCEPT !.pc = "marksub", !.seen = seen])
  <2>1. "cap" \in Errors /\ "store" \in Errors /\ "plain" \in Errors
    BY DEF Errors
  <2>2. CASE Reserve(c)
    BY <2>1, <2>2 DEF Reserve
  <2>3. CASE PostOnce(c)
    BY <2>1, <2>3 DEF PostOnce
  <2> QED BY <2>2, <2>3
<1>4. CASE \E err \in Errors : Raise(c, err)
  BY <1>2, <1>4, LeaveStill, StillStep
<1>5. ASSUME NEW h, Hold(c, h), h.pc \in {"post", "marksub"} PROVE TraceInv'
  <2>1. Still
    BY <1>2, <1>5 DEF Hold, Still, TypeInv, TickType
  <2> QED BY <2>1, StillStep
<1>6. \A x : /\ [k EXCEPT !.pc = "post", !.row = x].pc = "post"
             /\ [k EXCEPT !.pc = "marksub", !.seen = x].pc = "marksub"
  BY <1>1 DEF Held
<1> QED BY <1>3, <1>4, <1>5, <1>6

LEMMA TraceStep == TypeInv /\ TraceInv /\ [Next]_vars => TraceInv'
<1> SUFFICES ASSUME TypeInv, TraceInv, [Next]_vars PROVE TraceInv'
  OBVIOUS
<1>1. CASE World
  BY <1>1, WorldCalm, StillStep
<1>2. ASSUME NEW c \in Controller, Tick(c) \/ Die(c) PROVE TraceInv'
  <2>1. CASE \/ TickStart(c) \/ TickLoad(c) \/ Survey(c) \/ Prepare(c) \/ RecordAttempt(c)
    BY <2>1, StartsCalm, StillStep
  <2>2. CASE \/ Authorize(c) \/ Dial(c) \/ Persist(c) \/ Authorized(c) \/ Reload(c)
             \/ SignFailed(c) \/ SendGate(c)
    BY <2>2, SignsCalm, StillStep
  <2>3. CASE Reserve(c) \/ PostOnce(c)
    BY <2>3, PostTraces
  <2>4. CASE MarkSubmitted(c)
    BY <2>4, MarkCalm, StillStep DEF MarkSubmitted
  <2>5. CASE TickReconcile(c) \/ SetSubmitted(c) \/ SetConfirmed(c)
    BY <2>5, StatusStill, StillStep
  <2>6. CASE \/ PollSettled(c) \/ PollMissing(c) \/ PollBad(c) \/ Caught(c) \/ Resign(c)
             \/ Halt(c) \/ Die(c)
    BY <2>6, EndsCalm, StillStep
  <2>7. CASE PollFound(c) \/ MarkConfirmed(c) \/ ReadPointer(c)
    BY <2>7, FoundTraces
  <2>8. CASE AdvancePointer(c)
    BY <2>8, AdvanceTraces
  <2> QED BY <1>2, <2>1, <2>2, <2>3, <2>4, <2>5, <2>6, <2>7, <2>8 DEF Tick
<1>3. CASE UNCHANGED vars
  <2>1. Still
    BY <1>3 DEF vars, Still
  <2> QED BY <2>1, StillStep
<1> QED BY <1>1, <1>2, <1>3 DEF Next

LEMMA TraceInit == Init => TraceInv
BY DEF Init, StoreInit, TraceInv, ConfirmedOnChain, Tracing, NoTick

\* Whatever ticks, deaths and stale reads there are, the confirmed pointer and
\* every confirmed row name a transaction that a block contains: only what
\* poll_expected fetched and verified reaches save_confirmed_checkpoint.
THEOREM OnlyMinedConfirmed == Spec => []ConfirmedOnChain
<1>1. TraceInv => ConfirmedOnChain
  BY DEF TraceInv
<1> QED BY <1>1, TraceInit, TraceStep, AlwaysTyped, PTL DEF Spec

-----------------------------------------------------------------------------
(* The budget *)

\* A reservation is kept in the table of sends, or was deleted from it after its
\* retention, which then is over for every tick that still runs.
Kept(s, table) ==
    /\ table[s.tree] # None
    /\ table[s.tree].at = s.at /\ table[s.tree].fee = s.fee
Gone(s, now, ticks) ==
    /\ s.at + Retention < now
    /\ \A c \in Controller : ticks[c].pc # "idle" => s.at + Retention < ticks[c].when

SpendInv ==
    /\ IsFiniteSet(Exists(sends)) /\ IsFiniteSet(spent)
    /\ \A s \in spent : Kept(s, sends) \/ Gone(s, clock, ctl)
    /\ \A c \in Controller : ctl[c].pc # "idle" => ctl[c].when <= clock
    /\ BudgetKept

\* A tick keeps the time it began with.
Onward(c) == \E k : Hold(c, k) /\ (k.pc = "idle" \/ k.when = ctl[c].when)
Paced ==
    /\ clock <= clock'
    /\ \A d \in Controller :
          \/ ctl'[d].pc = "idle"
          \/ ctl'[d].when = clock
          \/ ctl[d].pc # "idle" /\ ctl'[d].when = ctl[d].when

LEMMA OnwardPaced ==
    ASSUME TypeInv, NEW c \in Controller, Onward(c), ctl[c].pc # "idle", UNCHANGED clock
    PROVE  Paced
<1>1. PICK k : Hold(c, k) /\ (k.pc = "idle" \/ k.when = ctl[c].when)
  BY DEF Onward
<1>2. \A d \in Controller : ctl'[d] = IF d = c THEN k ELSE ctl[d]
  BY <1>1 DEF Hold, TypeInv, TickType
<1>3. clock <= clock'
  BY DEF TypeInv, WorldType, Time
<1>4. \A d \in Controller : ctl[d].pc = "idle" \/ ctl[d].pc # "idle"
  OBVIOUS
<1> QED BY <1>1, <1>2, <1>3, <1>4 DEF Paced

LEMMA MoveOnward ==
    ASSUME TypeInv, NEW c \in Controller,
           \/ \E to : Goto(c, to)
           \/ EndTick(c)
           \/ Abandon(c)
           \/ \E err : Raise(c, err)
    PROVE  Onward(c)
<1>1. ctl[c] \in Held
  BY DEF TypeInv, TickType
<1>2. /\ \A to : [ctl[c] EXCEPT !.pc = to].when = ctl[c].when
      /\ \A err : [ctl[c] EXCEPT !.pc = "caught", !.err = err].when = ctl[c].when
      /\ NoTick.pc = "idle"
  BY <1>1 DEF Held, NoTick
<1>3. EndTick(c) \/ (\E to : Goto(c, to)) \/ (\E err : Raise(c, err))
  BY DEF Abandon
<1> QED BY <1>2, <1>3 DEF Goto, EndTick, Raise, Onward

LEMMA ProceedOnward ==
    ASSUME TypeInv, NEW c \in Controller, NEW k \in Held, k.when = ctl[c].when, NEW row,
           Hold(c, Proceed(k, row))
    PROVE  Onward(c)
<1>1. /\ [k EXCEPT !.pc = "halt"].when = k.when
      /\ [k EXCEPT !.pc = "poll", !.row = row].when = k.when
      /\ [k EXCEPT !.pc = "send", !.row = row].when = k.when
      /\ NoTick.pc = "idle"
  BY DEF Held, NoTick
<1>2. Proceed(k, row).pc = "idle" \/ Proceed(k, row).when = k.when
  BY <1>1 DEF Proceed
<1> QED BY <1>2 DEF Onward

LEMMA RowOnward ==
    ASSUME TypeInv, NEW c \in Controller,
           \/ \E to, row : Hold(c, [ctl[c] EXCEPT !.pc = to, !.row = row])
           \/ \E to, seen : Hold(c, [ctl[c] EXCEPT !.pc = to, !.seen = seen])
           \/ \E to, row : Hold(c, [ctl[c] EXCEPT !.pc = to, !.seen = None, !.row = row])
    PROVE  Onward(c)
<1>1. ctl[c] \in Held
  BY DEF TypeInv, TickType
<1>2. ASSUME NEW k, Hold(c, k), k.when = ctl[c].when PROVE Onward(c)
  BY <1>2 DEF Onward
<1>3. ASSUME NEW to, NEW row, Hold(c, [ctl[c] EXCEPT !.pc = to, !.row = row]) PROVE Onward(c)
  <2>1. [ctl[c] EXCEPT !.pc = to, !.row = row].when = ctl[c].when
    BY <1>1 DEF Held
  <2> QED BY <1>2, <1>3, <2>1
<1>4. ASSUME NEW to, NEW seen, Hold(c, [ctl[c] EXCEPT !.pc = to, !.seen = seen]) PROVE Onward(c)
  <2>1. [ctl[c] EXCEPT !.pc = to, !.seen = seen].when = ctl[c].when
    BY <1>1 DEF Held
  <2> QED BY <1>2, <1>4, <2>1
<1>5. ASSUME NEW to, NEW row, Hold(c, [ctl[c] EXCEPT !.pc = to, !.seen = None, !.row = row])
      PROVE  Onward(c)
  <2>1. [ctl[c] EXCEPT !.pc = to, !.seen = None, !.row = row].when = ctl[c].when
    BY <1>1 DEF Held
  <2> QED BY <1>2, <1>5, <2>1
<1> QED BY <1>3, <1>4, <1>5

LEMMA BeginsOnward ==
    ASSUME TypeInv, NEW c \in Controller,
           \/ TickLoad(c) \/ TickReconcile(c) \/ Survey(c) \/ Prepare(c) \/ RecordAttempt(c)
    PROVE  Onward(c)
<1> DEFINE k == ctl[c]
<1>1. k \in Held
  BY DEF TypeInv, TickType
<1>2. CASE TickLoad(c)
  <2>1. PICK j \in Tree \cup {0} :
          LET held == [k EXCEPT !.size = j, !.req = jobs[j].req, !.resigns = jobs[j].resigns]
          IN  \/ Hold(c, [k EXCEPT !.pc = "reconcile", !.size = j])
              \/ Goto(c, "survey")
              \/ EndTick(c)
              \/ Hold(c, [held EXCEPT !.pc = IF k.when > held.req.at + SnapshotMaxAge
                                             THEN "halt" ELSE "attempt"])
              \/ IsLastJob(j) /\ Open(k, j) /\ Hold(c, Proceed(held, auth[j]))
    BY <1>2 DEF TickLoad
  <2> DEFINE held == [k EXCEPT !.size = j, !.req = jobs[j].req, !.resigns = jobs[j].resigns]
  <2>2. /\ [k EXCEPT !.pc = "reconcile", !.size = j].when = k.when
        /\ held.when = k.when
        /\ \A to : [held EXCEPT !.pc = to].when = k.when
    BY <1>1 DEF Held
  <2>3. CASE IsLastJob(j) /\ Open(k, j) /\ Hold(c, Proceed(held, auth[j]))
    <3>1. j # 0
      <4>1. k.conf.size \in Nat
        BY <1>1 DEF Held
      <4> QED BY <2>3, <4>1 DEF Open
    <3>2. jobs[j] \in Job /\ j \in Nat
      BY <2>3, <3>1, TreeSize DEF IsLastJob, Exists, TypeInv, JobType
    <3>3. held \in Held
      <4>1. jobs[j].req \in Request /\ jobs[j].resigns \in Nat
        BY <3>2 DEF Job
      <4> QED BY <1>1, <3>2, <4>1 DEF Held
    <3> HIDE DEF held
    <3> QED BY <2>2, <2>3, <3>3, ProceedOnward
  <2>4. CASE Goto(c, "survey") \/ EndTick(c)
    BY <2>4, MoveOnward
  <2> QED BY <2>1, <2>2, <2>3, <2>4 DEF Onward
<1>3. CASE TickReconcile(c) \/ Survey(c)
  BY <1>3, MoveOnward DEF TickReconcile, Survey
<1>4. CASE Prepare(c)
  <2>1. \A r : [k EXCEPT !.pc = "attempt", !.size = tree, !.req = r].when = k.when
    BY <1>1 DEF Held
  <2>2. EndTick(c) \/ \E r : Hold(c, [k EXCEPT !.pc = "attempt", !.size = tree, !.req = r])
    BY <1>4 DEF Prepare
  <2> QED BY <2>1, <2>2, MoveOnward DEF Onward
<1>5. CASE RecordAttempt(c)
  <2>1. [k EXCEPT !.pc = "authorize", !.req = jobs[k.size].req].when = k.when
    BY <1>1 DEF Held
  <2>2. \/ Goto(c, "signfail")
        \/ Hold(c, [k EXCEPT !.pc = "authorize", !.req = jobs[k.size].req])
    BY <1>5 DEF RecordAttempt
  <2> QED BY <2>1, <2>2, MoveOnward DEF Onward
<1> QED BY <1>2, <1>3, <1>4, <1>5

LEMMA SignsOnward ==
    ASSUME TypeInv, NEW c \in Controller,
           \/ Authorize(c) \/ Dial(c) \/ Persist(c) \/ Authorized(c) \/ Reload(c)
           \/ SignFailed(c) \/ SendGate(c) \/ Reserve(c) \/ PostOnce(c)
    PROVE  Onward(c)
<1> DEFINE k == ctl[c]
<1>1. k \in Held
  BY DEF TypeInv, TickType
<1>2. CASE Authorize(c)
  <2>1. (\E to : Goto(c, to)) \/ \E row : Hold(c, [k EXCEPT !.pc = "authorized", !.row = row])
    BY <1>2 DEF Authorize
  <2> QED BY <2>1, MoveOnward, RowOnward
<1>3. CASE Dial(c) \/ PostOnce(c)
  <2>1. \/ Goto(c, "signfail")
        \/ Raise(c, "plain")
        \/ Hold(c, [k EXCEPT !.pc = "persist", !.seen = auth[k.size]])
        \/ Hold(c, [k EXCEPT !.pc = "marksub", !.seen = auth[k.size]])
    BY <1>3 DEF Dial, PostOnce
  <2> QED BY <2>1, MoveOnward, RowOnward
<1>4. CASE Persist(c)
  <2>1. \/ Goto(c, "signfail")
        \/ \E row : Hold(c, [k EXCEPT !.pc = "authorized", !.seen = None, !.row = row])
    BY <1>4 DEF Persist
  <2> QED BY <2>1, MoveOnward, RowOnward
<1>5. CASE Authorized(c) \/ SignFailed(c) \/ SendGate(c)
  <2>1. EndTick(c) \/ Abandon(c) \/ (\E to : Goto(c, to)) \/ (\E err : Raise(c, err))
    BY <1>5 DEF Authorized, SignFailed, SendGate
  <2> QED BY <2>1, MoveOnward
<1>6. CASE Reload(c)
  <2> DEFINE j == jobs[k.size]
             h == IF j = None THEN k ELSE [k EXCEPT !.req = j.req, !.resigns = j.resigns]
  <2>1. k.size \in Tree
    BY <1>6 DEF Reload, At, TypeInv, TickType, Sound, JobPcs, Pcs
  <2>2. j \in Job \cup {None}
    BY <2>1 DEF TypeInv, JobType
  <2>3. h \in Held /\ h.when = k.when
    <3>1. j # None => j.req \in Request /\ j.resigns \in Nat
      BY <2>2 DEF Job
    <3> QED BY <1>1, <3>1 DEF Held
  <2>4. Hold(c, Proceed(h, k.row))
    BY <1>6 DEF Reload
  <2> HIDE DEF h
  <2> QED BY <2>3, <2>4, ProceedOnward
<1>7. CASE Reserve(c)
  <2>1. (\E err : Raise(c, err)) \/ \E row : Hold(c, [k EXCEPT !.pc = "post", !.row = row])
    BY <1>7 DEF Reserve
  <2> QED BY <2>1, MoveOnward, RowOnward
<1> QED BY <1>2, <1>3, <1>4, <1>5, <1>6, <1>7

LEMMA EndsOnward ==
    ASSUME TypeInv, NEW c \in Controller,
           \/ MarkSubmitted(c) \/ SetSubmitted(c) \/ PollSettled(c) \/ PollFound(c)
           \/ PollMissing(c) \/ PollBad(c) \/ MarkConfirmed(c) \/ ReadPointer(c)
           \/ AdvancePointer(c) \/ SetConfirmed(c) \/ Caught(c) \/ Resign(c) \/ Halt(c) \/ Die(c)
    PROVE  Onward(c)
<1> DEFINE k == ctl[c]
<1>1. k \in Held
  BY DEF TypeInv, TickType
<1>2. CASE MarkSubmitted(c) \/ MarkConfirmed(c)
  <2>1. \/ \E err : Raise(c, err)
        \/ \E to, row : Hold(c, [k EXCEPT !.pc = to, !.seen = None, !.row = row])
    BY <1>2 DEF MarkSubmitted, MarkConfirmed, Mark
  <2> QED BY <2>1, MoveOnward, RowOnward
<1>3. CASE \/ SetSubmitted(c) \/ SetConfirmed(c) \/ PollSettled(c) \/ PollMissing(c) \/ PollBad(c)
           \/ ReadPointer(c) \/ AdvancePointer(c) \/ Caught(c) \/ Halt(c) \/ Die(c)
  <2>1. EndTick(c) \/ Abandon(c) \/ (\E to : Goto(c, to)) \/ (\E err : Raise(c, err))
    BY <1>3 DEF SetSubmitted, SetConfirmed, SetSendStatus, PollSettled, PollMissing, PollBad,
                ReadPointer, AdvancePointer, Caught, Halt, Die
  <2> QED BY <2>1, MoveOnward
<1>4. CASE PollFound(c)
  BY <1>4, RowOnward DEF PollFound
<1>5. CASE Resign(c)
  <2>1. /\ \A r : [k EXCEPT !.pc = "attempt", !.flow = "resign", !.req = r, !.resigns = 1,
                            !.row = None].when = k.when
        /\ [k EXCEPT !.flow = "resign", !.pc = "caught", !.err = "plain"].when = k.when
    BY <1>1 DEF Held
  <2>2. \/ \E r : Hold(c, [k EXCEPT !.pc = "attempt", !.flow = "resign", !.req = r, !.resigns = 1,
                                    !.row = None])
        \/ Hold(c, [k EXCEPT !.flow = "resign", !.pc = "caught", !.err = "plain"])
    BY <1>5 DEF Resign
  <2> QED BY <2>1, <2>2 DEF Onward
<1> QED BY <1>2, <1>3, <1>4, <1>5

\* Time never goes back, for a tick or for all.
LEMMA PacedStep == ASSUME TypeInv, [Next]_vars PROVE Paced
<1>1. ASSUME UNCHANGED ctl, clock <= clock' PROVE Paced
  <2>1. \A d \in Controller : ctl[d].pc = "idle" \/ ctl[d].pc # "idle"
    OBVIOUS
  <2> QED BY <1>1, <2>1 DEF Paced
<1>2. clock \in Nat
  BY DEF TypeInv, WorldType, Time
<1>3. CASE World
  <2>1. UNCHANGED ctl /\ (clock' = clock \/ clock' = clock + 1)
    BY <1>3 DEF World, ClockTick, Include, Grow
  <2> QED BY <1>1, <1>2, <2>1
<1>4. ASSUME NEW c \in Controller, TickStart(c) PROVE Paced
  <2> DEFINE k == [NoTick EXCEPT !.pc = "load", !.when = clock, !.conf = confirmed]
  <2>1. k.when = clock
    BY DEF NoTick
  <2>2. Hold(c, k) /\ UNCHANGED clock
    BY <1>4 DEF TickStart, Quiet
  <2> HIDE DEF k
  <2>3. \A d \in Controller : ctl'[d] = IF d = c THEN k ELSE ctl[d]
    BY <2>2 DEF Hold, TypeInv, TickType
  <2>4. \A d \in Controller : ctl[d].pc = "idle" \/ ctl[d].pc # "idle"
    OBVIOUS
  <2>5. clock <= clock'
    BY <1>2, <2>2
  <2> QED BY <2>1, <2>3, <2>4, <2>5 DEF Paced
<1>5. ASSUME NEW c \in Controller, Tick(c) \/ Die(c), ~TickStart(c) PROVE Paced
  <2>1. Onward(c)
    BY <1>5, BeginsOnward, SignsOnward, EndsOnward DEF Tick
  <2>2. ctl[c].pc # "idle" /\ UNCHANGED clock
    <3>1. CASE \/ TickLoad(c) \/ TickReconcile(c) \/ Survey(c) \/ Prepare(c) \/ RecordAttempt(c)
               \/ Authorize(c) \/ Dial(c) \/ Persist(c) \/ Authorized(c) \/ Reload(c)
               \/ SignFailed(c) \/ SendGate(c) \/ Reserve(c) \/ PostOnce(c)
      BY <3>1 DEF TickLoad, TickReconcile, Survey, Prepare, RecordAttempt, Authorize, Dial, Persist,
                  Authorized, Reload, SignFailed, SendGate, Reserve, PostOnce, At, Quiet
    <3>2. CASE \/ MarkSubmitted(c) \/ SetSubmitted(c) \/ PollSettled(c) \/ PollFound(c)
               \/ PollMissing(c) \/ PollBad(c) \/ MarkConfirmed(c) \/ ReadPointer(c)
               \/ AdvancePointer(c) \/ SetConfirmed(c) \/ Caught(c) \/ Resign(c) \/ Halt(c)
               \/ Die(c)
      BY <3>2 DEF MarkSubmitted, MarkConfirmed, Mark, SetSubmitted, SetConfirmed, SetSendStatus,
                  PollSettled, PollFound, PollMissing, PollBad, Polling, ReadPointer,
                  AdvancePointer, Caught, Resign, Halt, Die, At, Quiet
    <3> QED BY <1>5, <3>1, <3>2 DEF Tick
  <2> QED BY <2>1, <2>2, OnwardPaced
<1>6. CASE UNCHANGED vars
  BY <1>1, <1>2, <1>6 DEF vars
<1> QED BY <1>3, <1>4, <1>5, <1>6 DEF Next

\* A step that reserves nothing.
LEMMA SpendMoves ==
    ASSUME TypeInv, TypeInv', SpendInv, Paced, UNCHANGED spent,
           Exists(sends)' \subseteq Exists(sends),
           \A s \in spent : Kept(s, sends) => Kept(s, sends') \/ Gone(s, clock', ctl')
    PROVE  SpendInv'
<1>1. IsFiniteSet(Exists(sends)') /\ IsFiniteSet(spent')
  BY FS_Subset DEF SpendInv
<1>2. BudgetKept'
  BY DEF SpendInv, BudgetKept
<1>3. clock \in Nat /\ clock' \in Nat /\ \A c \in Controller : ctl[c].when \in Nat /\ ctl'[c].when \in Nat
  BY DEF TypeInv, WorldType, TickType, Held, Time
<1>4. \A c \in Controller : ctl'[c].pc # "idle" => ctl'[c].when <= clock'
  BY <1>3 DEF SpendInv, Paced
<1>5. ASSUME NEW s \in spent, Gone(s, clock, ctl) PROVE Gone(s, clock', ctl')
  <2>1. s.at + Retention \in Nat
    BY BudgetAssumption DEF TypeInv, SendType, Time
  <2>2. s.at + Retention < clock'
    BY <1>3, <1>5, <2>1 DEF Paced, Gone
  <2>3. ASSUME NEW c \in Controller, ctl'[c].pc # "idle" PROVE s.at + Retention < ctl'[c].when
    BY <1>3, <1>5, <2>1, <2>3 DEF Paced, Gone
  <2> QED BY <2>2, <2>3 DEF Gone
<1>6. \A s \in spent' : Kept(s, sends') \/ Gone(s, clock', ctl')
  BY <1>5 DEF SpendInv
<1> QED BY <1>1, <1>2, <1>4, <1>6 DEF SpendInv

\* A status changes no fee and no time, and only what is past its retention goes.
LEMMA SetSendDrops ==
    ASSUME TypeInv, NEW t \in Tree, NEW want \in SendState, NEW when \in Time,
           SendMay(t, want), SetSend(t, want, when)
    PROVE  \A u \in Tree :
              /\ sends[u] = None => sends'[u] = None
              /\ sends[u] # None =>
                    \/ sends'[u] # None /\ sends'[u].at = sends[u].at /\ sends'[u].fee = sends[u].fee
                    \/ sends[u].at + Retention < when
<1> DEFINE s == [sends EXCEPT ![t].status = want]
<1>1. sends \in [Tree -> Send \cup {None}] /\ sends[t] \in Send /\ sends[t] # None
  BY DEF TypeInv, SendType, SendMay
<1>2. /\ [sends[t] EXCEPT !.status = want] \in Send
      /\ [sends[t] EXCEPT !.status = want].at = sends[t].at
      /\ [sends[t] EXCEPT !.status = want].fee = sends[t].fee
  BY <1>1 DEF Send
<1>3. s[t] = [sends[t] EXCEPT !.status = want] /\ \A u \in Tree : u # t => s[u] = sends[u]
  BY <1>1
<1>4. sends' = [u \in Tree |-> IF want = "CONFIRMED" /\ s[u] # None /\ Old(s[u], s[u].at, when)
                               THEN None ELSE s[u]]
  BY DEF SetSend
<1>5. s[t] # None
  BY <1>2, <1>3, RowAssumption
<1> HIDE DEF s
<1> SUFFICES ASSUME NEW u \in Tree
             PROVE  /\ sends[u] = None => sends'[u] = None
                    /\ sends[u] # None =>
                          \/ /\ sends'[u] # None /\ sends'[u].at = sends[u].at
                             /\ sends'[u].fee = sends[u].fee
                          \/ sends[u].at + Retention < when
  OBVIOUS
<1>6. s[u] = None <=> sends[u] = None
  BY <1>1, <1>3, <1>5
<1>7. sends[u] # None => s[u].at = sends[u].at /\ s[u].fee = sends[u].fee
  BY <1>2, <1>3
<1>8. sends'[u] = s[u] \/ (sends'[u] = None /\ s[u] # None /\ s[u].at + Retention < when)
  BY <1>4 DEF Old
<1> QED BY <1>6, <1>7, <1>8

LEMMA StatusSpends ==
    ASSUME NoStaleTick, TypeInv, TypeInv', SpendInv, NEW c \in Controller, Paced,
           TickReconcile(c) \/ SetSubmitted(c) \/ SetConfirmed(c)
    PROVE  SpendInv'
<1> DEFINE k == ctl[c]
<1>1. k.size \in Tree /\ k.when \in Time /\ k.pc # "idle"
  BY DEF TickReconcile, SetSubmitted, SetConfirmed, SetSendStatus, At, TypeInv, TickType, Sound,
         JobPcs, Pcs
<1>2. \E want \in SendState :
         (SendMay(k.size, want) /\ SetSend(k.size, want, k.when)) \/ UNCHANGED sends
  BY DEF TickReconcile, SetSubmitted, SetConfirmed, SetSendStatus, SendState
<1>3. \A u \in Tree :
         /\ sends[u] = None => sends'[u] = None
         /\ sends[u] # None =>
               \/ sends'[u] # None /\ sends'[u].at = sends[u].at /\ sends'[u].fee = sends[u].fee
               \/ sends[u].at + Retention < k.when
  BY <1>1, <1>2, SetSendDrops
<1>4. UNCHANGED <<spent, clock>>
  BY DEF TickReconcile, SetSubmitted, SetConfirmed, SetSendStatus
<1>5. ASSUME NEW s \in spent, Kept(s, sends), ~Kept(s, sends') PROVE Gone(s, clock', ctl')
  <2>1. s.tree \in Tree /\ s.at \in Time
    BY DEF TypeInv, SendType
  <2>2. s.at + Retention < k.when
    BY <1>3, <1>5, <2>1 DEF Kept
  <2>3. /\ k.when <= clock /\ k.when \in 1..MaxTime /\ clock \in 1..MaxTime /\ s.at \in 1..MaxTime
        /\ MaxTime \in Nat /\ Retention \in Nat
    BY <1>1, <2>1, TimeAssumption, BudgetAssumption DEF SpendInv, TypeInv, WorldType, Time
  <2>4. s.at + Retention < clock'
    BY <1>4, <2>2, <2>3
  <2>5. \A d \in Controller : d = c
    <3>1. ~(MaxTime <= Retention)
      BY <2>2, <2>3
    <3> QED BY <3>1 DEF NoStaleTick
  <2>6. ASSUME NEW d \in Controller, ctl'[d].pc # "idle" PROVE s.at + Retention < ctl'[d].when
    <3>1. d = c
      BY <2>5
    <3>2. ctl'[d].when = clock \/ ctl'[d].when = k.when
      BY <2>6, <3>1 DEF Paced
    <3> QED BY <1>4, <2>2, <2>4, <3>2
  <2> QED BY <2>4, <2>6 DEF Gone
<1>6. Exists(sends)' \subseteq Exists(sends)
  BY <1>3 DEF Exists
<1> QED BY <1>4, <1>5, <1>6, SpendMoves

LEMMA WindowHolds ==
    ASSUME NEW n \in Nat \ {0}, NEW t \in Nat
    PROVE  /\ WindowStart(n, t) \in Nat /\ WindowStart(n, t) <= t
           /\ t < WindowStart(n, t) + n
<1>1. t % n \in 0..(n - 1)
  OBVIOUS
<1>2. t % n <= t
  OBVIOUS
<1> HIDE DEF WindowStart
<1> QED BY <1>1, <1>2 DEF WindowStart

\* What was reserved in the window of a running tick is still in the table: a
\* window is not longer than the retention.
LEMMA WindowKeeps ==
    ASSUME TypeInv, SpendInv, NEW c \in Controller, ctl[c].pc # "idle",
           NEW n \in Nat \ {0}, n <= Retention, NEW s \in InWindow(spent, n, ctl[c].when)
    PROVE  Kept(s, sends) /\ s.tree \in SendsSince(WindowStart(n, ctl[c].when))
<1> DEFINE when == ctl[c].when
           W == WindowStart(n, when)
<1>1. s \in spent /\ s.tree \in Tree /\ s.at \in Nat /\ when \in Nat /\ Retention \in Nat
  BY BudgetAssumption DEF InWindow, TypeInv, SendType, TickType, Held, Time
<1>2. W \in Nat /\ W <= s.at /\ when < W + n
  <2>1. W = WindowStart(n, s.at)
    BY DEF InWindow
  <2> HIDE DEF W
  <2>2. WindowStart(n, s.at) <= s.at
    BY <1>1, WindowHolds
  <2>3. W \in Nat /\ when < W + n
    BY <1>1, WindowHolds DEF W
  <2> QED BY <2>1, <2>2, <2>3
<1> HIDE DEF W
<1>3. ~(s.at + Retention < when)
  BY <1>1, <1>2
<1>4. Kept(s, sends)
  BY <1>1, <1>3 DEF SpendInv, Gone
<1>5. s.tree \in SendsSince(W)
  BY <1>1, <1>2, <1>4 DEF Kept, SendsSince, Exists
<1> QED BY <1>4, <1>5 DEF W

\* So the table counts at least what was reserved in that window.
LEMMA TableCounts ==
    ASSUME TypeInv, SpendInv, NEW c \in Controller, ctl[c].pc # "idle",
           NEW n \in Nat \ {0}, n <= Retention,
           NEW f, \A s \in spent : f[s] = s.fee
    PROVE  LET W == InWindow(spent, n, ctl[c].when)
               T == SendsSince(WindowStart(n, ctl[c].when))
           IN  /\ IsFiniteSet(W) /\ IsFiniteSet(T)
               /\ Cardinality(W) <= Cardinality(T)
               /\ SumFunctionOnSet(f, W) <= FeesSince(WindowStart(n, ctl[c].when))
<1> DEFINE W == InWindow(spent, n, ctl[c].when)
           T == SendsSince(WindowStart(n, ctl[c].when))
           h == [s \in W |-> s.tree]
           g == [u \in Exists(sends) |-> sends[u].fee]
<1>1. W \subseteq spent /\ T \subseteq Exists(sends)
  BY DEF InWindow, SendsSince
<1>2. IsFiniteSet(W) /\ IsFiniteSet(T)
  BY <1>1, FS_Subset DEF SpendInv
<1>3. \A s \in W : Kept(s, sends) /\ s.tree \in T
  BY WindowKeeps
<1>4. \A r, s \in W : r.tree = s.tree => r = s
  <2>1. ASSUME NEW r \in W, NEW s \in W, r.tree = s.tree PROVE r = s
    <3>1. r.at = s.at /\ r.fee = s.fee
      BY <1>3, <2>1 DEF Kept
    <3>2. r \in [tree: Tree, at: Time, fee: Fee] /\ s \in [tree: Tree, at: Time, fee: Fee]
      BY <1>1 DEF TypeInv, SendType
    <3> QED BY <2>1, <3>1, <3>2
  <2> QED BY <2>1
<1>5. \A u \in T : g[u] \in Nat
  <2>1. \A u \in T : sends[u] \in Send
    BY <1>1 DEF Exists, TypeInv, SendType
  <2> QED BY <1>1, <2>1, FeeAssumption DEF Send
<1>6. \A s \in W : f[s] = g[s.tree]
  BY <1>1, <1>3 DEF Kept
<1> HIDE DEF W, T, g
<1>7. h \in [W -> T] /\ \A s \in W : h[s] = s.tree
  BY <1>3
<1>8. \A r, s \in W : h[r] = h[s] => r = s
  BY <1>4, <1>7
<1> HIDE DEF h
<1>9. Cardinality(W) <= Cardinality(T)
  <2>1. h \in Injection(W, T)
    BY <1>7, <1>8 DEF Injection, IsInjective
  <2> QED BY <1>2, <2>1, FS_Injection
<1>10. SumFunctionOnSet(f, W) <= SumFunctionOnSet(g, T)
  BY <1>2, <1>5, <1>6, <1>7, <1>8, SumEmbeds
<1> QED BY <1>2, <1>9, <1>10 DEF W, T, g, FeesSince

LEMMA SumSame ==
    ASSUME NEW W, IsFiniteSet(W), NEW f, NEW g, \A s \in W : f[s] = g[s] /\ g[s] \in Nat
    PROVE  SumFunctionOnSet(f, W) <= SumFunctionOnSet(g, W)
<1> DEFINE h == [s \in W |-> s]
<1>1. h \in [W -> W] /\ \A s \in W : h[s] = s
  OBVIOUS
<1> HIDE DEF h
<1>2. (\A s \in W : f[s] = g[h[s]]) /\ \A r, s \in W : h[r] = h[s] => r = s
  BY <1>1
<1> QED BY <1>1, <1>2, SumEmbeds

\* A reservation within the budget keeps every ceiling.
LEMMA ReserveBudget ==
    ASSUME TypeInv, SpendInv, NEW c \in Controller, ctl[c].pc # "idle", NEW t \in Tree,
           NEW fee \in Fee, ~OverBudget(fee, ctl[c].when),
           spent' = spent \cup {[tree |-> t, at |-> ctl[c].when, fee |-> fee]}
    PROVE  BudgetKept'
<1> DEFINE when == ctl[c].when
           r == [tree |-> t, at |-> when, fee |-> fee]
           f == [s \in spent' |-> s.fee]
           g == [s \in spent |-> s.fee]
<1>1. when \in Time /\ when \in Nat /\ fee \in Nat /\ r.at = when /\ r.fee = fee /\ r \in spent'
  BY FeeAssumption DEF TypeInv, TickType, Sound, Held, Time
<1>2. (\A s \in spent : s.fee \in Nat) /\ IsFiniteSet(spent)
  BY FeeAssumption DEF TypeInv, SendType, SpendInv
<1>3. /\ \A s \in spent : f[s] = s.fee /\ g[s] = s.fee
      /\ f[r] = fee
  BY <1>1
<1>4. spent' = spent \cup {r}
  OBVIOUS
<1> HIDE DEF f, g, r
<1>5. ASSUME NEW n, NEW x, WindowStart(n, when) = WindowStart(n, x)
       PROVE  InWindow(spent', n, x) = InWindow(spent, n, when) \cup {r}
  BY <1>1, <1>4, <1>5 DEF InWindow
<1>6. ASSUME NEW n, NEW x, WindowStart(n, when) # WindowStart(n, x)
       PROVE  InWindow(spent', n, x) = InWindow(spent, n, x)
  BY <1>1, <1>4, <1>6 DEF InWindow
<1>7. ASSUME NEW n \in Nat \ {0}, n <= Retention
      PROVE  /\ IsFiniteSet(InWindow(spent, n, when)) /\ IsFiniteSet(SendsSince(WindowStart(n, when)))
             /\ Cardinality(InWindow(spent, n, when)) <= Cardinality(SendsSince(WindowStart(n, when)))
             /\ SumFunctionOnSet(f, InWindow(spent, n, when)) <= FeesSince(WindowStart(n, when))
  BY <1>3, <1>7, TableCounts
<1>8. ASSUME NEW x \in Time PROVE Cardinality(InWindow(spent', HourLength, x)) <= HourlyMax
  <2> DEFINE W == InWindow(spent, HourLength, when)
             T == SendsSince(WindowStart(HourLength, when))
  <2>1. CASE WindowStart(HourLength, when) = WindowStart(HourLength, x)
    <3>1. InWindow(spent', HourLength, x) = W \cup {r}
      BY <1>5, <2>1
    <3>2. IsFiniteSet(W) /\ IsFiniteSet(T) /\ Cardinality(W) <= Cardinality(T)
      BY <1>7, BudgetAssumption
    <3>3. ~(Cardinality(T) >= HourlyMax)
      BY DEF OverBudget
    <3> HIDE DEF W, T
    <3>4. Cardinality(W) \in Nat /\ Cardinality(T) \in Nat /\ HourlyMax \in Nat
      BY <3>2, FS_CardinalityType, BudgetAssumption
    <3>5. Cardinality(W \cup {r}) = Cardinality(W) \/ Cardinality(W \cup {r}) = Cardinality(W) + 1
      BY <3>2, FS_AddElement
    <3>6. Cardinality(W \cup {r}) <= HourlyMax
      BY <3>2, <3>3, <3>4, <3>5
    <3> QED BY <3>1, <3>6
  <2>2. CASE WindowStart(HourLength, when) # WindowStart(HourLength, x)
    <3>1. InWindow(spent', HourLength, x) = InWindow(spent, HourLength, x)
      BY <1>6, <2>2
    <3> QED BY <3>1 DEF SpendInv, BudgetKept
  <2> QED BY <2>1, <2>2
<1>9. ASSUME NEW x \in Time, NEW w \in FeeWindows
      PROVE  SumFunctionOnSet(f, InWindow(spent', w.length, x)) <= w.max
  <2> DEFINE n == w.length
             W == InWindow(spent, n, when)
             V == InWindow(spent, n, x)
             F == FeesSince(WindowStart(n, when))
  <2>1. n \in Nat \ {0} /\ n <= Retention /\ w.max \in Nat
    BY BudgetAssumption
  <2>2. W \subseteq spent /\ V \subseteq spent /\ IsFiniteSet(V)
    BY <1>2, FS_Subset DEF InWindow
  <2>3. CASE WindowStart(n, when) = WindowStart(n, x)
    <3>1. InWindow(spent', n, x) = W \cup {r}
      BY <1>5, <2>3
    <3>2. IsFiniteSet(W) /\ IsFiniteSet(SendsSince(WindowStart(n, when)))
          /\ SumFunctionOnSet(f, W) <= F
      BY <1>7, <2>1
    <3>3. ~(F + fee > w.max)
      BY DEF OverBudget
    <3>4. F \in Nat
      <4> DEFINE e == [u \in Exists(sends) |-> sends[u].fee]
                 T == SendsSince(WindowStart(n, when))
      <4>1. \A u \in T : e[u] \in Nat
        <5>1. T \subseteq Exists(sends) /\ \A u \in T : sends[u] \in Send
          BY DEF SendsSince, Exists, TypeInv, SendType
        <5> QED BY <5>1, FeeAssumption DEF Send
      <4> HIDE DEF e, T
      <4>2. SumFunctionOnSet(e, T) \in Nat
        BY <3>2, <4>1, SumType DEF T
      <4> QED BY <4>2 DEF FeesSince, e, T
    <3> HIDE DEF W, F, V
    <3>5. SumFunctionOnSet(f, W) \in Nat
      BY <1>2, <1>3, <2>2, <3>2, SumType
    <3>6. SumFunctionOnSet(f, W) + fee <= w.max
      BY <1>1, <2>1, <3>2, <3>3, <3>4, <3>5
    <3>7. CASE r \in W
      <4>1. W \cup {r} = W /\ SumFunctionOnSet(f, W) <= w.max
        BY <1>1, <2>1, <3>5, <3>6, <3>7
      <4> QED BY <3>1, <4>1
    <3>8. CASE r \notin W
      <4>1. \A s \in W \cup {r} : f[s] \in Nat
        BY <1>1, <1>2, <1>3, <2>2
      <4>2. SumFunctionOnSet(f, W \cup {r}) = SumFunctionOnSet(f, W) + f[r]
        BY <3>2, <3>8, <4>1, SumAdd
      <4> QED BY <1>3, <3>1, <3>6, <4>2
    <3> QED BY <3>7, <3>8
  <2>4. CASE WindowStart(n, when) # WindowStart(n, x)
    <3>1. InWindow(spent', n, x) = V
      BY <1>6, <2>4
    <3>2. SumFunctionOnSet(g, V) <= w.max
      BY DEF SpendInv, BudgetKept, g
    <3> HIDE DEF V
    <3>3. SumFunctionOnSet(f, V) <= SumFunctionOnSet(g, V)
      BY <1>2, <1>3, <2>2, SumSame
    <3>4. SumFunctionOnSet(f, V) \in Nat /\ SumFunctionOnSet(g, V) \in Nat
      BY <1>2, <1>3, <2>2, SumType
    <3> QED BY <2>1, <3>1, <3>2, <3>3, <3>4
  <2> QED BY <2>3, <2>4
<1> QED BY <1>8, <1>9 DEF BudgetKept, f

LEMMA ReserveSpends ==
    ASSUME TypeInv, TypeInv', SpendInv, NEW c \in Controller, Paced, Reserve(c)
    PROVE  SpendInv'
<1> DEFINE k == ctl[c]
           t == k.size
           fee == k.row.signed.fee
           r == [tree |-> t, at |-> k.when, fee |-> fee]
           new == [txid |-> k.row.signed, fee |-> fee, at |-> k.when, status |-> "SEND_ATTEMPTED"]
<1>1. k.pc # "idle" /\ t \in Tree /\ k.when \in Time /\ k.row.signed \in Request /\ fee \in Fee
  <2>1. k.pc = "reserve" /\ Sound(k)
    BY DEF Reserve, At, TypeInv, TickType
  <2>2. t \in Tree /\ k.when \in Time /\ k.row \in AuthRow
    BY <2>1 DEF Sound, JobPcs, RowPcs, Pcs
  <2> QED BY <2>1, <2>2 DEF AuthRow, Request
<1>2. CASE UNCHANGED <<records, auth>>
  <2>1. UNCHANGED <<sends, spent>>
    BY <1>2
  <2>2. Exists(sends)' \subseteq Exists(sends)
    BY <2>1 DEF Exists
  <2> QED BY <2>1, <2>2, SpendMoves
<1>3. CASE /\ Reservable(t) /\ ~OverBudget(fee, k.when)
           /\ sends' = [sends EXCEPT ![t] = new]
           /\ spent' = spent \cup {r}
  <2>1. BudgetKept'
    BY <1>1, <1>3, ReserveBudget
  <2>2. sends[t] = None
    BY <1>3 DEF Reservable
  <2>3. \A u \in Tree : sends'[u] = IF u = t THEN new ELSE sends[u]
    BY <1>3 DEF TypeInv, SendType
  <2>4. new.at = k.when /\ new.fee = fee /\ new \in Send
    BY <1>1 DEF Send, SendState
  <2>5. new # None
    BY <2>4, RowAssumption
  <2> HIDE DEF new
  <2>6. IsFiniteSet(Exists(sends)') /\ IsFiniteSet(spent')
    <3>1. Exists(sends)' = Exists(sends) \cup {t}
      BY <1>1, <2>3, <2>5 DEF Exists
    <3>2. IsFiniteSet(Exists(sends)) /\ IsFiniteSet(spent)
      BY DEF SpendInv
    <3>3. IsFiniteSet(Exists(sends) \cup {t}) /\ IsFiniteSet(spent \cup {r})
      BY <3>2, FS_AddElement
    <3> QED BY <1>3, <3>1, <3>3
  <2>7. UNCHANGED clock
    BY DEF Reserve
  <2>8. clock \in Nat /\ \A d \in Controller : ctl[d].when \in Nat /\ ctl'[d].when \in Nat
    BY DEF TypeInv, WorldType, TickType, Held, Time
  <2>9. \A d \in Controller : ctl'[d].pc # "idle" => ctl'[d].when <= clock'
    BY <2>7, <2>8 DEF SpendInv, Paced
  <2>10. ASSUME NEW s \in spent PROVE Kept(s, sends') \/ Gone(s, clock', ctl')
    <3>1. CASE Kept(s, sends)
      <4>1. s.tree \in Tree /\ s.tree # t
        BY <2>2, <3>1 DEF Kept, TypeInv, SendType
      <4> QED BY <2>3, <3>1, <4>1 DEF Kept
    <3>2. CASE Gone(s, clock, ctl)
      <4>1. s.at + Retention \in Nat
        BY BudgetAssumption DEF TypeInv, SendType, Time
      <4> QED BY <2>7, <2>8, <3>2, <4>1 DEF Gone, Paced
    <3> QED BY <3>1, <3>2 DEF SpendInv
  <2>11. Kept(r, sends')
    BY <1>1, <2>3, <2>4, <2>5 DEF Kept
  <2>12. \A s \in spent' : Kept(s, sends') \/ Gone(s, clock', ctl')
    BY <1>3, <2>10, <2>11
  <2> QED BY <2>1, <2>6, <2>9, <2>12 DEF SpendInv
<1> QED BY <1>2, <1>3 DEF Reserve

LEMMA SpendStep ==
    ASSUME NoStaleTick
    PROVE  TypeInv /\ SpendInv /\ [Next]_vars => SpendInv'
<1> SUFFICES ASSUME TypeInv, SpendInv, [Next]_vars PROVE SpendInv'
  OBVIOUS
<1>1. TypeInv' /\ Paced
  BY TypeStep, PacedStep
<1>2. ASSUME UNCHANGED <<sends, spent>> PROVE SpendInv'
  <2>1. Exists(sends)' \subseteq Exists(sends)
    BY <1>2 DEF Exists
  <2> QED BY <1>1, <1>2, <2>1, SpendMoves
<1>3. CASE World
  BY <1>2, <1>3 DEF World, ClockTick, Include, Grow
<1>4. ASSUME NEW c \in Controller, Tick(c) \/ Die(c) PROVE SpendInv'
  <2>1. CASE TickReconcile(c) \/ SetSubmitted(c) \/ SetConfirmed(c)
    BY <1>1, <2>1, StatusSpends
  <2>2. CASE Reserve(c)
    BY <1>1, <2>2, ReserveSpends
  <2>3. CASE \/ TickStart(c) \/ TickLoad(c) \/ Survey(c) \/ Prepare(c) \/ RecordAttempt(c)
             \/ Authorize(c) \/ Dial(c) \/ Persist(c) \/ Authorized(c) \/ Reload(c)
             \/ SignFailed(c) \/ SendGate(c) \/ PostOnce(c)
    BY <1>2, <2>3 DEF TickStart, TickLoad, Survey, Prepare, RecordAttempt, Authorize, Dial, Persist,
                      Authorized, Reload, SignFailed, SendGate, PostOnce, Quiet
  <2>4. CASE \/ MarkSubmitted(c) \/ PollSettled(c) \/ PollFound(c) \/ PollMissing(c) \/ PollBad(c)
             \/ MarkConfirmed(c) \/ ReadPointer(c) \/ AdvancePointer(c) \/ Caught(c) \/ Resign(c)
             \/ Halt(c) \/ Die(c)
    BY <1>2, <2>4 DEF MarkSubmitted, MarkConfirmed, Mark, PollSettled, PollFound, PollMissing, PollBad,
                      ReadPointer, AdvancePointer, Caught, Resign, Halt, Die, Quiet
  <2> QED BY <1>4, <2>1, <2>2, <2>3, <2>4 DEF Tick
<1>5. CASE UNCHANGED vars
  BY <1>2, <1>5 DEF vars
<1> QED BY <1>3, <1>4, <1>5 DEF Next

LEMMA SpendInit == Init => SpendInv
<1> SUFFICES ASSUME Init PROVE SpendInv
  OBVIOUS
<1>1. spent = {} /\ Exists(sends) = {} /\ IsFiniteSet({})
  BY FS_EmptySet DEF Init, Exists
<1>2. \A c \in Controller : ctl[c].pc = "idle"
  BY DEF Init, NoTick
<1>3. \A n, x : InWindow(spent, n, x) = {}
  BY <1>1 DEF InWindow
<1>4. Cardinality({}) = 0 /\ \A f : SumFunctionOnSet(f, {}) = 0
  BY FS_EmptySet, SumNothing
<1>5. BudgetKept
  <2>1. 0 <= HourlyMax /\ \A w \in FeeWindows : 0 <= w.max
    BY BudgetAssumption
  <2> QED BY <1>3, <1>4, <2>1 DEF BudgetKept
<1> QED BY <1>1, <1>2, <1>5 DEF SpendInv

\* The hourly ceiling and the ceilings on the sums of fees hold over everything
\* ever reserved, for any trees, fees, windows and limits, deaths at any step
\* and deleted records: reserve_automatic_send counts the rows that are left,
\* and a row is only deleted when no window that is still open contains it.
\* With several controllers this needs that nothing is deleted at all: a tick
\* that slept through a retention would count too little.
THEOREM WithinBudget == ASSUME NoStaleTick PROVE Spec => []BudgetKept
<1>1. SpendInv => BudgetKept
  BY DEF SpendInv
<1>2. TypeInv /\ SpendInv /\ [Next]_vars => SpendInv'
  BY SpendStep
<1> QED BY <1>1, <1>2, SpendInit, AlwaysTyped, PTL DEF Spec
=============================================================================
