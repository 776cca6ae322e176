-------------------------- MODULE PaidRouteProofs --------------------------
(***************************************************************************)
(* Proofs about PaidRoute: type correctness, that no authorization is sent *)
(* to be settled twice, that its presenters hear one answer, and that the  *)
(* route implements PaidOnce, for any number of processes, requests,       *)
(* authorizations, faults and crashes.                                     *)
(***************************************************************************)
EXTENDS PaidRoute, TLAPS

\* The types, by the part of the state, and what one owes to another.
Conn == [mode: Modes, view: [Auth -> Row \cup {None}]]

DiskType == ledger \in [Auth -> Row \cup {None}] /\ conn \in [Proc -> Conn]

MemoryType ==
    /\ lock \in [Proc -> Req \cup {None}]
    /\ inflight \in [Proc -> [Auth -> Req \cup {None}]]
    /\ completed \in [Proc -> [Auth -> [scope: Scope, outcome: Outcome] \cup {None}]]
    /\ entry \in [Req -> Outcome \cup {None}]

ThreadType ==
    /\ pc \in [Req -> PcValues]
    /\ order \in [Req -> Order \cup {None}]
    /\ waitsOn \in [Req -> Req \cup {None}]
    /\ out \in [Req -> Outcome \cup {None}]
    /\ told \in [Req -> Outcome \cup {None}]
    /\ \A r \in Req : /\ pc[r] # "idle" => order[r] \in Order
                      /\ pc[r] = "wait" => waitsOn[r] \in Req
                      /\ pc[r] \in {"finish", "ledger"} => out[r] \in Outcome

WorldType ==
    /\ legacy \in [Auth -> {"none", "open", "done"}]
    /\ cutoverAck \in BOOLEAN
    /\ money \in [Auth -> {"fresh", "posted", "charged", "declined"}]
    /\ attempts \in [Auth -> Nat]
    /\ faults \in Nat
    /\ crashes \in Nat

TypeInv == DiskType /\ MemoryType /\ ThreadType /\ WorldType

USE DEF disk, fixed, memory, threads, world

\* The outcomes the code builds are outcomes.
LEMMA OutcomeTypes ==
    /\ \A b \in BOOLEAN : Hit(b) \in Outcome
    /\ \A t \in {"yes", "no", "null"} : Rejected(t) \in Outcome /\ Unknown(t) \in Outcome
    /\ HitUnlogged \in Outcome /\ Miss \in Outcome /\ BadBody \in Outcome
BY DEF Outcome, Hit, HitUnlogged, Miss, Rejected, Unknown, BadBody, Billing

\* finish() writes one of the five states the ledger knows.
LEMMA FinishStateType == \A o \in Outcome : FinishState(o) \in RowStates
<1> SUFFICES ASSUME NEW o \in Outcome PROVE FinishState(o) \in RowStates
  OBVIOUS
<1>1. ExplicitState(o) \in {"settled", "not_settled", "unknown", "none"}
  BY DEF ExplicitState
<1> QED BY <1>1 DEF FinishState, RowStates

\* A replayed row is an outcome.
LEMMA ReplayType == \A row \in Row : \A s : Replay(row, s) \in Outcome
BY OutcomeTypes DEF Replay, Row

LEMMA TypeInvImpliesTypeOK == TypeInv => TypeOK
BY DEF TypeInv, DiskType, MemoryType, ThreadType, WorldType, TypeOK, Conn

LEMMA ViewType == DiskType => \A p \in Proc : View(p) \in [Auth -> Row \cup {None}]
BY DEF DiskType, View, Conn

LEMMA AutoType == AutoCommit \in Conn
BY DEF AutoCommit, Modes, NoRows, Conn

LEMMA PinnedType == DiskType => \A p \in Proc : Pinned(p) \in Conn
BY DEF DiskType, Pinned, Conn, Modes

\* A write, done or failed, keeps the types of the file and the connection.
LEMMA WriteType ==
    ASSUME DiskType, faults \in Nat, NEW p \in Proc,
           NEW rows \in [Auth -> Row \cup {None}],
           Commits(p, rows) \/ Fails(p, rows)
    PROVE  DiskType' /\ faults' \in Nat
<1>1. CASE Commits(p, rows)
  BY <1>1, AutoType DEF Commits, DiskType
<1>2. CASE Fails(p, rows)
  <2>1. [mode |-> "write", view |-> rows] \in Conn
    BY DEF Modes, Conn
  <2>2. ASSUME NEW m \in Modes PROVE [conn EXCEPT ![p].mode = m] \in [Proc -> Conn]
    BY <2>2 DEF DiskType, Conn
  <2>3. (IF conn[p].mode = "auto" THEN "begun" ELSE conn[p].mode) \in Modes
    BY DEF Modes, DiskType, Conn
  <2>4. conn' \in [Proc -> Conn]
    BY <1>2, <2>1, <2>2, <2>3, AutoType DEF Fails, DiskType
  <2> QED BY <1>2, <2>4 DEF Fails, Fault, DiskType
<1> QED BY <1>1, <1>2

LEMMA TypeInit == Init => TypeInv
<1> SUFFICES ASSUME Init PROVE TypeInv
  OBVIOUS
<1>1. DiskType
  BY AutoType DEF Init, DiskType, NoRows
<1>2. MemoryType
  BY DEF Init, MemoryType, NoRows
<1>3. ThreadType
  BY DEF Init, ThreadType, PcValues, Running
<1>4. WorldType
  <2>1. legacy \in [Auth -> {"none", "open", "done"}]
    BY LegacyAssumption DEF Init
  <2>2. money \in [Auth -> {"fresh", "posted", "charged", "declined"}]
    BY DEF Init
  <2>3. attempts \in [Auth -> Nat]
    BY DEF Init
  <2> QED BY <2>1, <2>2, <2>3 DEF Init, WorldType
<1> QED BY <1>1, <1>2, <1>3, <1>4 DEF TypeInv

\* The parts a step leaves alone.
LEMMA DiskStutter == DiskType /\ UNCHANGED <<ledger, conn>> => DiskType'
BY DEF DiskType
LEMMA MemoryStutter ==
    MemoryType /\ UNCHANGED <<lock, inflight, completed, entry>> => MemoryType'
BY DEF MemoryType
LEMMA WorldStutter ==
    WorldType /\ UNCHANGED <<legacy, cutoverAck, money, attempts, crashes>>
              /\ faults' \in Nat => WorldType'
BY DEF WorldType

\* A step that sends thread r to `to` with outcome o.
LEMMA GotoType ==
    ASSUME ThreadType, NEW r \in Req, NEW to \in PcValues, NEW o \in Outcome \cup {None},
           Goto(r, to, o), pc[r] # "idle", to \notin {"idle", "wait"},
           to \in {"finish", "ledger"} => o \in Outcome,
           UNCHANGED <<order, waitsOn, told>>
    PROVE  ThreadType'
BY DEF Goto, ThreadType

LEMMA TypeBegin ==
    ASSUME TypeInv, NEW r \in Req, Begin(r)
    PROVE  TypeInv'
<1> USE DEF TypeInv
<1>0. pc[r] \in {"begin", "reserve"} => /\ order[r] \in Order
                                        /\ Process(r) \in Proc /\ AuthOf(r) \in Auth
  BY DEF ThreadType, Order, Process, AuthOf
<1>1. CASE BeginCompleted(r)
  <2>1. completed[Process(r)][AuthOf(r)] \in [scope: Scope, outcome: Outcome]
    BY <1>0, <1>1 DEF BeginCompleted, AtBegin, MemoryType
  <2> QED BY <1>1, <2>1, GotoType, OutcomeTypes, DiskStutter, MemoryStutter, WorldStutter
          DEF BeginCompleted, AtBegin, PcValues, Running, WorldType
<1>2. CASE BeginInflight(r)
  <2>1. inflight[Process(r)][AuthOf(r)] \in Req
    BY <1>0, <1>2 DEF BeginInflight, AtBegin, MemoryType
  <2>2. ThreadType'
    BY <1>2, <2>1, OutcomeTypes DEF BeginInflight, AtBegin, PcValues, Running, ThreadType, Goto
  <2> QED BY <1>2, <2>2, DiskStutter, MemoryStutter, WorldStutter DEF BeginInflight, WorldType
<1>3. CASE BeginLookup(r)
  <2> DEFINE row == View(Process(r))[AuthOf(r)]
  <2>1. DiskType'
    BY <1>0, <1>3, PinnedType DEF BeginLookup, AtBegin, DiskType
  <2>2. row # None => Replay(row, order[r].scope) \in Outcome
    BY <1>0, <1>3, ViewType, ReplayType DEF BeginLookup, AtBegin
  <2>3. ThreadType'
    <3>1. PICK to \in {"reply", "reserve"}, o \in Outcome \cup {None} : Goto(r, to, o)
      BY <1>3, <2>2, OutcomeTypes DEF BeginLookup
    <3> QED BY <1>3, <3>1, GotoType DEF BeginLookup, AtBegin, PcValues, Running
  <2>4. MemoryType'
    BY <1>0, <1>3 DEF BeginLookup, AtBegin, MemoryType
  <2> QED BY <1>3, <2>1, <2>3, <2>4, WorldStutter DEF BeginLookup, WorldType
<1>4. CASE BeginUnreadable(r)
  BY <1>4, GotoType, OutcomeTypes, DiskStutter, MemoryStutter, WorldStutter
  DEF BeginUnreadable, AtBegin, PcValues, Running, Fault, WorldType
<1>5. pc[r] = "reserve" =>
          [View(Process(r)) EXCEPT ![AuthOf(r)] = Pending(r)] \in [Auth -> Row \cup {None}]
  <2>1. order[r] \in Order => Pending(r) \in Row
    BY DEF Pending, Row, RowStates, Order
  <2> QED BY <1>0, <2>1, ViewType
<1>6. CASE ReserveRun(r)
  <2>1. DiskType' /\ faults' \in Nat
    BY <1>0, <1>5, <1>6, WriteType DEF ReserveRun, WorldType
  <2>2. MemoryType'
    BY <1>0, <1>6 DEF ReserveRun, MemoryType
  <2>3. ThreadType'
    BY <1>0, <1>6 DEF ReserveRun, ThreadType, PcValues, Running
  <2>4. UNCHANGED <<legacy, cutoverAck, money, attempts, crashes>>
    BY <1>6 DEF ReserveRun
  <2> QED BY <2>1, <2>2, <2>3, <2>4, WorldStutter
<1>7. CASE ReserveRefused(r)
  <2>1. DiskType' /\ faults' \in Nat
    BY <1>0, <1>5, <1>7, WriteType, AutoType DEF ReserveRefused, WorldType, DiskType
  <2>2. MemoryType'
    BY <1>0, <1>7 DEF ReserveRefused, MemoryType
  <2>3. ThreadType'
    BY <1>7, GotoType, OutcomeTypes DEF ReserveRefused, PcValues, Running
  <2> QED BY <1>7, <2>1, <2>2, <2>3, WorldStutter DEF ReserveRefused
<1> QED BY <1>1, <1>2, <1>3, <1>4, <1>6, <1>7 DEF Begin

LEMMA TypeExecute ==
    ASSUME TypeInv, NEW r \in Req, PaidExecute(r)
    PROVE  TypeInv'
<1> USE DEF TypeInv
<1>1. PICK at \in {"verify", "probe", "settle", "settling", "log"} : Execute(r, at)
  BY DEF PaidExecute, VerifyAccepts, VerifyRefuses, Probe, SettlePost, SettleUnsent,
         SettleAnswered, AttachTrust, ExecuteRaises
<1>2. DiskType' /\ MemoryType'
  BY <1>1, DiskStutter, MemoryStutter DEF Execute
<1>3. ThreadType'
  <2>1. \/ \E to \in {"probe", "settle", "settling", "log"} : Goto(r, to, None)
        \/ \E o \in Outcome : Goto(r, "finish", o)
    BY OutcomeTypes
    DEF PaidExecute, VerifyAccepts, VerifyRefuses, Probe, SettlePost, SettleUnsent,
        SettleAnswered, AttachTrust, ExecuteRaises
  <2>2. pc[r] # "idle" /\ UNCHANGED <<order, waitsOn, told>>
    BY <1>1 DEF Execute
  <2>3. ASSUME NEW to \in {"probe", "settle", "settling", "log"}, Goto(r, to, None)
        PROVE  ThreadType'
    BY <2>2, <2>3, GotoType DEF PcValues, Running
  <2>4. ASSUME NEW o \in Outcome, Goto(r, "finish", o)
        PROVE  ThreadType'
    BY <2>2, <2>4, GotoType DEF PcValues, Running
  <2> QED BY <2>1, <2>3, <2>4
<1>4. WorldType'
  <2>1. UNCHANGED <<legacy, cutoverAck, faults, crashes>>
    BY <1>1 DEF Execute
  <2>2. CASE SettlePost(r)
    <3>1. attempts' \in [Auth -> Nat]
      <4>1. attempts \in [Auth -> Nat] /\ AuthOf(r) \in Auth
        BY <1>1 DEF WorldType, Execute, ThreadType, Order, AuthOf
      <4>2. attempts' = [attempts EXCEPT ![AuthOf(r)] = attempts[AuthOf(r)] + 1]
        BY <2>2 DEF SettlePost
      <4> QED BY <4>1, <4>2
    <3>2. money' \in [Auth -> {"fresh", "posted", "charged", "declined"}]
      BY <2>2 DEF SettlePost, WorldType
    <3> QED BY <2>1, <3>1, <3>2 DEF WorldType
  <2>3. CASE UNCHANGED world
    BY <2>1, <2>3 DEF WorldType
  <2> QED BY <2>2, <2>3
          DEF PaidExecute, VerifyAccepts, VerifyRefuses, Probe, SettleUnsent,
              SettleAnswered, AttachTrust, ExecuteRaises
<1> QED BY <1>2, <1>3, <1>4

LEMMA FinishedType ==
    ASSUME TypeInv, NEW r \in Req, pc[r] = "ledger"
    PROVE  Finished(r) \in [Auth -> Row \cup {None}]
<1>1. out[r] \in Outcome /\ Process(r) \in Proc /\ AuthOf(r) \in Auth
  BY DEF TypeInv, ThreadType, Order, Process, AuthOf
<1>2. FinishState(out[r]) \in RowStates
  BY <1>1, FinishStateType
<1>3. View(Process(r)) \in [Auth -> Row \cup {None}]
  BY <1>1, ViewType DEF TypeInv
<1> QED BY <1>1, <1>2, <1>3 DEF Finished, Row

LEMMA TypeFinish ==
    ASSUME TypeInv, NEW r \in Req, Finish(r)
    PROVE  TypeInv'
<1> USE DEF TypeInv
<1>0. pc[r] # "idle" => /\ order[r] \in Order
                        /\ Process(r) \in Proc /\ AuthOf(r) \in Auth
  BY DEF ThreadType, Order, Process, AuthOf
<1>1. CASE FinishMemory(r)
  <2>1. MemoryType'
    <3>1. out[r] \in Outcome /\ order[r].scope \in Scope
      BY <1>0, <1>1 DEF FinishMemory, ThreadType, Order
    <3> QED BY <1>0, <1>1, <3>1 DEF FinishMemory, MemoryType
  <2>2. ThreadType'
    BY <1>1 DEF FinishMemory, ThreadType, PcValues, Running
  <2> QED BY <1>1, <2>1, <2>2, DiskStutter, WorldStutter DEF FinishMemory, WorldType
<1>2. CASE FinishLedger(r)
  <2>1. DiskType' /\ faults' \in Nat
    BY <1>0, <1>2, WriteType, FinishedType DEF FinishLedger, WorldType
  <2>2. MemoryType'
    BY <1>0, <1>2 DEF FinishLedger, MemoryType
  <2>3. ThreadType'
    BY <1>2 DEF FinishLedger, ThreadType, PcValues, Running
  <2> QED BY <1>2, <2>1, <2>2, <2>3, WorldStutter DEF FinishLedger
<1>3. CASE WaitEnds(r)
  <2>1. entry[waitsOn[r]] \in Outcome \cup {None}
    BY <1>3 DEF WaitEnds, ThreadType, MemoryType
  <2> QED BY <1>3, <2>1, GotoType, OutcomeTypes, DiskStutter, MemoryStutter, WorldStutter
          DEF WaitEnds, PcValues, Running, WorldType
<1>4. CASE Reply(r)
  <2>1. ThreadType'
    BY <1>4 DEF Reply, Goto, ThreadType, PcValues, Running
  <2> QED BY <1>4, <2>1, DiskStutter, MemoryStutter, WorldStutter DEF Reply, WorldType
<1> QED BY <1>1, <1>2, <1>3, <1>4 DEF Finish

LEMMA TypeOthers ==
    ASSUME TypeInv,
           \/ \E r \in Req : Arrive(r)
           \/ \E p \in Proc : ReadyProbe(p) \/ Crash(p) \/ \E a \in Auth : Forget(p, a)
           \/ \E a \in Auth : Resolve(a)
           \/ UNCHANGED vars
    PROVE  TypeInv'
<1> USE DEF TypeInv
<1>1. ASSUME NEW r \in Req, Arrive(r) PROVE TypeInv'
  <2>1. ThreadType'
    BY <1>1 DEF Arrive, ThreadType, Order, PcValues, Running
  <2> QED BY <1>1, <2>1, DiskStutter, MemoryStutter, WorldStutter DEF Arrive, WorldType
<1>2. ASSUME NEW p \in Proc, ReadyProbe(p) PROVE TypeInv'
  <2>1. DiskType'
    BY <1>2, AutoType DEF ReadyProbe, DiskType
  <2>2. ThreadType'
    BY <1>2 DEF ReadyProbe, ThreadType
  <2> QED BY <1>2, <2>1, <2>2, MemoryStutter, WorldStutter DEF ReadyProbe, WorldType
<1>3. ASSUME NEW p \in Proc, Crash(p) PROVE TypeInv'
  <2>1. DiskType'
    BY <1>3, AutoType DEF Crash, DiskType
  <2>2. MemoryType'
    BY <1>3 DEF Crash, MemoryType, NoRows
  <2>3. ThreadType'
    BY <1>3 DEF Crash, ThreadType, PcValues, Running
  <2>4. WorldType'
    BY <1>3 DEF Crash, WorldType
  <2> QED BY <2>1, <2>2, <2>3, <2>4
<1>4. ASSUME NEW p \in Proc, NEW a \in Auth, Forget(p, a) PROVE TypeInv'
  <2>1. MemoryType'
    BY <1>4 DEF Forget, MemoryType
  <2>2. ThreadType'
    BY <1>4 DEF Forget, ThreadType
  <2> QED BY <1>4, <2>1, <2>2, DiskStutter, WorldStutter DEF Forget, WorldType
<1>5. ASSUME NEW a \in Auth, Resolve(a) PROVE TypeInv'
  <2>1. ThreadType'
    BY <1>5 DEF Resolve, ThreadType
  <2>2. WorldType'
    BY <1>5 DEF Resolve, WorldType
  <2> QED BY <1>5, <2>1, <2>2, DiskStutter, MemoryStutter DEF Resolve
<1>6. ASSUME UNCHANGED vars PROVE TypeInv'
  <2>1. ThreadType'
    BY <1>6 DEF vars, ThreadType
  <2> QED BY <1>6, <2>1, DiskStutter, MemoryStutter, WorldStutter DEF vars, WorldType
<1> QED BY <1>1, <1>2, <1>3, <1>4, <1>5, <1>6

LEMMA TypeStep == TypeInv /\ [Next]_vars => TypeInv'
BY TypeBegin, TypeExecute, TypeFinish, TypeOthers DEF Next, Thread

\* Every variable of the route and its replay guard keeps its type.
THEOREM TypeCorrect == Spec => []TypeOK
<1>1. Spec => []TypeInv
  BY TypeInit, TypeStep, PTL DEF Spec
<1> QED BY <1>1, TypeInvImpliesTypeOK, PTL

-----------------------------------------------------------------------------
(* SettledAtMostOnce.  OneGuardedOwner is inductive.                       *)

Inv == TypeInv /\ OneGuardedOwner

\* A connection that can write sees every kept row.
LEMMA KeptIsVisible ==
    ASSUME NEW p \in Proc, NEW a \in Auth, RowKept(a), CanWrite(p)
    PROVE  View(p)[a] # None
BY DEF RowKept, CanWrite, View

\* A write that leaves a kept row in place keeps it, whether it commits or not.
LEMMA WriteKeepsRow ==
    ASSUME DiskType, NEW p \in Proc, NEW rows \in [Auth -> Row \cup {None}],
           NEW a \in Auth, RowKept(a), CanWrite(p) => rows[a] # None,
           Commits(p, rows) \/ Fails(p, rows)
    PROVE  RowKept(a)'
<1>1. CASE Commits(p, rows)
  BY <1>1 DEF Commits, RowKept, AutoCommit, DiskType, Conn
<1>2. CASE Fails(p, rows)
  <2>1. ledger'[a] # None
    BY <1>2 DEF Fails, RowKept
  <2>2. ASSUME NEW q \in Proc, conn'[q].mode = "write" PROVE conn'[q].view[a] # None
    <3>1. CASE ~CanWrite(p)
      <4>1. conn' = [conn EXCEPT ![p].mode =
                        IF conn[p].mode = "auto" THEN "begun" ELSE conn[p].mode]
        BY <1>2, <3>1 DEF Fails
      <4>2. conn'[q].view = conn[q].view /\ (conn[q].mode = "write" \/ conn'[q].mode # "write")
        BY <4>1 DEF DiskType, Conn
      <4> QED BY <2>2, <4>2 DEF RowKept
    <3>2. CASE CanWrite(p)
      BY <1>2, <2>2, <3>2 DEF Fails, RowKept, AutoCommit, DiskType
    <3> QED BY <3>1, <3>2
  <2> QED BY <2>1, <2>2 DEF RowKept
<1> QED BY <1>1, <1>2

\* The connection falling back to autocommit keeps every kept row.
LEMMA ResetKeepsRow ==
    ASSUME DiskType, NEW p \in Proc, NEW a \in Auth, RowKept(a),
           UNCHANGED ledger,
           conn' = [conn EXCEPT ![p] = AutoCommit]
    PROVE  RowKept(a)'
BY DEF RowKept, AutoCommit, DiskType

LEMMA DiskUnchangedKeepsRow ==
    ASSUME NEW a \in Auth, UNCHANGED <<ledger, conn>>
    PROVE  RowKept(a)' = RowKept(a)
BY DEF RowKept

\* The invariant for a step that starts no owner, sends nothing, and keeps rows.
LEMMA QuietStep ==
    ASSUME Inv, TypeInv',
           UNCHANGED <<legacy, cutoverAck, attempts, order>>,
           \A a \in Auth : RowKept(a) => RowKept(a)',
           \A r \in Req : /\ Owner(r)' => Owner(r)
                          /\ pc'[r] = "verify" => pc[r] = "verify"
                          /\ pc'[r] \in {"probe", "settle"} =>
                                 \/ pc[r] \in {"probe", "settle"}
                                 \/ pc[r] = "verify" /\ ~Expired(AuthOf(r))
                          /\ pc'[r] \in {"finish", "ledger"} /\ ~Cached(out'[r]) =>
                                 \/ pc[r] \in {"probe", "settle"}
                                 \/ pc[r] \in {"finish", "ledger"} /\ ~Cached(out[r])
    PROVE  OneGuardedOwner'
<1>1. \A r \in Req : AuthOf(r)' = AuthOf(r) /\ Cached(out[r])' = Cached(out'[r])
  BY DEF AuthOf, Cached
<1>2. \A r \in Req : Owner(r) => AuthOf(r) \in Auth
  BY DEF Inv, TypeInv, ThreadType, Owner, Running, AuthOf, Order
<1>3. \A r, s \in Req : Owner(r)' /\ Owner(s)' /\ AuthOf(r)' = AuthOf(s)' => r = s
  BY <1>1 DEF Inv, OneGuardedOwner
<1>4. \A r \in Req : Owner(r)' => RowKept(AuthOf(r))'
  <2> SUFFICES ASSUME NEW r \in Req, Owner(r)' PROVE RowKept(AuthOf(r))'
    OBVIOUS
  <2>1. Owner(r) /\ AuthOf(r) \in Auth /\ RowKept(AuthOf(r))
    BY <1>2 DEF Inv, OneGuardedOwner
  <2>2. PICK a \in Auth : a = AuthOf(r)
    BY <2>1
  <2>3. RowKept(a)'
    BY <2>1, <2>2
  <2> QED BY <1>1, <2>2, <2>3 DEF RowKept
<1>5. \A a \in Auth : attempts'[a] > 0 => RowKept(a)' \/ legacy'[a] # "none"
  BY DEF Inv, OneGuardedOwner
<1>6. \A a \in Auth : attempts'[a] <= 1
  BY DEF Inv, OneGuardedOwner
<1>7. \A r \in Req : pc'[r] = "verify" => attempts'[AuthOf(r)'] = 0 \/ Expired(AuthOf(r))'
  BY <1>1 DEF Inv, OneGuardedOwner, Expired
<1>8. \A r \in Req : \/ pc'[r] \in {"probe", "settle"}
                     \/ pc'[r] \in {"finish", "ledger"} /\ ~Cached(out'[r])
                     => attempts'[AuthOf(r)'] = 0
  BY <1>1 DEF Inv, OneGuardedOwner
<1> QED BY <1>1, <1>3, <1>4, <1>5, <1>6, <1>7, <1>8 DEF OneGuardedOwner

\* Reserving a row makes the only owner of an authorization never sent.
LEMMA ReserveGuarded ==
    ASSUME Inv, TypeInv', NEW r \in Req, ReserveRun(r)
    PROVE  OneGuardedOwner'
<1> DEFINE p == Process(r)
           a == AuthOf(r)
           rows == [View(p) EXCEPT ![a] = Pending(r)]
<1> USE DEF Inv
<1>1. p \in Proc /\ a \in Auth /\ order[r] \in Order
  BY DEF ReserveRun, TypeInv, ThreadType, Order, Process, AuthOf
<1>2. Pending(r) \in Row /\ Pending(r) # None
  BY <1>1, NoneAssumption DEF Pending, Row, RowStates, Order
<1>3. rows \in [Auth -> Row \cup {None}] /\ rows[a] # None
      /\ \A b \in Auth \ {a} : rows[b] = View(p)[b]
  BY <1>1, <1>2, ViewType DEF TypeInv
<1>4. Commits(p, rows)
  BY DEF ReserveRun
<1>5. ~RowKept(a)
  BY <1>1, <1>4, KeptIsVisible DEF ReserveRun, Commits
<1>6. \A s \in Req : Owner(s) => AuthOf(s) # a
  BY <1>5 DEF OneGuardedOwner
<1>7. attempts[a] = 0 \/ Expired(a)
  <2>1. legacy[a] = "none" \/ Expired(a)
    BY <1>1 DEF ReserveRun, CutoverReady, Expired
  <2>2. attempts[a] \in Nat
    BY <1>1 DEF TypeInv, WorldType
  <2> QED BY <1>1, <1>5, <2>1, <2>2 DEF OneGuardedOwner
<1>8. \A b \in Auth : RowKept(b) => RowKept(b)'
  <2> SUFFICES ASSUME NEW b \in Auth, RowKept(b) PROVE RowKept(b)'
    OBVIOUS
  <2>1. CanWrite(p) => rows[b] # None
    BY <1>1, <1>3, KeptIsVisible
  <2> QED BY <1>1, <1>3, <1>4, <2>1, WriteKeepsRow DEF TypeInv
<1>9. ASSUME NEW b \in Auth, b = a PROVE RowKept(b)'
  <2>1. ledger'[b] # None /\ conn' = [conn EXCEPT ![p] = AutoCommit]
    BY <1>3, <1>4, <1>9 DEF Commits
  <2>2. \A q \in Proc : conn'[q].mode # "write"
    BY <1>1, <1>4, <2>1 DEF Commits, CanWrite, AutoCommit, TypeInv, DiskType
  <2> QED BY <2>1, <2>2 DEF RowKept
<1>10. /\ \A s \in Req : Owner(s)' <=> Owner(s) \/ s = r
       /\ \A s \in Req : AuthOf(s)' = AuthOf(s)
       /\ \A s \in Req \ {r} : pc'[s] = pc[s]
       /\ pc'[r] = "verify" /\ UNCHANGED <<attempts, legacy, cutoverAck, out>>
  BY DEF ReserveRun, Owner, Running, AuthOf, TypeInv, ThreadType
<1>11. \A s, t \in Req : Owner(s)' /\ Owner(t)' /\ AuthOf(s)' = AuthOf(t)' => s = t
  BY <1>6, <1>10 DEF OneGuardedOwner
<1>12. \A s \in Req : Owner(s)' => RowKept(AuthOf(s))'
  <2> SUFFICES ASSUME NEW s \in Req, Owner(s)' PROVE RowKept(AuthOf(s))'
    OBVIOUS
  <2>1. CASE s = r
    BY <1>1, <1>9, <1>10, <2>1 DEF RowKept
  <2>2. CASE Owner(s)
    <3>1. PICK b \in Auth : b = AuthOf(s)
      BY <2>2 DEF TypeInv, ThreadType, Owner, Running, AuthOf, Order
    <3>2. RowKept(b)'
      BY <1>8, <2>2, <3>1 DEF OneGuardedOwner
    <3> QED BY <1>10, <3>1, <3>2 DEF RowKept
  <2> QED BY <1>10, <2>1, <2>2
<1>13. \A b \in Auth : attempts'[b] > 0 => RowKept(b)' \/ legacy'[b] # "none"
  BY <1>8, <1>10 DEF OneGuardedOwner
<1>14. \A s \in Req : /\ pc'[s] = "verify" =>
                             attempts'[AuthOf(s)'] = 0 \/ Expired(AuthOf(s))'
                      /\ \/ pc'[s] \in {"probe", "settle"}
                         \/ pc'[s] \in {"finish", "ledger"} /\ ~Cached(out'[s])
                         => attempts'[AuthOf(s)'] = 0
  BY <1>7, <1>10 DEF OneGuardedOwner, Expired
<1> QED BY <1>10, <1>11, <1>12, <1>13, <1>14 DEF OneGuardedOwner

\* Sending it is the owner's, and the owner sends it from "settle" only.
LEMMA SettleGuarded ==
    ASSUME Inv, TypeInv', NEW r \in Req, SettlePost(r)
    PROVE  OneGuardedOwner'
<1> DEFINE a == AuthOf(r)
<1> USE DEF Inv
<1>1. a \in Auth /\ Owner(r) /\ attempts[a] = 0 /\ RowKept(a)
  BY DEF SettlePost, Execute, TypeInv, ThreadType, Order, AuthOf, Owner, Running, OneGuardedOwner
<1>2. attempts' = [attempts EXCEPT ![a] = 1]
  BY <1>1 DEF SettlePost
<1>3. /\ \A s \in Req : AuthOf(s)' = AuthOf(s) /\ (Owner(s)' <=> Owner(s))
      /\ \A s \in Req \ {r} : pc'[s] = pc[s] /\ out'[s] = out[s]
      /\ pc'[r] = "settling" /\ UNCHANGED <<legacy, cutoverAck, ledger, conn>>
  BY DEF SettlePost, Execute, Goto, Owner, Running, AuthOf, TypeInv, ThreadType
<1>4. \A b \in Auth : attempts'[b] = IF b = a THEN 1 ELSE attempts[b]
  BY <1>1, <1>2 DEF TypeInv, WorldType
<1>5. \A b : RowKept(b)' <=> RowKept(b)
  BY <1>3 DEF RowKept
<1>6. \A s \in Req : Owner(s)' => RowKept(AuthOf(s))'
  BY <1>3, <1>5 DEF OneGuardedOwner, RowKept
<1>7. \A b \in Auth : attempts'[b] > 0 => RowKept(b)' \/ legacy'[b] # "none"
  BY <1>1, <1>3, <1>4, <1>5 DEF OneGuardedOwner
<1>8. \A s \in Req : \/ pc'[s] \in {"probe", "settle"}
                     \/ pc'[s] \in {"finish", "ledger"} /\ ~Cached(out'[s])
                     => attempts'[AuthOf(s)'] = 0
  <2> SUFFICES ASSUME NEW s \in Req, \/ pc'[s] \in {"probe", "settle"}
                                     \/ pc'[s] \in {"finish", "ledger"} /\ ~Cached(out'[s])
               PROVE  attempts'[AuthOf(s)] = 0
    BY <1>3
  <2>1. s # r /\ Owner(s) /\ AuthOf(s) # a
    BY <1>1, <1>3 DEF Owner, Running, OneGuardedOwner
  <2>2. AuthOf(s) \in Auth /\ attempts[AuthOf(s)] = 0
    BY <1>3, <2>1 DEF TypeInv, ThreadType, Owner, Running, AuthOf, Order, OneGuardedOwner
  <2> QED BY <1>4, <2>1, <2>2
<1>9. \A s \in Req : pc'[s] = "verify" => attempts'[AuthOf(s)'] = 0 \/ Expired(AuthOf(s))'
  <2> SUFFICES ASSUME NEW s \in Req, pc'[s] = "verify", ~Expired(AuthOf(s))
               PROVE  attempts'[AuthOf(s)] = 0
    BY <1>3 DEF Expired
  <2>1. s # r /\ Owner(s) /\ AuthOf(s) # a
    BY <1>1, <1>3 DEF Owner, Running, OneGuardedOwner
  <2>2. AuthOf(s) \in Auth /\ attempts[AuthOf(s)] = 0
    BY <1>3, <2>1 DEF TypeInv, ThreadType, Owner, Running, AuthOf, Order, OneGuardedOwner
  <2> QED BY <1>4, <2>1, <2>2
<1> QED BY <1>3, <1>4, <1>6, <1>7, <1>8, <1>9 DEF OneGuardedOwner

\* The owner's last write removes the row only after a 400, never sent.
LEMMA FinishGuarded ==
    ASSUME Inv, TypeInv', NEW r \in Req, FinishLedger(r)
    PROVE  OneGuardedOwner'
<1> DEFINE p == Process(r)
           a == AuthOf(r)
<1> USE DEF Inv
<1>1. p \in Proc /\ a \in Auth /\ Owner(r) /\ RowKept(a) /\ out[r] \in Outcome
  BY DEF FinishLedger, TypeInv, ThreadType, Order, Process, AuthOf, Owner, Running,
         OneGuardedOwner
<1>2. Finished(r) \in [Auth -> Row \cup {None}]
  BY FinishedType DEF FinishLedger
<1>3. View(p) \in [Auth -> Row \cup {None}]
  BY <1>1, ViewType DEF TypeInv
<1>4. \A b \in Auth \ {a} : Finished(r)[b] = View(p)[b]
  BY <1>3 DEF Finished
<1>5. Cached(out[r]) /\ CanWrite(p) => Finished(r)[a] # None
  <2> SUFFICES ASSUME Cached(out[r]), CanWrite(p) PROVE Finished(r)[a] # None
    OBVIOUS
  <2>1. View(p)[a] # None /\ View(p)[a] \in Row
    BY <1>1, <1>3, KeptIsVisible
  <2>2. FinishState(out[r]) \in RowStates
    BY <1>1, FinishStateType
  <2>3. [View(p)[a] EXCEPT !.state = FinishState(out[r]), !.outcome = out[r]] \in Row
    BY <1>1, <2>1, <2>2 DEF Row
  <2> QED BY <1>1, <1>3, <2>1, <2>3, NoneAssumption DEF Finished
<1>6. ASSUME NEW b \in Auth, RowKept(b), b # a \/ Cached(out[r]) PROVE RowKept(b)'
  <2>1. CanWrite(p) => Finished(r)[b] # None
    BY <1>1, <1>4, <1>5, <1>6, KeptIsVisible
  <2> QED BY <1>1, <1>2, <1>6, <2>1, WriteKeepsRow DEF FinishLedger, TypeInv
<1>7. /\ \A s \in Req : AuthOf(s)' = AuthOf(s) /\ (Owner(s)' <=> Owner(s) /\ s # r)
      /\ \A s \in Req \ {r} : pc'[s] = pc[s] /\ out'[s] = out[s]
      /\ pc'[r] = "reply" /\ UNCHANGED <<legacy, cutoverAck, attempts>>
  BY DEF FinishLedger, Owner, Running, AuthOf, TypeInv, ThreadType
<1>8. \A s \in Req : Owner(s)' => RowKept(AuthOf(s))'
  <2> SUFFICES ASSUME NEW s \in Req, Owner(s)' PROVE RowKept(AuthOf(s))'
    OBVIOUS
  <2>1. Owner(s) /\ s # r /\ AuthOf(s) # a
    BY <1>1, <1>7 DEF OneGuardedOwner
  <2>2. PICK b \in Auth : b = AuthOf(s)
    BY <2>1 DEF TypeInv, ThreadType, Owner, Running, AuthOf, Order
  <2>3. RowKept(b)'
    BY <1>6, <2>1, <2>2 DEF OneGuardedOwner
  <2> QED BY <1>7, <2>2, <2>3 DEF RowKept
<1>9. \A b \in Auth : attempts'[b] > 0 => RowKept(b)' \/ legacy'[b] # "none"
  <2> SUFFICES ASSUME NEW b \in Auth, attempts[b] > 0, legacy[b] = "none" PROVE RowKept(b)'
    BY <1>7
  <2>1. RowKept(b)
    BY DEF OneGuardedOwner
  <2>2. b = a => Cached(out[r])
    BY DEF OneGuardedOwner, FinishLedger
  <2> QED BY <1>6, <2>1, <2>2
<1> QED BY <1>7, <1>8, <1>9 DEF OneGuardedOwner, Expired

\* A new request owns nothing yet.
LEMMA ArriveGuarded ==
    ASSUME Inv, TypeInv', NEW r \in Req, Arrive(r)
    PROVE  OneGuardedOwner'
<1> USE DEF Inv
<1>1. /\ \A s \in Req \ {r} : AuthOf(s)' = AuthOf(s) /\ pc'[s] = pc[s]
      /\ pc'[r] = "begin"
      /\ UNCHANGED <<legacy, cutoverAck, attempts, out, ledger, conn>>
  BY DEF Arrive, AuthOf, TypeInv, ThreadType
<1>2. \A b : RowKept(b)' <=> RowKept(b)
  BY <1>1 DEF RowKept
<1>3. \A s \in Req : Owner(s)' <=> Owner(s) /\ s # r
  BY <1>1 DEF Owner, Running, Arrive
<1>4. \A s \in Req : Owner(s)' => RowKept(AuthOf(s))'
  BY <1>1, <1>2, <1>3 DEF OneGuardedOwner, RowKept
<1> QED BY <1>1, <1>2, <1>3, <1>4 DEF OneGuardedOwner, Expired

\* What a thread's other steps, and everything else, do to the invariant.
LEMMA QuietThread ==
    ASSUME Inv, TypeInv', NEW r \in Req, Thread(r),
           ~ReserveRun(r), ~SettlePost(r), ~FinishLedger(r)
    PROVE  OneGuardedOwner'
<1> USE DEF Inv
<1>1. UNCHANGED <<legacy, cutoverAck, attempts, order>>
  BY DEF Thread, Begin, BeginCompleted, BeginInflight, BeginLookup, BeginUnreadable,
         ReserveRefused, PaidExecute, VerifyAccepts, VerifyRefuses, Probe, SettleUnsent,
         SettleAnswered, AttachTrust, ExecuteRaises, Execute, Finish, FinishMemory,
         WaitEnds, Reply
<1>2. ASSUME NEW a \in Auth, RowKept(a) PROVE RowKept(a)'
  <2>0. pc[r] \in {"begin", "reserve"} =>
            Process(r) \in Proc /\ AuthOf(r) \in Auth /\ order[r] \in Order
    BY DEF TypeInv, ThreadType, Order, Process, AuthOf
  <2>1. CASE UNCHANGED <<ledger, conn>>
    BY <1>2, <2>1 DEF RowKept
  <2>2. CASE BeginLookup(r)
    BY <1>2, <2>0, <2>2
    DEF BeginLookup, AtBegin, RowKept, Pinned, TypeInv, DiskType, Conn
  <2>3. CASE ReserveRefused(r)
    <3> DEFINE rows == [View(Process(r)) EXCEPT ![AuthOf(r)] = Pending(r)]
    <3>1. /\ Process(r) \in Proc /\ AuthOf(r) \in Auth
          /\ Pending(r) \in Row /\ Pending(r) # None
      BY <2>0, <2>3, NoneAssumption DEF ReserveRefused, Pending, Row, RowStates, Order
    <3>2. View(Process(r)) \in [Auth -> Row \cup {None}]
      BY <3>1, ViewType DEF TypeInv
    <3>3. rows \in [Auth -> Row \cup {None}]
      BY <3>1, <3>2
    <3>4. CanWrite(Process(r)) => rows[a] # None
      BY <1>2, <3>1, <3>2, KeptIsVisible
    <3>5. CASE Fails(Process(r), rows)
      BY <1>2, <3>1, <3>3, <3>4, <3>5, WriteKeepsRow DEF TypeInv
    <3>6. CASE conn' = [conn EXCEPT ![Process(r)] = AutoCommit] /\ UNCHANGED ledger
      BY <1>2, <3>1, <3>6, ResetKeepsRow DEF TypeInv
    <3> QED BY <2>1, <2>3, <3>5, <3>6 DEF ReserveRefused, disk
  <2> QED BY <2>1, <2>2, <2>3
          DEF Thread, Begin, BeginCompleted, BeginInflight, BeginUnreadable, PaidExecute,
              VerifyAccepts, VerifyRefuses, Probe, SettleUnsent, SettleAnswered, AttachTrust,
              ExecuteRaises, Execute, Finish, FinishMemory, WaitEnds, Reply
<1>3. ASSUME NEW s \in Req
      PROVE  /\ Owner(s)' => Owner(s)
             /\ pc'[s] = "verify" => pc[s] = "verify"
             /\ pc'[s] \in {"probe", "settle"} =>
                    \/ pc[s] \in {"probe", "settle"}
                    \/ pc[s] = "verify" /\ ~Expired(AuthOf(s))
             /\ pc'[s] \in {"finish", "ledger"} /\ ~Cached(out'[s]) =>
                    \/ pc[s] \in {"probe", "settle"}
                    \/ pc[s] \in {"finish", "ledger"} /\ ~Cached(out[s])
  <2>1. CASE Begin(r)
    <3>1. pc'[r] \in {"reply", "wait", "reserve"} /\ \A t \in Req \ {r} : pc'[t] = pc[t] /\ out'[t] = out[t]
      BY <2>1
      DEF Begin, BeginCompleted, BeginInflight, BeginLookup, BeginUnreadable, ReserveRefused,
          AtBegin, Goto, TypeInv, ThreadType
    <3> QED BY <3>1 DEF Owner, Running
  <2>2. CASE PaidExecute(r)
    <3> DEFINE Moves(to, o) ==
                   \/ to = "probe"  /\ pc[r] = "verify" /\ ~Expired(AuthOf(r))
                   \/ to = "settle" /\ pc[r] = "probe"
                   \/ to = "log"    /\ pc[r] = "settling"
                   \/ /\ to = "finish" /\ Owner(r)
                      /\ Cached(o) \/ pc[r] = "probe"
    <3>1. /\ Cached(Hit(TRUE)) /\ Cached(Hit(FALSE)) /\ Cached(HitUnlogged)
          /\ \A t : Cached(Unknown(t)) /\ Cached(Rejected(t))
      BY DEF Cached, Hit, HitUnlogged, Unknown, Rejected, Billing
    <3>2. \E to, o : Goto(r, to, o) /\ Moves(to, o)
      <4>1. CASE VerifyAccepts(r) \/ VerifyRefuses(r)
        BY <3>1, <4>1 DEF VerifyAccepts, VerifyRefuses, Execute, Owner, Running
      <4>2. CASE Probe(r)
        BY <4>2 DEF Probe, Execute, Owner, Running
      <4>3. CASE SettleUnsent(r) \/ SettleAnswered(r)
        BY <3>1, <4>3 DEF SettleUnsent, SettleAnswered, Execute, Owner, Running
      <4>4. CASE AttachTrust(r) \/ ExecuteRaises(r)
        BY <3>1, <4>4 DEF AttachTrust, ExecuteRaises, Execute, Owner, Running
      <4> QED BY <2>2, <4>1, <4>2, <4>3, <4>4 DEF PaidExecute
    <3>3. PICK to, o : Goto(r, to, o) /\ Moves(to, o)
      BY <3>2
    <3>4. \A t \in Req \ {r} : pc'[t] = pc[t] /\ out'[t] = out[t]
      BY <3>3 DEF Goto, TypeInv, ThreadType
    <3>5. pc'[r] = to /\ out'[r] = o
      BY <3>3 DEF Goto, TypeInv, ThreadType
    <3>6. CASE s # r
      BY <3>4, <3>6 DEF Owner
    <3>7. CASE s = r
      BY <3>3, <3>5, <3>7 DEF Owner, Running
    <3> QED BY <3>6, <3>7
  <2>3. CASE Finish(r)
    BY <2>3
    DEF Finish, FinishMemory, WaitEnds, Reply, Goto, Owner, Running, TypeInv, ThreadType
  <2> QED BY <2>1, <2>2, <2>3 DEF Thread
<1> QED BY <1>1, <1>2, <1>3, QuietStep

LEMMA QuietOthers ==
    ASSUME Inv, TypeInv',
           \/ \E p \in Proc : ReadyProbe(p) \/ Crash(p) \/ \E a \in Auth : Forget(p, a)
           \/ \E a \in Auth : Resolve(a)
           \/ UNCHANGED vars
    PROVE  OneGuardedOwner'
<1> USE DEF Inv
<1>1. UNCHANGED <<legacy, cutoverAck, attempts, order>>
  BY DEF ReadyProbe, Crash, Forget, Resolve, vars
<1>2. ASSUME NEW a \in Auth, RowKept(a) PROVE RowKept(a)'
  <2>1. CASE UNCHANGED <<ledger, conn>>
    BY <1>2, <2>1 DEF RowKept
  <2>2. ASSUME NEW p \in Proc, ReadyProbe(p) \/ Crash(p) PROVE RowKept(a)'
    BY <1>2, <2>2, ResetKeepsRow DEF ReadyProbe, Crash, TypeInv
  <2> QED BY <2>1, <2>2 DEF Forget, Resolve, vars
<1>3. \A s \in Req : pc'[s] = "lost" \/ (pc'[s] = pc[s] /\ out'[s] = out[s])
  <2>1. CASE UNCHANGED <<pc, out>>
    BY <2>1
  <2>2. ASSUME NEW p \in Proc, Crash(p)
        PROVE  \A s \in Req : pc'[s] = "lost" \/ (pc'[s] = pc[s] /\ out'[s] = out[s])
    BY <2>2 DEF Crash
  <2> QED BY <2>1, <2>2 DEF ReadyProbe, Forget, Resolve, vars
<1>4. ASSUME NEW s \in Req
      PROVE  /\ Owner(s)' => Owner(s)
             /\ pc'[s] = "verify" => pc[s] = "verify"
             /\ pc'[s] \in {"probe", "settle"} => pc[s] \in {"probe", "settle"}
             /\ pc'[s] \in {"finish", "ledger"} /\ ~Cached(out'[s]) =>
                    pc[s] \in {"finish", "ledger"} /\ ~Cached(out[s])
  BY <1>3 DEF Owner, Running
<1> QED BY <1>1, <1>2, <1>4, QuietStep

LEMMA GuardedInit == Init => OneGuardedOwner
<1> SUFFICES ASSUME Init PROVE OneGuardedOwner
  OBVIOUS
<1>1. \A a \in Auth : /\ attempts[a] <= 1
                      /\ attempts[a] > 0 => legacy[a] # "none"
  BY DEF Init
<1> QED BY <1>1 DEF Init, OneGuardedOwner, Owner, Running

LEMMA GuardedStep == Inv /\ [Next]_vars => Inv'
<1> SUFFICES ASSUME Inv, [Next]_vars PROVE Inv'
  OBVIOUS
<1>1. TypeInv'
  BY TypeStep DEF Inv
<1>2. OneGuardedOwner'
  BY <1>1, ReserveGuarded, SettleGuarded, FinishGuarded, ArriveGuarded, QuietThread, QuietOthers
  DEF Next
<1> QED BY <1>1, <1>2 DEF Inv

\* At most one owner among all processes, behind a row that outlives it.
THEOREM GuardHolds == Spec => []OneGuardedOwner
<1>1. Spec => []Inv
  BY TypeInit, GuardedInit, GuardedStep, PTL DEF Spec, Inv
<1>2. Inv => OneGuardedOwner
  BY DEF Inv
<1> QED BY <1>1, <1>2, PTL

\* No payment authorization is ever sent to be settled twice.
THEOREM AtMostOneSettlement == Spec => []SettledAtMostOnce
<1>1. OneGuardedOwner => SettledAtMostOnce
  BY DEF OneGuardedOwner, SettledAtMostOnce
<1> QED BY <1>1, GuardHolds, PTL

-----------------------------------------------------------------------------
(* What is answered: the presenters of an authorization hear one definite  *)
(* outcome between them, under one resource URL, and it is true of the     *)
(* money.  With that, the route implements PaidOnce.                       *)

\* An outcome that says what became of the money.
Speaks(o) == o \in Outcome /\ o.settled # "null"

\* Outcome o stands on file for a under s, committed or seen by a connection.
Stored(a, s, o) ==
    \/ ledger[a] # None /\ ledger[a].scope = s /\ ledger[a].outcome = o
    \/ \E p \in Proc : /\ conn[p].view[a] # None
                       /\ conn[p].view[a].scope = s
                       /\ conn[p].view[a].outcome = o

\* Outcome o is in the response cache of a process for a under s.
Remembered(a, s, o) ==
    \E p \in Proc : /\ completed[p][a] # None
                    /\ completed[p][a].scope = s
                    /\ completed[p][a].outcome = o

\* A thread that presents a for s has computed, posted or been told o.
Carried(a, s, o) ==
    \E r \in Req : /\ pc[r] # "idle" /\ AuthOf(r) = a /\ order[r].scope = s
                   /\ o = out[r] \/ o = entry[r] \/ o = told[r]

Holds(a, s, o) == Stored(a, s, o) \/ Remembered(a, s, o) \/ Carried(a, s, o)

\* What o says of the money of a is so, and can no longer become untrue once
\* nobody is left to send it.
Truthful(a, o) == IF o.settled = "yes" THEN money[a] = "charged"
                  ELSE money[a] \in {"fresh", "declined"}

\* The version-1 rows answer by themselves: a settled one as settled.
OldStory(a, o) == legacy[a] = "done" /\ o = Hit(FALSE)

\* The story of a is told: its row stays, its owner has only to repeat it.
Closed(a, o) ==
    /\ legacy[a] = "none"
    /\ RowKept(a)
    /\ \A r \in Req : Owner(r) /\ AuthOf(r) = a =>
                          pc[r] \in {"finish", "ledger"} /\ out[r] = o

\* Wherever a definite outcome is found, in memory, on file, in an uncommitted
\* or outdated view, or on its way to a caller, it is true, it closes the
\* authorization and there is no second one (but for an expired authorization).
OneStory ==
    \A a \in Auth, s \in Scope, o \in Outcome :
        ~Expired(a) /\ Speaks(o) /\ Holds(a, s, o) =>
            /\ Truthful(a, o) /\ Cached(o)
            /\ OldStory(a, o) \/ Closed(a, o)
            /\ legacy[a] = "none" =>
                   \A t \in Scope, q \in Outcome :
                       Speaks(q) /\ Holds(a, t, q) => t = s /\ q = o

\* The row of a is there for scope s, for every connection that can act on it.
RowOf(a, s) ==
    /\ ledger[a] # None /\ ledger[a].scope = s
    /\ \A p \in Proc : conn[p].mode = "write" =>
                           conn[p].view[a] # None /\ conn[p].view[a].scope = s

\* What the threads can rely on about the money and about their row.
MoneyInv ==
    /\ \A a \in Auth : legacy[a] = "done" => money[a] = "charged"
    /\ \A a \in Auth : legacy[a] = "none" /\ attempts[a] = 0 => money[a] = "fresh"
    /\ \A a \in Auth : legacy[a] # "none" => attempts[a] > 0
    /\ \A r \in Req : Owner(r) => legacy[AuthOf(r)] = "none" \/ Expired(AuthOf(r))
    /\ \A r \in Req : pc[r] = "log" => money[AuthOf(r)] = "charged"

RowInv == \A r \in Req : Owner(r) => RowOf(AuthOf(r), order[r].scope)

\* A request holds nothing before it arrives and is told one answer, last.
ToldInv ==
    \A r \in Req : /\ pc[r] = "idle" => out[r] = None /\ entry[r] = None
                   /\ told[r] # None => pc[r] = "done"
                   /\ pc[r] = "reply" => out[r] # None

\* The owner of an entry presents its authorization.
InflightInv ==
    \A p \in Proc, a \in Auth :
        inflight[p][a] # None => /\ pc[inflight[p][a]] # "idle"
                                 /\ AuthOf(inflight[p][a]) = a

\* A waiter waits for one who presents the same authorization for the same URL.
WaitInv ==
    \A r \in Req :
        pc[r] = "wait" => /\ pc[waitsOn[r]] # "idle"
                          /\ AuthOf(waitsOn[r]) = AuthOf(r)
                          /\ order[waitsOn[r]].scope = order[r].scope

QueueInv == ToldInv /\ InflightInv /\ WaitInv


StoryInv == Inv /\ QueueInv /\ MoneyInv /\ RowInv /\ OneStory

-----------------------------------------------------------------------------
(* QueueInv *)

\* A thread moves its own program counter, and nobody's terms.
LEMMA ThreadMoves ==
    ASSUME NEW r \in Req, Thread(r)
    PROVE  /\ UNCHANGED <<order, legacy, cutoverAck>> /\ pc[r] \notin {"idle", "done"}
           /\ \E to \in PcValues \ {"idle"} : pc' = [pc EXCEPT ![r] = to]
<1> USE DEF PcValues, Running, Goto
<1>1. CASE Begin(r)
  BY <1>1 DEF Begin, BeginCompleted, BeginInflight, BeginLookup, BeginUnreadable, AtBegin,
         ReserveRun, ReserveRefused
<1>2. CASE PaidExecute(r)
  BY <1>2 DEF PaidExecute, VerifyAccepts, VerifyRefuses, Probe, SettlePost, SettleUnsent,
         SettleAnswered, AttachTrust, ExecuteRaises, Execute
<1>3. CASE Finish(r)
  BY <1>3 DEF Finish, FinishMemory, FinishLedger, WaitEnds, Reply
<1> QED BY <1>1, <1>2, <1>3 DEF Thread

\* What a thread leaves to the others.
LEMMA ThreadIsLocal ==
    ASSUME TypeInv, NEW r \in Req, Thread(r), NEW s \in Req, s # r
    PROVE  /\ pc'[s] = pc[s] /\ out'[s] = out[s] /\ entry'[s] = entry[s]
           /\ told'[s] = told[s] /\ waitsOn'[s] = waitsOn[s]
<1> USE DEF TypeInv, ThreadType, MemoryType, Goto
<1>1. CASE Begin(r)
  BY <1>1 DEF Begin, BeginCompleted, BeginInflight, BeginLookup, BeginUnreadable,
         ReserveRun, ReserveRefused
<1>2. CASE PaidExecute(r)
  BY <1>2 DEF PaidExecute, VerifyAccepts, VerifyRefuses, Probe, SettlePost, SettleUnsent,
         SettleAnswered, AttachTrust, ExecuteRaises, Execute
<1>3. CASE Finish(r)
  BY <1>3 DEF Finish, FinishMemory, FinishLedger, WaitEnds, Reply
<1> QED BY <1>1, <1>2, <1>3 DEF Thread

\* The terms of a request are fixed when it arrives.
LEMMA TermsFixed ==
    ASSUME TypeInv, [Next]_vars, NEW r \in Req, pc[r] # "idle"
    PROVE  order'[r] = order[r] /\ AuthOf(r)' = AuthOf(r) /\ pc'[r] # "idle"
<1> SUFFICES order'[r] = order[r] /\ pc'[r] # "idle"
  BY DEF AuthOf
<1>1. ASSUME NEW s \in Req, Arrive(s) PROVE order'[r] = order[r] /\ pc'[r] # "idle"
  BY <1>1 DEF Arrive, TypeInv, ThreadType
<1>2. ASSUME NEW s \in Req, Thread(s) PROVE order'[r] = order[r] /\ pc'[r] # "idle"
  BY <1>2, ThreadMoves DEF TypeInv, ThreadType
<1>3. ASSUME NEW p \in Proc, Crash(p) PROVE order'[r] = order[r] /\ pc'[r] # "idle"
  BY <1>3 DEF Crash
<1>4. CASE \/ \E p \in Proc : ReadyProbe(p) \/ \E a \in Auth : Forget(p, a)
           \/ \E a \in Auth : Resolve(a)
           \/ UNCHANGED vars
  BY <1>4 DEF ReadyProbe, Forget, Resolve, vars
<1> QED BY <1>1, <1>2, <1>3, <1>4 DEF Next

LEMMA QueueThread ==
    ASSUME TypeInv, TypeInv', QueueInv, NEW r \in Req, Thread(r)
    PROVE  QueueInv'
<1> USE DEF QueueInv
<1>0. /\ Thread(r) => [Next]_vars
      /\ pc[r] \notin {"idle", "done"} /\ told[r] = None
      /\ Process(r) \in Proc /\ AuthOf(r) \in Auth
  BY ThreadMoves DEF ToldInv, Next, TypeInv, ThreadType, Order, Process, AuthOf
<1>1. ToldInv'
  <2> SUFFICES ASSUME NEW s \in Req
               PROVE  /\ pc'[s] = "idle" => out'[s] = None /\ entry'[s] = None
                      /\ told'[s] # None => pc'[s] = "done"
                      /\ pc'[s] = "reply" => out'[s] # None
    BY DEF ToldInv
  <2>1. CASE s # r
    BY <2>1, ThreadIsLocal DEF ToldInv
  <2>2. CASE s = r
    <3>1. told'[r] # None => pc'[r] = "done"
      <4>1. CASE Reply(r)
        BY <4>1 DEF Reply, Goto, TypeInv, ThreadType
      <4>2. CASE UNCHANGED told
        BY <1>0, <4>2
      <4> QED BY <4>1, <4>2
          DEF Thread, Begin, BeginCompleted, BeginInflight, BeginLookup, BeginUnreadable,
              ReserveRun, ReserveRefused, PaidExecute, VerifyAccepts, VerifyRefuses, Probe,
              SettlePost, SettleUnsent, SettleAnswered, AttachTrust, ExecuteRaises, Execute,
              Finish, FinishMemory, FinishLedger, WaitEnds
    <3>2. pc'[r] = "reply" => out'[r] # None
      <4> USE OutcomeTypes, NoneAssumption DEF Goto, TypeInv, ThreadType, MemoryType
      <4>1. CASE Begin(r)
        <5>1. CASE BeginLookup(r)
          <6>1. View(Process(r))[AuthOf(r)] # None =>
                    Replay(View(Process(r))[AuthOf(r)], order[r].scope) \in Outcome
            BY <1>0, ViewType, ReplayType
          <6>2. Hit(FALSE) # None /\ Unknown("null") # None
            OBVIOUS
          <6>3. \/ /\ View(Process(r))[AuthOf(r)] # None
                   /\ Goto(r, "reply", Replay(View(Process(r))[AuthOf(r)], order[r].scope))
                \/ Goto(r, "reply", Hit(FALSE))
                \/ Goto(r, "reply", Unknown("null"))
                \/ Goto(r, "reserve", None)
            BY <5>1 DEF BeginLookup
          <6>4. pc \in [Req -> PcValues] /\ out \in [Req -> Outcome \cup {None}]
            BY <1>0
          <6> HIDE DEF ThreadType, MemoryType, TypeInv
          <6> QED BY <6>1, <6>2, <6>3, <6>4
        <5>2. CASE BeginCompleted(r)
          <6>1. completed[Process(r)][AuthOf(r)] \in [scope: Scope, outcome: Outcome]
            BY <1>0, <5>2 DEF BeginCompleted
          <6> QED BY <5>2, <6>1 DEF BeginCompleted
        <5> QED BY <4>1, <5>1, <5>2
            DEF Begin, BeginInflight, BeginUnreadable, ReserveRun, ReserveRefused
      <4>2. CASE PaidExecute(r)
        BY <4>2 DEF PaidExecute, VerifyAccepts, VerifyRefuses, Probe, SettlePost,
               SettleUnsent, SettleAnswered, AttachTrust, ExecuteRaises, Execute
      <4>3. CASE Finish(r)
        BY <4>3 DEF Finish, FinishMemory, FinishLedger, WaitEnds, Reply
      <4> QED BY <4>1, <4>2, <4>3 DEF Thread
    <3>3. pc'[r] # "idle"
      BY <1>0, TermsFixed
    <3> QED BY <2>2, <3>1, <3>2, <3>3
  <2> QED BY <2>1, <2>2
<1>2. InflightInv'
  <2> SUFFICES ASSUME NEW p \in Proc, NEW a \in Auth, inflight'[p][a] # None
               PROVE  pc'[inflight'[p][a]] # "idle" /\ order'[inflight'[p][a]].auth = a
    BY DEF InflightInv, AuthOf
  <2>1. \/ inflight'[p][a] = inflight[p][a]
        \/ inflight'[p][a] = r /\ a = AuthOf(r)
    <3>1. CASE ReserveRun(r)
      BY <1>0, <3>1 DEF ReserveRun, TypeInv, MemoryType
    <3>2. CASE FinishMemory(r)
      BY <1>0, <3>2 DEF FinishMemory, TypeInv, MemoryType
    <3> QED BY <3>1, <3>2
        DEF Thread, Begin, BeginCompleted, BeginInflight, BeginLookup, BeginUnreadable,
            ReserveRefused, PaidExecute, VerifyAccepts, VerifyRefuses, Probe,
            SettlePost, SettleUnsent, SettleAnswered, AttachTrust, ExecuteRaises, Execute,
            Finish, FinishLedger, WaitEnds, Reply
  <2>2. PICK s \in Req : s = inflight'[p][a]
    BY DEF TypeInv, MemoryType
  <2>3. pc[s] # "idle" /\ AuthOf(s) = a
    BY <1>0, <2>1, <2>2 DEF InflightInv
  <2> QED BY <1>0, <2>2, <2>3, TermsFixed DEF AuthOf
<1>3. WaitInv'
  <2> SUFFICES ASSUME NEW s \in Req, pc'[s] = "wait"
               PROVE  /\ pc'[waitsOn'[s]] # "idle" /\ order'[waitsOn'[s]].auth = order'[s].auth
                      /\ order'[waitsOn'[s]].scope = order'[s].scope
    BY DEF WaitInv, AuthOf
  <2>1. pc[s] # "idle"
    BY <1>0, ThreadIsLocal
  <2>2. PICK t \in Req : t = waitsOn'[s]
    BY DEF TypeInv, ThreadType
  <2>3. pc[t] # "idle" /\ AuthOf(t) = AuthOf(s) /\ order[t].scope = order[s].scope
    <3>1. CASE s # r
      BY <2>2, <3>1, ThreadIsLocal DEF WaitInv
    <3>2. CASE s = r
      <4>1. BeginInflight(r)
        BY <3>2 DEF Thread, Begin, BeginCompleted, BeginLookup, BeginUnreadable,
            ReserveRun, ReserveRefused, PaidExecute, VerifyAccepts, VerifyRefuses, Probe,
            SettlePost, SettleUnsent, SettleAnswered, AttachTrust, ExecuteRaises, Execute,
            Finish, FinishMemory, FinishLedger, WaitEnds, Reply, Goto, TypeInv, ThreadType
      <4>2. t = inflight[Process(r)][AuthOf(r)] /\ order[t].scope = order[r].scope
        BY <2>2, <3>2, <4>1 DEF BeginInflight, Goto, TypeInv, ThreadType
      <4> QED BY <1>0, <3>2, <4>2, NoneAssumption DEF InflightInv
    <3> QED BY <3>1, <3>2
  <2> QED BY <1>0, <2>1, <2>2, <2>3, TermsFixed DEF AuthOf
<1> QED BY <1>1, <1>2, <1>3

LEMMA QueueOthers ==
    ASSUME TypeInv, TypeInv', QueueInv, [Next]_vars, ~\E r \in Req : Thread(r)
    PROVE  QueueInv'
<1> USE DEF QueueInv
<1>1. ASSUME NEW s \in Req, pc[s] # "idle"
      PROVE  /\ pc'[s] # "idle" /\ order'[s] = order[s] /\ AuthOf(s)' = AuthOf(s)
             /\ waitsOn'[s] = waitsOn[s] /\ entry'[s] = entry[s] /\ told'[s] = told[s]
             /\ pc'[s] = "lost" \/ (pc'[s] = pc[s] /\ out'[s] = out[s])
             /\ pc[s] = "done" => pc'[s] = "done"
  <2>1. UNCHANGED <<waitsOn, entry, told>>
    BY DEF Next, Arrive, ReadyProbe, Crash, Forget, Resolve, vars
  <2>2. pc'[s] = "lost" \/ (pc'[s] = pc[s] /\ out'[s] = out[s])
    BY <1>1 DEF Next, Arrive, ReadyProbe, Crash, Forget, Resolve, vars, TypeInv, ThreadType
  <2>3. pc[s] = "done" => pc'[s] = "done"
    BY <1>1 DEF Next, Arrive, ReadyProbe, Crash, Forget, Resolve, vars, TypeInv, ThreadType
  <2> QED BY <1>1, <2>1, <2>2, <2>3, TermsFixed
<1>2. ASSUME NEW s \in Req, pc[s] = "idle"
      PROVE  /\ pc'[s] \in {"idle", "begin"}
             /\ out'[s] = out[s] /\ entry'[s] = entry[s] /\ told'[s] = told[s]
  BY <1>2 DEF Next, Arrive, ReadyProbe, Crash, Forget, Resolve, vars, TypeInv, ThreadType
<1>3. ToldInv'
  BY <1>1, <1>2 DEF ToldInv
<1>4. InflightInv'
  <2> SUFFICES ASSUME NEW p \in Proc, NEW a \in Auth, inflight'[p][a] # None
               PROVE  pc'[inflight'[p][a]] # "idle" /\ order'[inflight'[p][a]].auth = a
    BY DEF InflightInv, AuthOf
  <2>1. inflight'[p][a] = inflight[p][a]
    <3>1. ASSUME NEW q \in Proc, Crash(q) PROVE inflight'[p][a] = inflight[p][a]
      <4>1. inflight \in [Proc -> [Auth -> Req \cup {None}]]
        BY DEF TypeInv, MemoryType
      <4>2. inflight' = [inflight EXCEPT ![q] = NoRows]
        BY <3>1 DEF Crash
      <4> QED BY <4>1, <4>2 DEF NoRows
    <3>2. CASE ~\E q \in Proc : Crash(q)
      <4>1. inflight' = inflight
        BY <3>2 DEF Next, Arrive, ReadyProbe, Forget, Resolve, vars
      <4> QED BY <4>1
    <3> QED BY <3>1, <3>2
  <2>2. PICK s \in Req : s = inflight'[p][a]
    BY DEF TypeInv, MemoryType
  <2> QED BY <1>1, <2>1, <2>2 DEF InflightInv, AuthOf
<1>5. WaitInv'
  <2> SUFFICES ASSUME NEW s \in Req, pc'[s] = "wait"
               PROVE  /\ pc'[waitsOn'[s]] # "idle" /\ order'[waitsOn'[s]].auth = order'[s].auth
                      /\ order'[waitsOn'[s]].scope = order'[s].scope
    BY DEF WaitInv, AuthOf
  <2>1. PICK t \in Req : t = waitsOn'[s]
    BY DEF TypeInv, ThreadType
  <2>2. pc[s] = "wait" /\ t = waitsOn[s]
    BY <1>1, <1>2, <2>1
  <2> QED BY <1>1, <2>1, <2>2 DEF WaitInv, AuthOf
<1> QED BY <1>3, <1>4, <1>5

LEMMA QueueStep == TypeInv /\ TypeInv' /\ QueueInv /\ [Next]_vars => QueueInv'
BY QueueThread, QueueOthers

-----------------------------------------------------------------------------
(* MoneyInv and RowInv *)

\* Only a post and the facilitator's decision touch the money.
LEMMA WorldMoves ==
    ASSUME [Next]_vars
    PROVE  /\ UNCHANGED <<legacy, cutoverAck>>
           /\ \/ UNCHANGED <<money, attempts>>
              \/ \E r \in Req : SettlePost(r)
              \/ \E a \in Auth : Resolve(a)
<1>1. ASSUME NEW r \in Req, Thread(r), ~SettlePost(r) PROVE UNCHANGED <<money, attempts>>
  BY <1>1 DEF Thread, Begin, BeginCompleted, BeginInflight, BeginLookup, BeginUnreadable,
         ReserveRun, ReserveRefused, PaidExecute, VerifyAccepts, VerifyRefuses, Probe,
         SettleUnsent, SettleAnswered, AttachTrust, ExecuteRaises, Finish, FinishMemory,
         FinishLedger, WaitEnds, Reply
<1> QED BY <1>1, ThreadMoves DEF Next, Arrive, ReadyProbe, Crash, Forget, Resolve, vars

\* Where a thread that is an owner, or attaches its evidence, comes from.
LEMMA OwnerFrom ==
    ASSUME TypeInv, [Next]_vars, NEW s \in Req
    PROVE  /\ Owner(s)' => Owner(s) \/ (ReserveRun(s) /\ CutoverReady)
           /\ pc'[s] = "log" => pc[s] = "log" \/ (SettleAnswered(s) /\ money[AuthOf(s)] = "charged")
<1>1. ASSUME NEW r \in Req, Thread(r), r # s PROVE pc'[s] = pc[s]
  BY <1>1, ThreadIsLocal
<1>2. CASE Begin(s) /\ ~ReserveRun(s)
  BY <1>2 DEF Begin, BeginCompleted, BeginInflight, BeginLookup, BeginUnreadable,
         ReserveRefused, Goto, Owner, Running, TypeInv, ThreadType
<1>3. CASE PaidExecute(s)
  <2>1. Owner(s)
    BY <1>3 DEF PaidExecute, VerifyAccepts, VerifyRefuses, Probe, SettlePost, SettleUnsent,
           SettleAnswered, AttachTrust, ExecuteRaises, Execute, Owner, Running
  <2>2. pc'[s] = "log" => SettleAnswered(s) /\ money[AuthOf(s)] = "charged"
    BY <1>3 DEF PaidExecute, VerifyAccepts, VerifyRefuses, Probe, SettlePost, SettleUnsent,
           SettleAnswered, AttachTrust, ExecuteRaises, Goto, TypeInv, ThreadType
  <2> QED BY <2>1, <2>2
<1>4. CASE Finish(s) \/ ReserveRun(s)
  BY <1>4 DEF Finish, FinishMemory, FinishLedger, WaitEnds, Reply, ReserveRun, Goto, Owner,
         Running, TypeInv, ThreadType
<1>5. CASE \E r \in Req : Arrive(r)
  BY <1>5 DEF Arrive, Owner, Running, TypeInv, ThreadType
<1>6. ASSUME NEW p \in Proc, Crash(p) PROVE pc'[s] = "lost" \/ pc'[s] = pc[s]
  BY <1>6 DEF Crash
<1>7. CASE \/ \E p \in Proc : ReadyProbe(p) \/ \E a \in Auth : Forget(p, a)
           \/ \E a \in Auth : Resolve(a)
           \/ UNCHANGED vars
  BY <1>7 DEF ReadyProbe, Forget, Resolve, vars, Owner
<1> QED BY <1>1, <1>2, <1>3, <1>4, <1>5, <1>6, <1>7 DEF Next, Thread, Owner, Running

LEMMA MoneyStep ==
    ASSUME Inv, TypeInv', MoneyInv, [Next]_vars
    PROVE  MoneyInv'
<1> USE DEF Inv
<1>1. ASSUME NEW a \in Auth
      PROVE  /\ money[a] = "charged" => money'[a] = "charged"
             /\ legacy[a] = "none" /\ attempts'[a] = 0 => money'[a] = "fresh"
             /\ attempts[a] > 0 => attempts'[a] > 0
  <2>1. CASE UNCHANGED <<money, attempts>>
    BY <2>1 DEF MoneyInv
  <2>2. ASSUME NEW r \in Req, SettlePost(r)
        PROVE  /\ money[a] = "charged" => money'[a] = "charged"
               /\ legacy[a] = "none" /\ attempts'[a] = 0 => money'[a] = "fresh"
               /\ attempts[a] > 0 => attempts'[a] > 0
    <3>1. AuthOf(r) \in Auth
      BY <2>2 DEF SettlePost, Execute, TypeInv, ThreadType, Order, AuthOf
    <3>2. attempts'[a] = (IF a = AuthOf(r) THEN attempts[a] + 1 ELSE attempts[a])
          /\ attempts[a] \in Nat
      BY <2>2, <3>1 DEF SettlePost, TypeInv, WorldType
    <3>3. a # AuthOf(r) => money'[a] = money[a]
      BY <2>2, <3>1 DEF SettlePost, TypeInv, WorldType
    <3>4. money[a] = "charged" => money'[a] = "charged"
      BY <2>2, <3>1 DEF SettlePost, TypeInv, WorldType
    <3> QED BY <3>2, <3>3, <3>4 DEF MoneyInv
  <2>3. ASSUME NEW b \in Auth, Resolve(b)
        PROVE  /\ money[a] = "charged" => money'[a] = "charged"
               /\ legacy[a] = "none" /\ attempts'[a] = 0 => money'[a] = "fresh"
               /\ attempts[a] > 0 => attempts'[a] > 0
    <3>1. money[b] = "posted" /\ attempts' = attempts /\ (a # b => money'[a] = money[a])
      BY <2>3 DEF Resolve, TypeInv, WorldType
    <3> QED BY <3>1 DEF MoneyInv
  <2> QED BY <2>1, <2>2, <2>3, WorldMoves
<1>2. legacy' = legacy /\ cutoverAck' = cutoverAck
  BY WorldMoves
<1>3. ASSUME NEW s \in Req, Owner(s)'
      PROVE  legacy'[order'[s].auth] = "none" \/ (cutoverAck' /\ legacy'[order'[s].auth] # "none")
  <2>1. pc[s] # "idle" /\ (Owner(s) \/ CutoverReady)
    BY <1>3, OwnerFrom DEF ReserveRun, Owner, Running
  <2>2. AuthOf(s) \in Auth /\ order'[s] = order[s]
    BY <2>1, TermsFixed DEF TypeInv, ThreadType, Order, AuthOf
  <2>3. legacy[AuthOf(s)] = "none" \/ Expired(AuthOf(s))
    BY <2>1, <2>2 DEF MoneyInv, CutoverReady, Expired
  <2> QED BY <1>2, <2>2, <2>3 DEF AuthOf, Expired
<1>4. ASSUME NEW s \in Req, pc'[s] = "log"
      PROVE  money'[order'[s].auth] = "charged"
  <2>1. pc[s] # "idle" /\ money[AuthOf(s)] = "charged"
    BY <1>4, OwnerFrom DEF MoneyInv, SettleAnswered, Execute
  <2> QED BY <1>1, <2>1, TermsFixed DEF AuthOf, TypeInv, ThreadType, Order
<1> QED BY <1>1, <1>2, <1>3, <1>4 DEF MoneyInv, AuthOf, Expired

\* The reservation r writes, or tries to, of a row its connection does not see.
Reserved(r) == [View(Process(r)) EXCEPT ![AuthOf(r)] = Pending(r)]

Reserving(r) ==
    /\ pc[r] = "reserve"
    /\ CanWrite(Process(r)) => View(Process(r))[AuthOf(r)] = None
    /\ Commits(Process(r), Reserved(r)) \/ Fails(Process(r), Reserved(r))

\* The connection of p rolls back, or pins the snapshot it reads.
Resets(p) == UNCHANGED ledger /\ conn' = [conn EXCEPT ![p] = AutoCommit]
Pins(p)   == UNCHANGED ledger /\ conn' = [conn EXCEPT ![p] = Pinned(p)]

\* Every step is one of these to the file and its connections.
LEMMA DiskMoves ==
    ASSUME TypeInv, [Next]_vars
    PROVE  \/ UNCHANGED <<ledger, conn>>
           \/ \E p \in Proc : Resets(p) \/ Pins(p)
           \/ \E r \in Req : Reserving(r) \/ FinishLedger(r)
<1>1. ASSUME NEW r \in Req, BeginLookup(r) PROVE \E p \in Proc : Pins(p)
  BY <1>1 DEF BeginLookup, AtBegin, Pins, TypeInv, ThreadType, Order, Process
<1>2. ASSUME NEW r \in Req, ReserveRun(r) PROVE Reserving(r)
  BY <1>2 DEF ReserveRun, Reserving, Reserved
<1>3. ASSUME NEW r \in Req, ReserveRefused(r)
      PROVE  \/ UNCHANGED <<ledger, conn>> \/ Reserving(r)
             \/ \E p \in Proc : Resets(p)
  <2>1. Process(r) \in Proc
    BY <1>3 DEF ReserveRefused, TypeInv, ThreadType, Order, Process
  <2> QED BY <1>3, <2>1 DEF ReserveRefused, Reserving, Reserved, Resets
<1>4. ASSUME NEW p \in Proc, ReadyProbe(p) \/ Crash(p) PROVE Resets(p)
  BY <1>4 DEF ReadyProbe, Crash, Resets
<1>5. ASSUME NEW r \in Req, Thread(r), ~BeginLookup(r), ~ReserveRun(r), ~ReserveRefused(r),
             ~FinishLedger(r)
      PROVE  UNCHANGED <<ledger, conn>>
  BY <1>5 DEF Thread, Begin, BeginCompleted, BeginInflight, BeginUnreadable, PaidExecute,
         VerifyAccepts, VerifyRefuses, Probe, SettlePost, SettleUnsent, SettleAnswered,
         AttachTrust, ExecuteRaises, Execute, Finish, FinishMemory, WaitEnds, Reply
<1> QED BY <1>1, <1>2, <1>3, <1>4, <1>5 DEF Next, Arrive, Forget, Resolve, vars

\* A connection that can write sees the row of every owner, under its scope.
LEMMA RowOfVisible ==
    ASSUME NEW p \in Proc, NEW a \in Auth, NEW s, RowOf(a, s), CanWrite(p)
    PROVE  View(p)[a] # None /\ View(p)[a].scope = s
BY DEF RowOf, CanWrite, View

LEMMA WriteKeepsRowOf ==
    ASSUME DiskType, NEW p \in Proc, NEW rows \in [Auth -> Row \cup {None}],
           NEW a \in Auth, NEW s, RowOf(a, s),
           CanWrite(p) => rows[a] # None /\ rows[a].scope = s,
           Commits(p, rows) \/ Fails(p, rows)
    PROVE  RowOf(a, s)'
<1>1. CASE Commits(p, rows)
  BY <1>1 DEF Commits, RowOf, AutoCommit, DiskType, Conn
<1>2. CASE Fails(p, rows)
  <2>1. ledger' = ledger
    BY <1>2 DEF Fails
  <2>2. ASSUME NEW q \in Proc, conn'[q].mode = "write"
        PROVE  conn'[q].view[a] # None /\ conn'[q].view[a].scope = s
    <3>1. CASE ~CanWrite(p)
      <4>1. conn' = [conn EXCEPT ![p].mode =
                        IF conn[p].mode = "auto" THEN "begun" ELSE conn[p].mode]
        BY <1>2, <3>1 DEF Fails
      <4>2. conn'[q].view = conn[q].view /\ (conn[q].mode = "write" \/ conn'[q].mode # "write")
        BY <4>1 DEF DiskType, Conn
      <4> QED BY <2>2, <4>2 DEF RowOf
    <3>2. CASE CanWrite(p)
      BY <1>2, <2>2, <3>2 DEF Fails, RowOf, AutoCommit, DiskType
    <3> QED BY <3>1, <3>2
  <2> QED BY <2>1, <2>2 DEF RowOf
<1> QED BY <1>1, <1>2

\* What r reserves is the pending row of its own authorization and scope.
LEMMA ReservedRows ==
    ASSUME TypeInv, NEW r \in Req, pc[r] = "reserve"
    PROVE  /\ Process(r) \in Proc /\ AuthOf(r) \in Auth
           /\ Reserved(r) \in [Auth -> Row \cup {None}]
           /\ Reserved(r)[AuthOf(r)] = Pending(r) /\ Pending(r) \in Row /\ Pending(r) # None
           /\ \A b \in Auth \ {AuthOf(r)} : Reserved(r)[b] = View(Process(r))[b]
<1>1. Process(r) \in Proc /\ AuthOf(r) \in Auth /\ order[r] \in Order
  BY DEF TypeInv, ThreadType, Order, Process, AuthOf
<1>2. Pending(r) \in Row /\ Pending(r) # None
  BY <1>1, NoneAssumption DEF Pending, Row, RowStates, Order
<1> QED BY <1>1, <1>2, ViewType DEF TypeInv, Reserved

\* What r writes when it finishes: its own row, with its outcome.
LEMMA FinishedRows ==
    ASSUME TypeInv, NEW r \in Req, pc[r] = "ledger"
    PROVE  /\ Process(r) \in Proc /\ AuthOf(r) \in Auth
           /\ Finished(r) \in [Auth -> Row \cup {None}]
           /\ \A b \in Auth \ {AuthOf(r)} : Finished(r)[b] = View(Process(r))[b]
           /\ Finished(r)[AuthOf(r)] # None =>
                  /\ View(Process(r))[AuthOf(r)] # None
                  /\ Finished(r)[AuthOf(r)].scope = View(Process(r))[AuthOf(r)].scope
                  /\ Finished(r)[AuthOf(r)].outcome = out[r]
<1>1. Process(r) \in Proc /\ AuthOf(r) \in Auth /\ Finished(r) \in [Auth -> Row \cup {None}]
  BY FinishedType DEF TypeInv, ThreadType, Order, Process, AuthOf
<1>2. View(Process(r)) \in [Auth -> Row \cup {None}]
  BY <1>1, ViewType DEF TypeInv
<1>3. \A row \in Row : \A t, o : LET new == [row EXCEPT !.state = t, !.outcome = o]
                             IN  new.scope = row.scope /\ new.outcome = o
  BY DEF Row
<1> QED BY <1>1, <1>2, <1>3 DEF Finished

\* The row of an owner that stays one is left in place.
LEMMA RowOfKept ==
    ASSUME Inv, RowInv, [Next]_vars, NEW r \in Req, Owner(r), ~FinishLedger(r),
           NEW a \in Auth, a = AuthOf(r), NEW s, s = order[r].scope
    PROVE  RowOf(a, s)'
<1> USE DEF Inv
<1>1. RowOf(a, s) /\ RowKept(a)
  BY DEF RowInv, OneGuardedOwner
<1>2. CASE UNCHANGED <<ledger, conn>>
  BY <1>1, <1>2 DEF RowOf
<1>3. ASSUME NEW p \in Proc, Resets(p) \/ Pins(p) PROVE RowOf(a, s)'
  <2>1. ledger' = ledger /\ \A q \in Proc : conn'[q].mode = "write" => conn'[q] = conn[q]
    BY <1>3 DEF Resets, Pins, Pinned, AutoCommit, TypeInv, DiskType
  <2> QED BY <1>1, <2>1 DEF RowOf
<1>4. ASSUME NEW t \in Req, Reserving(t) PROVE RowOf(a, s)'
  <2>1. pc[t] = "reserve"
    BY <1>4 DEF Reserving
  <2>2. CanWrite(Process(t)) => Reserved(t)[a] # None /\ Reserved(t)[a].scope = s
    <3> SUFFICES ASSUME CanWrite(Process(t))
                 PROVE  Reserved(t)[a] # None /\ Reserved(t)[a].scope = s
      OBVIOUS
    <3>1. View(Process(t))[a] # None /\ View(Process(t))[a].scope = s
      BY <1>1, <2>1, ReservedRows, RowOfVisible
    <3>2. a # AuthOf(t)
      BY <1>4, <3>1 DEF Reserving
    <3> QED BY <2>1, <3>1, <3>2, ReservedRows
  <2> QED BY <1>1, <1>4, <2>1, <2>2, ReservedRows, WriteKeepsRowOf DEF Reserving, TypeInv
<1>5. ASSUME NEW t \in Req, FinishLedger(t) PROVE RowOf(a, s)'
  <2>1. pc[t] = "ledger" /\ Owner(t)
    BY <1>5 DEF FinishLedger, Owner
  <2>2. a # AuthOf(t)
    BY <1>5, <2>1 DEF OneGuardedOwner
  <2>3. CanWrite(Process(t)) => Finished(t)[a] # None /\ Finished(t)[a].scope = s
    BY <1>1, <2>1, <2>2, FinishedRows, RowOfVisible
  <2> QED BY <1>1, <1>5, <2>1, <2>3, FinishedRows, WriteKeepsRowOf DEF FinishLedger, TypeInv
<1> QED BY <1>2, <1>3, <1>4, <1>5, DiskMoves

LEMMA RowStep ==
    ASSUME Inv, RowInv, [Next]_vars
    PROVE  RowInv'
<1> USE DEF Inv
<1> SUFFICES ASSUME NEW r \in Req, Owner(r)' PROVE RowOf(AuthOf(r), order[r].scope)'
  BY DEF RowInv
<1>1. Owner(r) \/ ReserveRun(r)
  BY OwnerFrom
<1>2. pc[r] # "idle" /\ AuthOf(r) \in Auth
  BY <1>1 DEF Owner, Running, ReserveRun, TypeInv, ThreadType, Order, AuthOf
<1>3. order'[r] = order[r] /\ AuthOf(r)' = AuthOf(r)
  BY <1>2, TermsFixed
<1>4. PICK a \in Auth : a = AuthOf(r)
  BY <1>2
<1>9. PICK s : s = order[r].scope
  OBVIOUS
<1>5. CASE ReserveRun(r)
  <2>1. /\ Process(r) \in Proc /\ CanWrite(Process(r))
        /\ ledger'[a] = Pending(r) /\ Pending(r) # None
        /\ conn' = [conn EXCEPT ![Process(r)] = AutoCommit]
    BY <1>4, <1>9, <1>5, ReservedRows DEF ReserveRun, Commits, Reserved
  <2>2. \A q \in Proc : conn'[q].mode # "write"
    BY <2>1 DEF CanWrite, AutoCommit, TypeInv, DiskType
  <2>3. RowOf(a, s)'
    BY <1>4, <1>9, <2>1, <2>2 DEF RowOf, Pending
  <2> QED BY <1>3, <1>4, <1>9, <2>3 DEF RowOf
<1>6. CASE Owner(r)
  <2>1. ~FinishLedger(r)
    BY DEF FinishLedger, Owner, Running, TypeInv, ThreadType
  <2>2. RowOf(a, s)'
    BY <1>4, <1>9, <1>6, <2>1, RowOfKept
  <2> QED BY <1>3, <1>4, <1>9, <2>2 DEF RowOf
<1> QED BY <1>1, <1>5, <1>6

-----------------------------------------------------------------------------
(* OneStory: where the outcomes found after a step were before it.         *)

\* What a connection sees is on file, or in its view.
LEMMA ViewStored ==
    ASSUME NEW p \in Proc, NEW a \in Auth, View(p)[a] # None
    PROVE  Stored(a, View(p)[a].scope, View(p)[a].outcome)
BY DEF View, Stored

\* A write stores nothing but its rows, and those only if it could execute.
LEMMA WriteStores ==
    ASSUME DiskType, NEW p \in Proc, NEW rows \in [Auth -> Row \cup {None}],
           Commits(p, rows) \/ Fails(p, rows),
           NEW a \in Auth, NEW s, NEW o, Stored(a, s, o)', ~Stored(a, s, o)
    PROVE  CanWrite(p) /\ rows[a] # None /\ rows[a].scope = s /\ rows[a].outcome = o
<1>1. CASE Commits(p, rows)
  <2>1. ledger' = rows /\ CanWrite(p) /\ conn'[p].view[a] = None
        /\ \A q \in Proc \ {p} : conn'[q] = conn[q]
    BY <1>1 DEF Commits, AutoCommit, NoRows, DiskType
  <2> QED BY <2>1 DEF Stored
<1>2. CASE Fails(p, rows)
  <2>1. ledger' = ledger
    BY <1>2 DEF Fails
  <2>2. CASE ~CanWrite(p)
    <3>1. conn' = [conn EXCEPT ![p].mode =
                      IF conn[p].mode = "auto" THEN "begun" ELSE conn[p].mode]
      BY <1>2, <2>2 DEF Fails
    <3>2. \A q \in Proc : conn'[q].view = conn[q].view
      BY <3>1 DEF DiskType, Conn
    <3> QED BY <2>1, <3>2 DEF Stored
  <2>3. CASE CanWrite(p)
    <3>1. /\ \A q \in Proc \ {p} : conn'[q] = conn[q]
          /\ conn'[p].view[a] = None \/ conn'[p].view = rows
      BY <1>2, <2>3 DEF Fails, AutoCommit, NoRows, DiskType
    <3> QED BY <2>1, <2>3, <3>1 DEF Stored
  <2> QED BY <2>2, <2>3
<1> QED BY <1>1, <1>2

\* The file and its views get their outcomes from the owner that finishes.
LEMMA StoredFrom ==
    ASSUME Inv, RowInv, [Next]_vars, NEW a \in Auth, NEW s, NEW o \in Outcome,
           Stored(a, s, o)'
    PROVE  Holds(a, s, o)
<1> USE DEF Inv
<1> SUFFICES ASSUME ~Stored(a, s, o) PROVE Carried(a, s, o)
  BY DEF Holds
<1>1. ~UNCHANGED <<ledger, conn>>
  BY DEF Stored
<1>2. ASSUME NEW p \in Proc, Resets(p) \/ Pins(p) PROVE FALSE
  <2>1. /\ ledger' = ledger /\ \A q \in Proc \ {p} : conn'[q] = conn[q]
        /\ \/ conn'[p].view[a] = None \/ conn'[p].view = ledger \/ conn'[p] = conn[p]
    BY <1>2 DEF Resets, Pins, Pinned, AutoCommit, NoRows, TypeInv, DiskType
  <2> QED BY <2>1 DEF Stored
<1>3. ASSUME NEW r \in Req, Reserving(r) PROVE FALSE
  <2>1. pc[r] = "reserve"
    BY <1>3 DEF Reserving
  <2>2. /\ Reserved(r)[a] # None /\ Reserved(r)[a].scope = s /\ Reserved(r)[a].outcome = o
    BY <1>3, <2>1, ReservedRows, WriteStores DEF Reserving, TypeInv
  <2>3. CASE a = AuthOf(r)
    <3>1. Reserved(r)[a] = Pending(r)
      BY <2>1, <2>3, ReservedRows
    <3>2. Pending(r).outcome = None
      BY DEF Pending
    <3> QED BY <2>2, <3>1, <3>2, NoneAssumption
  <2>4. CASE a # AuthOf(r)
    <3>1. View(Process(r))[a] = Reserved(r)[a] /\ Process(r) \in Proc
      BY <2>1, <2>4, ReservedRows
    <3> QED BY <2>2, <3>1, ViewStored
  <2> QED BY <2>3, <2>4
<1>4. ASSUME NEW r \in Req, FinishLedger(r) PROVE Carried(a, s, o)
  <2>1. pc[r] = "ledger" /\ Owner(r)
    BY <1>4 DEF FinishLedger, Owner
  <2>2. /\ CanWrite(Process(r)) /\ Finished(r)[a] # None
        /\ Finished(r)[a].scope = s /\ Finished(r)[a].outcome = o
    BY <1>4, <2>1, FinishedRows, WriteStores DEF FinishLedger, TypeInv
  <2>3. a = AuthOf(r)
    <3> SUFFICES ASSUME a # AuthOf(r) PROVE FALSE
      OBVIOUS
    <3>1. View(Process(r))[a] = Finished(r)[a] /\ Process(r) \in Proc
      BY <2>1, FinishedRows
    <3> QED BY <2>2, <3>1, ViewStored
  <2>4. /\ View(Process(r))[a].scope = s /\ out[r] = o
    BY <2>1, <2>2, <2>3, FinishedRows
  <2>5. RowOf(a, order[r].scope) /\ Process(r) \in Proc
    BY <2>1, <2>3, FinishedRows DEF RowInv
  <2>6. order[r].scope = s
    BY <2>2, <2>4, <2>5, RowOfVisible
  <2> QED BY <2>1, <2>3, <2>4, <2>6 DEF Carried
<1> QED BY <1>1, <1>2, <1>3, <1>4, DiskMoves

\* The response cache is filled by the owner that finishes.
LEMMA RememberedFrom ==
    ASSUME TypeInv, [Next]_vars, NEW a \in Auth, NEW s, NEW o, Remembered(a, s, o)'
    PROVE  Holds(a, s, o)
<1>1. PICK p \in Proc : /\ completed'[p][a] # None
                        /\ completed'[p][a].scope = s /\ completed'[p][a].outcome = o
  BY DEF Remembered
<1>2. CASE completed'[p][a] = completed[p][a]
  BY <1>1, <1>2 DEF Remembered, Holds
<1>3. ASSUME NEW r \in Req, FinishMemory(r) PROVE Holds(a, s, o)
  <2>1. pc[r] = "finish" /\ Process(r) \in Proc /\ AuthOf(r) \in Auth
    BY <1>3 DEF FinishMemory, TypeInv, ThreadType, Order, Process, AuthOf
  <2>2. \/ completed'[p][a] = completed[p][a]
        \/ /\ a = AuthOf(r)
           /\ completed'[p][a] = [scope |-> order[r].scope, outcome |-> out[r]]
    BY <1>3, <2>1 DEF FinishMemory, TypeInv, MemoryType
  <2> QED BY <1>1, <1>2, <2>1, <2>2 DEF Carried, Holds
<1>4. ASSUME NEW q \in Proc, Crash(q) \/ \E b \in Auth : Forget(q, b)
      PROVE  completed'[p][a] = completed[p][a]
  BY <1>1, <1>4 DEF Crash, Forget, NoRows, TypeInv, MemoryType
<1>5. ASSUME NEW r \in Req, Thread(r), ~FinishMemory(r) PROVE UNCHANGED completed
  BY <1>5 DEF Thread, Begin, BeginCompleted, BeginInflight, BeginLookup, BeginUnreadable,
         ReserveRun, ReserveRefused, PaidExecute, VerifyAccepts, VerifyRefuses, Probe,
         SettlePost, SettleUnsent, SettleAnswered, AttachTrust, ExecuteRaises, Execute,
         Finish, FinishLedger, WaitEnds, Reply
<1> QED BY <1>2, <1>3, <1>4, <1>5 DEF Next, Arrive, ReadyProbe, Resolve, vars

\* Refusals to say anything do not speak of the money.
LEMMA UnknownIsOpen ==
    /\ \A t : ~Speaks(Unknown(t))
    /\ ~Speaks(BadBody) /\ ~Speaks(None)
BY NoneAssumption DEF Speaks, Unknown, BadBody, Billing

\* begin() hands over what is remembered or stored for the same URL.
LEMMA BeginFrom ==
    ASSUME TypeInv, NEW r \in Req, Begin(r), Speaks(out'[r]), out'[r] # out[r]
    PROVE  \/ Holds(AuthOf(r), order[r].scope, out'[r])
           \/ OldStory(AuthOf(r), out'[r])
<1> DEFINE p == Process(r)
           a == AuthOf(r)
<1>1. p \in Proc /\ a \in Auth /\ out \in [Req -> Outcome \cup {None}]
  BY DEF Begin, BeginCompleted, BeginInflight, BeginLookup, BeginUnreadable, AtBegin,
         ReserveRun, ReserveRefused, TypeInv, ThreadType, Order, Process, AuthOf
<1>2. CASE BeginCompleted(r)
  <2>1. /\ completed[p][a] # None /\ completed[p][a].scope = order[r].scope
        /\ out'[r] = completed[p][a].outcome
    BY <1>1, <1>2, UnknownIsOpen DEF BeginCompleted, Goto
  <2> QED BY <1>1, <2>1 DEF Remembered, Holds
<1>3. CASE BeginLookup(r)
  <2>1. CASE View(p)[a] # None
    <3>1. out'[r] = Replay(View(p)[a], order[r].scope)
      BY <1>1, <1>3, <2>1 DEF BeginLookup, Goto
    <3>2. View(p)[a].scope = order[r].scope /\ out'[r] = View(p)[a].outcome
      BY <3>1, UnknownIsOpen DEF Replay
    <3> QED BY <1>1, <2>1, <3>2, ViewStored DEF Holds
  <2>2. CASE View(p)[a] = None
    BY <1>1, <1>3, <2>2, UnknownIsOpen DEF BeginLookup, Goto, OldStory
  <2> QED BY <2>1, <2>2
<1>4. CASE BeginInflight(r) \/ BeginUnreadable(r) \/ ReserveRun(r) \/ ReserveRefused(r)
  BY <1>1, <1>4, UnknownIsOpen
  DEF BeginInflight, BeginUnreadable, ReserveRun, ReserveRefused, Goto
<1> QED BY <1>2, <1>3, <1>4 DEF Begin

\* finish() and its callers pass on what a thread already carries.
LEMMA FinishFrom ==
    ASSUME TypeInv, WaitInv, NEW r \in Req, Finish(r), NEW o, Speaks(o),
           o = out'[r] \/ o = entry'[r] \/ o = told'[r]
    PROVE  Carried(AuthOf(r), order[r].scope, o)
<1> USE DEF TypeInv, ThreadType, MemoryType
<1>1. pc[r] # "idle"
  BY DEF Finish, FinishMemory, FinishLedger, WaitEnds, Reply
<1>2. CASE WaitEnds(r)
  <2>1. CASE o = out'[r]
    <3>1. o = entry[waitsOn[r]] /\ waitsOn[r] \in Req
      BY <1>2, <2>1, UnknownIsOpen DEF WaitEnds, Goto
    <3> QED BY <1>2, <3>1 DEF Carried, WaitInv, WaitEnds
  <2>2. CASE o = entry[r] \/ o = told[r]
    BY <1>1, <2>2 DEF Carried
  <2> QED BY <1>2, <2>1, <2>2 DEF WaitEnds
<1>3. CASE ~WaitEnds(r)
  <2>1. o = out[r] \/ o = entry[r] \/ o = told[r]
    BY <1>3, UnknownIsOpen DEF Finish, FinishMemory, FinishLedger, Reply, Goto
  <2> QED BY <1>1, <2>1 DEF Carried
<1> QED BY <1>2, <1>3

-----------------------------------------------------------------------------
(* OneStory: where the outcomes that speak are born.                       *)

\* _paid_execute of r ends with an outcome that speaks of the money.
Born(r) == PaidExecute(r) /\ Speaks(out'[r])

LEMMA BirthFacts ==
    ASSUME Inv, MoneyInv, ToldInv, NEW r \in Req, Born(r)
    PROVE  /\ pc[r] \in {"verify", "probe", "settling", "log"} /\ pc'[r] = "finish"
           /\ Cached(out'[r]) /\ (~Expired(AuthOf(r)) => Truthful(AuthOf(r), out'[r]))
           /\ UNCHANGED <<disk, fixed, memory, threads, world>>
<1> USE DEF Inv, TypeInv, ThreadType
<1>1. Speaks(out'[r]) /\ UNCHANGED <<disk, fixed, memory, threads>>
  BY DEF Born, PaidExecute, VerifyAccepts, VerifyRefuses, Probe, SettlePost, SettleUnsent,
         SettleAnswered, AttachTrust, ExecuteRaises, Execute
<1>2. pc[r] \in {"verify", "probe"} /\ ~Expired(AuthOf(r)) => money[AuthOf(r)] = "fresh"
  <2> SUFFICES ASSUME pc[r] \in {"verify", "probe"}, ~Expired(AuthOf(r))
               PROVE  money[AuthOf(r)] = "fresh"
    OBVIOUS
  <2>1. AuthOf(r) \in Auth /\ Owner(r)
    BY DEF Order, AuthOf, Owner, Running
  <2> QED BY <2>1 DEF MoneyInv, OneGuardedOwner
<1>3. pc[r] = "log" => money[AuthOf(r)] = "charged"
  BY DEF MoneyInv
<1> USE <1>1, <1>2, <1>3, UnknownIsOpen DEF Goto, Execute, Truthful, Cached, Billing
<1>4. CASE VerifyAccepts(r) \/ VerifyRefuses(r)
  BY <1>4 DEF VerifyAccepts, VerifyRefuses, Rejected
<1>5. CASE Probe(r)
  BY <1>5 DEF Probe, Miss
<1>6. CASE SettlePost(r) \/ SettleUnsent(r) \/ ExecuteRaises(r)
  BY <1>6 DEF SettlePost, SettleUnsent, ExecuteRaises
<1>7. CASE SettleAnswered(r)
  BY <1>7 DEF SettleAnswered, Rejected
<1>8. CASE AttachTrust(r)
  BY <1>8 DEF AttachTrust, Hit, HitUnlogged
<1> QED BY <1>4, <1>5, <1>6, <1>7, <1>8 DEF Born, PaidExecute

\* A definite outcome found in a thread after a step was there before, comes
\* from a version-1 row, or is born in the step.
LEMMA CarriedFrom ==
    ASSUME TypeInv, QueueInv, [Next]_vars, NEW a \in Auth, NEW s, NEW o \in Outcome,
           Speaks(o), Carried(a, s, o)'
    PROVE  \/ Holds(a, s, o)
           \/ OldStory(a, o)
           \/ \E r \in Req : Born(r) /\ AuthOf(r) = a /\ order[r].scope = s /\ o = out'[r]
<1> USE DEF QueueInv
<1>1. PICK r \in Req : /\ pc'[r] # "idle" /\ order'[r].auth = a /\ order'[r].scope = s
                       /\ o = out'[r] \/ o = entry'[r] \/ o = told'[r]
  BY DEF Carried, AuthOf
<1>2. CASE /\ pc[r] # "idle"
           /\ out'[r] = None \/ out'[r] = out[r]
           /\ entry'[r] = entry[r] /\ told'[r] = told[r]
  <2>1. order'[r] = order[r]
    BY <1>2, TermsFixed
  <2>2. o = out[r] \/ o = entry[r] \/ o = told[r]
    BY <1>1, <1>2, NoneAssumption
  <2> QED BY <1>1, <1>2, <2>1, <2>2 DEF Carried, Holds, AuthOf
<1>3. ASSUME NEW t \in Req, Thread(t), t # r PROVE Holds(a, s, o)
  <2>1. pc[r] # "idle"
    BY <1>1, <1>3, ThreadIsLocal
  <2>2. order'[r] = order[r] /\ out'[r] = out[r] /\ entry'[r] = entry[r] /\ told'[r] = told[r]
    BY <1>3, <2>1, ThreadIsLocal, TermsFixed
  <2> QED BY <1>1, <2>1, <2>2 DEF Carried, Holds, AuthOf
<1>4. CASE Thread(r)
  <2>1. pc[r] # "idle" /\ order'[r] = order[r] /\ AuthOf(r) = a /\ order[r].scope = s
    BY <1>1, <1>4, ThreadMoves DEF AuthOf
  <2>2. CASE Finish(r)
    BY <1>1, <2>1, <2>2, FinishFrom DEF Holds
  <2>3. CASE o = out[r] \/ o = entry[r] \/ o = told[r]
    BY <2>1, <2>3 DEF Carried, Holds
  <2>4. CASE ~Finish(r) /\ o = out'[r] /\ o # out[r]
    BY <1>4, <2>1, <2>4, BeginFrom DEF Thread, Born
  <2>5. ~Finish(r) => entry'[r] = entry[r] /\ told'[r] = told[r]
    BY <1>4 DEF Thread, Begin, BeginCompleted, BeginInflight, BeginLookup, BeginUnreadable,
           ReserveRun, ReserveRefused, PaidExecute, VerifyAccepts, VerifyRefuses, Probe,
           SettlePost, SettleUnsent, SettleAnswered, AttachTrust, ExecuteRaises, Execute
  <2> QED BY <1>1, <2>2, <2>3, <2>4, <2>5
<1>5. ASSUME NEW t \in Req, Arrive(t) PROVE Holds(a, s, o)
  <2>1. out' = out /\ entry' = entry /\ told' = told
    BY <1>5 DEF Arrive
  <2>2. pc[r] # "idle"
    BY <1>1, <2>1, NoneAssumption DEF ToldInv
  <2>3. order'[r] = order[r]
    BY <2>2, TermsFixed
  <2> QED BY <1>1, <2>1, <2>2, <2>3 DEF Carried, Holds, AuthOf
<1>6. ASSUME NEW p \in Proc, Crash(p)
      PROVE  /\ pc[r] # "idle"
             /\ out'[r] = None \/ out'[r] = out[r]
             /\ entry'[r] = entry[r] /\ told'[r] = told[r]
  BY <1>1, <1>6 DEF Crash
<1>7. CASE \/ \E p \in Proc : ReadyProbe(p) \/ \E b \in Auth : Forget(p, b)
           \/ \E b \in Auth : Resolve(b)
           \/ UNCHANGED vars
  BY <1>1, <1>2, <1>7 DEF ReadyProbe, Forget, Resolve, vars
<1> QED BY <1>2, <1>3, <1>4, <1>5, <1>6, <1>7 DEF Next

LEMMA HoldsFrom ==
    ASSUME Inv, QueueInv, RowInv, [Next]_vars, NEW a \in Auth, NEW s, NEW o \in Outcome,
           Speaks(o), Holds(a, s, o)'
    PROVE  \/ Holds(a, s, o)
           \/ OldStory(a, o)
           \/ \E r \in Req : Born(r) /\ AuthOf(r) = a /\ order[r].scope = s /\ o = out'[r]
BY StoredFrom, RememberedFrom, CarriedFrom DEF Holds, Inv

\* A kept row goes only when its owner finishes with a 400.
LEMMA KeptRowGoes ==
    ASSUME Inv, [Next]_vars, NEW a \in Auth, RowKept(a),
           ~\E r \in Req : pc[r] = "ledger" /\ AuthOf(r) = a /\ ~Cached(out[r])
    PROVE  RowKept(a)'
<1> USE DEF Inv
<1>1. CASE UNCHANGED <<ledger, conn>>
  BY <1>1, DiskUnchangedKeepsRow
<1>2. ASSUME NEW p \in Proc, Resets(p) \/ Pins(p) PROVE RowKept(a)'
  <2>1. ledger' = ledger /\ \A q \in Proc : conn'[q].mode = "write" => conn'[q] = conn[q]
    BY <1>2 DEF Resets, Pins, Pinned, AutoCommit, TypeInv, DiskType
  <2> QED BY <2>1 DEF RowKept
<1>3. ASSUME NEW r \in Req, Reserving(r) PROVE RowKept(a)'
  <2>1. pc[r] = "reserve"
    BY <1>3 DEF Reserving
  <2>2. CanWrite(Process(r)) => Reserved(r)[a] # None
    BY <2>1, ReservedRows, KeptIsVisible
  <2> QED BY <1>3, <2>1, <2>2, ReservedRows, WriteKeepsRow DEF Reserving, TypeInv
<1>4. ASSUME NEW r \in Req, FinishLedger(r) PROVE RowKept(a)'
  <2>1. pc[r] = "ledger" /\ out[r] \in Outcome
    BY <1>4 DEF FinishLedger, TypeInv, ThreadType
  <2>2. ASSUME CanWrite(Process(r)) PROVE Finished(r)[a] # None
    <3>1. View(Process(r))[a] # None /\ View(Process(r))[a] \in Row
      BY <2>1, <2>2, FinishedRows, KeptIsVisible, ViewType DEF TypeInv
    <3>2. CASE a # AuthOf(r)
      BY <2>1, <3>1, <3>2, FinishedRows
    <3>3. CASE a = AuthOf(r)
      <4>1. FinishState(out[r]) \in RowStates
        BY <2>1, FinishStateType
      <4>2. [View(Process(r))[a] EXCEPT !.state = FinishState(out[r]), !.outcome = out[r]] \in Row
        BY <2>1, <3>1, <4>1 DEF Row
      <4>3. View(Process(r)) \in [Auth -> Row \cup {None}] /\ Cached(out[r])
        BY <2>1, <3>3, FinishedRows, ViewType DEF TypeInv
      <4> QED BY <3>1, <3>3, <4>2, <4>3, NoneAssumption DEF Finished
    <3> QED BY <3>2, <3>3
  <2> QED BY <1>4, <2>1, <2>2, FinishedRows, WriteKeepsRow DEF FinishLedger, TypeInv
<1> QED BY <1>1, <1>2, <1>3, <1>4, DiskMoves

\* An owner that has its outcome keeps it until it stops being an owner.
LEMMA OwnerKeepsOutcome ==
    ASSUME TypeInv, [Next]_vars, NEW r \in Req, pc[r] \in {"finish", "ledger"}, Owner(r)'
    PROVE  pc'[r] \in {"finish", "ledger"} /\ out'[r] = out[r]
<1> USE DEF Owner, Running
<1>1. ASSUME NEW t \in Req, Thread(t), t # r
      PROVE  pc'[r] = pc[r] /\ out'[r] = out[r]
  BY <1>1, ThreadIsLocal
<1>2. CASE Begin(r)
  BY <1>2 DEF Begin, BeginCompleted, BeginInflight, BeginLookup, BeginUnreadable, AtBegin,
         ReserveRun, ReserveRefused
<1>3. CASE PaidExecute(r)
  BY <1>3 DEF PaidExecute, VerifyAccepts, VerifyRefuses, Probe, SettlePost, SettleUnsent,
         SettleAnswered, AttachTrust, ExecuteRaises, Execute
<1>4. CASE Finish(r)
  BY <1>4 DEF Finish, FinishMemory, FinishLedger, WaitEnds, Reply, TypeInv, ThreadType
<1>5. ASSUME NEW t \in Req, Arrive(t)
      PROVE  pc'[r] = pc[r] /\ out'[r] = out[r]
  BY <1>5 DEF Arrive, TypeInv, ThreadType
<1>6. ASSUME NEW p \in Proc, Crash(p)
      PROVE  pc'[r] = "lost" \/ (pc'[r] = pc[r] /\ out'[r] = out[r])
  BY <1>6 DEF Crash
<1>7. CASE \/ \E p \in Proc : ReadyProbe(p) \/ \E b \in Auth : Forget(p, b)
           \/ \E b \in Auth : Resolve(b)
           \/ UNCHANGED vars
  BY <1>7 DEF ReadyProbe, Forget, Resolve, vars
<1> QED BY <1>1, <1>2, <1>3, <1>4, <1>5, <1>6, <1>7 DEF Next, Thread

\* What was true of the money stays true: a told authorization is not sent.
LEMMA TruthStays ==
    ASSUME Inv, MoneyInv, [Next]_vars, NEW a \in Auth, NEW o, Truthful(a, o),
           OldStory(a, o) \/ Closed(a, o), ~Expired(a)
    PROVE  Truthful(a, o)'
<1> USE DEF Inv
<1>1. CASE UNCHANGED <<money, attempts>>
  BY <1>1 DEF Truthful
<1>2. ASSUME NEW r \in Req, SettlePost(r) PROVE money'[a] = money[a]
  <2>1. AuthOf(r) \in Auth /\ Owner(r) /\ pc[r] = "settle"
    BY <1>2 DEF SettlePost, Execute, TypeInv, ThreadType, Order, AuthOf, Owner, Running
  <2>2. a # AuthOf(r)
    BY <2>1 DEF OldStory, Closed, MoneyInv
  <2> QED BY <1>2, <2>1, <2>2 DEF SettlePost, TypeInv, WorldType
<1>3. ASSUME NEW b \in Auth, Resolve(b) PROVE money'[a] = money[a]
  <2>1. money[b] = "posted" /\ a # b
    BY <1>3 DEF Resolve, Truthful
  <2> QED BY <1>3, <2>1 DEF Resolve, TypeInv, WorldType
<1> QED BY <1>1, <1>2, <1>3, WorldMoves DEF Truthful

\* What closes an authorization stays closed.
LEMMA ClosedStays ==
    ASSUME Inv, [Next]_vars, NEW a \in Auth, NEW o, Closed(a, o), Cached(o)
    PROVE  Closed(a, o)'
<1> USE DEF Inv
<1>1. legacy'[a] = "none"
  BY WorldMoves DEF Closed
<1>2. RowKept(a)'
  <2>1. ~\E r \in Req : pc[r] = "ledger" /\ AuthOf(r) = a /\ ~Cached(out[r])
    BY DEF Closed, Owner
  <2> QED BY <2>1, KeptRowGoes DEF Closed
<1>3. ASSUME NEW r \in Req, Owner(r)', order'[r].auth = a
      PROVE  pc'[r] \in {"finish", "ledger"} /\ out'[r] = o
  <2>1. Owner(r) \/ ReserveRun(r)
    BY <1>3, OwnerFrom
  <2>2. pc[r] # "idle"
    BY <2>1 DEF Owner, Running, ReserveRun
  <2>3. AuthOf(r) = a
    BY <1>3, <2>2, TermsFixed DEF AuthOf
  <2>4. ~ReserveRun(r)
    <3> SUFFICES ASSUME ReserveRun(r) PROVE FALSE
      OBVIOUS
    <3>1. Process(r) \in Proc /\ CanWrite(Process(r)) /\ View(Process(r))[a] = None
      BY <2>3, ReservedRows DEF ReserveRun, Commits
    <3> QED BY <3>1, KeptIsVisible DEF Closed
  <2>5. pc[r] \in {"finish", "ledger"} /\ out[r] = o
    BY <2>1, <2>3, <2>4 DEF Closed
  <2> QED BY <1>3, <2>5, OwnerKeepsOutcome
<1> QED BY <1>1, <1>2, <1>3 DEF Closed, AuthOf

\* Before an outcome is born nothing definite is held for its authorization.
LEMMA NoStoryYet ==
    ASSUME Inv, MoneyInv, OneStory, NEW r \in Req, NEW a \in Auth, a = AuthOf(r),
           Owner(r), pc[r] \notin {"finish", "ledger"}, ~Expired(a),
           NEW s \in Scope, NEW o \in Outcome, Speaks(o)
    PROVE  ~Holds(a, s, o)
BY DEF OneStory, OldStory, Closed, MoneyInv

LEMMA StoryStep ==
    ASSUME StoryInv, Inv', MoneyInv', [Next]_vars
    PROVE  OneStory'
<1> USE DEF StoryInv
<1>1. /\ Inv /\ TypeInv /\ OneGuardedOwner /\ OneGuardedOwner' /\ TypeInv'
      /\ legacy' = legacy /\ cutoverAck' = cutoverAck
  BY WorldMoves DEF Inv
<1>2. SUFFICES ASSUME NEW a \in Auth, NEW s \in Scope, NEW o \in Outcome,
                      ~Expired(a), Speaks(o), Holds(a, s, o)'
               PROVE  /\ Truthful(a, o)' /\ Cached(o)
                      /\ OldStory(a, o)' \/ Closed(a, o)'
                      /\ legacy[a] = "none" =>
                             \A t \in Scope, q \in Outcome :
                                 Speaks(q) /\ Holds(a, t, q)' => t = s /\ q = o
  BY <1>1 DEF OneStory, Speaks, Cached, Expired
<1>3. OldStory(a, o) => Truthful(a, o)' /\ Cached(o) /\ OldStory(a, o)'
  BY <1>1 DEF OldStory, Truthful, MoneyInv, Cached, Hit, Billing
<1>4. CASE \E r \in Req : Born(r) /\ AuthOf(r) = a
  <2>1. PICK r \in Req : Born(r) /\ AuthOf(r) = a
    BY <1>4
  <2>2. /\ pc[r] \in {"verify", "probe", "settling", "log"} /\ pc'[r] = "finish"
        /\ Cached(out'[r]) /\ Truthful(a, out'[r])
        /\ UNCHANGED <<disk, fixed, memory, threads, world>>
    BY <1>1, <1>2, <2>1, BirthFacts DEF QueueInv
  <2>3. /\ Owner(r) /\ pc[r] \notin {"finish", "ledger"}
        /\ Owner(r)' /\ AuthOf(r)' = a /\ legacy[a] = "none"
    BY <1>2, <2>1, <2>2 DEF Owner, Running, AuthOf, MoneyInv
  <2>4. \A t \in Scope, q \in Outcome :
            Speaks(q) /\ Holds(a, t, q)' => t = order[r].scope /\ q = out'[r]
    <3> SUFFICES ASSUME NEW t \in Scope, NEW q \in Outcome, Speaks(q), Holds(a, t, q)'
                 PROVE  t = order[r].scope /\ q = out'[r]
      OBVIOUS
    <3>1. ~Holds(a, t, q) /\ ~OldStory(a, q)
      BY <1>1, <1>2, <2>1, <2>3, NoStoryYet DEF OldStory
    <3>2. PICK x \in Req : Born(x) /\ AuthOf(x) = a /\ order[x].scope = t /\ q = out'[x]
      BY <1>1, <3>1, HoldsFrom
    <3>3. Owner(x)
      BY <1>1, <3>2, BirthFacts DEF Owner, Running, QueueInv
    <3>4. x = r
      BY <1>1, <2>1, <2>3, <3>2, <3>3 DEF OneGuardedOwner
    <3> QED BY <3>2, <3>4
  <2>5. o = out'[r] /\ s = order[r].scope
    BY <1>2, <2>4
  <2>6. Closed(a, o)'
    <3>1. RowKept(a)'
      BY <1>1, <2>2, <2>3 DEF OneGuardedOwner, RowKept
    <3>2. ASSUME NEW x \in Req, Owner(x)', AuthOf(x)' = a PROVE x = r
      BY <1>1, <2>3, <3>2 DEF OneGuardedOwner
    <3> QED BY <1>1, <2>2, <2>3, <2>5, <3>1, <3>2 DEF Closed
  <2> QED BY <2>2, <2>4, <2>5, <2>6 DEF Truthful
<1>5. CASE ~\E r \in Req : Born(r) /\ AuthOf(r) = a
  <2>1. ASSUME NEW t \in Scope, NEW q \in Outcome, Speaks(q), Holds(a, t, q)'
        PROVE  Holds(a, t, q) \/ OldStory(a, q)
    BY <1>1, <1>5, <2>1, HoldsFrom
  <2>2. CASE OldStory(a, o)
    BY <1>3, <2>2 DEF OldStory
  <2>3. CASE Holds(a, s, o)
    <3>1. Truthful(a, o) /\ Cached(o) /\ (OldStory(a, o) \/ Closed(a, o))
      BY <1>2, <2>3 DEF OneStory
    <3>2. Truthful(a, o)'
      BY <1>1, <1>2, <3>1, TruthStays
    <3>3. Closed(a, o) => Closed(a, o)'
      BY <1>1, <3>1, ClosedStays
    <3>4. legacy[a] = "none" =>
              \A t \in Scope, q \in Outcome :
                  Speaks(q) /\ Holds(a, t, q)' => t = s /\ q = o
      BY <1>2, <2>1, <2>3 DEF OneStory, OldStory
    <3> QED BY <1>3, <3>1, <3>2, <3>3, <3>4
  <2> QED BY <1>2, <2>1, <2>2, <2>3
<1> QED BY <1>4, <1>5

LEMMA StoryInit == Init => StoryInv
<1> SUFFICES ASSUME Init PROVE StoryInv
  OBVIOUS
<1>1. Inv
  BY TypeInit, GuardedInit DEF Inv
<1>2. QueueInv
  BY DEF Init, QueueInv, ToldInv, InflightInv, WaitInv, NoRows
<1>3. MoneyInv
  <2>1. \A a \in Auth : /\ legacy[a] = "done" => money[a] = "charged"
                        /\ legacy[a] = "none" => money[a] = "fresh"
                        /\ legacy[a] # "none" => attempts[a] > 0
    BY DEF Init
  <2> QED BY <2>1 DEF Init, MoneyInv, Owner, Running
<1>4. RowInv
  BY DEF Init, RowInv, Owner, Running
<1>5. \A a \in Auth : \A s, o : ~Holds(a, s, o)
  BY DEF Init, Holds, Stored, Remembered, Carried, NoRows, AutoCommit
<1> QED BY <1>1, <1>2, <1>3, <1>4, <1>5 DEF StoryInv, OneStory

LEMMA StoryNext == StoryInv /\ [Next]_vars => StoryInv'
<1> SUFFICES ASSUME StoryInv, [Next]_vars PROVE StoryInv'
  OBVIOUS
<1>1. Inv /\ QueueInv /\ MoneyInv /\ RowInv /\ TypeInv
  BY DEF StoryInv, Inv
<1>2. Inv' /\ TypeInv'
  BY <1>1, GuardedStep DEF Inv
<1>3. QueueInv' /\ MoneyInv' /\ RowInv'
  BY <1>1, <1>2, QueueStep, MoneyStep, RowStep
<1>4. OneStory'
  BY <1>2, <1>3, StoryStep
<1> QED BY <1>2, <1>3, <1>4 DEF StoryInv

LEMMA StoryAlways == Spec => []StoryInv
BY StoryInit, StoryNext, PTL DEF Spec

\* What a caller was told is an outcome its thread holds.
LEMMA ToldIsHeld ==
    ASSUME StoryInv, NEW r \in Req, Definite(r)
    PROVE  /\ told[r] \in Outcome /\ Speaks(told[r])
           /\ order[r] \in Order /\ order[r].auth \in Auth /\ order[r].scope \in Scope
           /\ Holds(order[r].auth, order[r].scope, told[r])
<1>1. pc[r] = "done" /\ told[r] \in Outcome
  BY DEF Definite, StoryInv, QueueInv, ToldInv, Inv, TypeInv, ThreadType
<1>2. order[r] \in Order
  BY <1>1 DEF StoryInv, Inv, TypeInv, ThreadType
<1> QED BY <1>1, <1>2 DEF Definite, Speaks, Holds, Carried, AuthOf, Order

\* The presenters of one authorization hear one definite outcome between them,
\* whichever thread, process, cache or row it comes from.
THEOREM OneAnswer == Spec => []OneDefiniteAnswer
<1>1. ASSUME StoryInv PROVE OneDefiniteAnswer
  <2> SUFFICES ASSUME NEW r \in Req, NEW s \in Req, Definite(r), Definite(s),
                      order[r].auth = order[s].auth, ~Expired(order[r].auth)
               PROVE  told[r] = told[s]
    BY DEF OneDefiniteAnswer
  <2> DEFINE a == order[r].auth
  <2>1. /\ a \in Auth /\ order[r].scope \in Scope /\ order[s].scope \in Scope
        /\ told[r] \in Outcome /\ told[s] \in Outcome /\ Speaks(told[r]) /\ Speaks(told[s])
        /\ Holds(a, order[r].scope, told[r]) /\ Holds(a, order[s].scope, told[s])
    BY <1>1, ToldIsHeld
  <2>2. CASE legacy[a] = "none"
    BY <1>1, <2>1, <2>2 DEF StoryInv, OneStory
  <2>3. CASE legacy[a] # "none"
    <3>1. \A o : OldStory(a, o) \/ Closed(a, o) => o = Hit(FALSE)
      BY <2>3 DEF OldStory, Closed
    <3>2. /\ OldStory(a, told[r]) \/ Closed(a, told[r])
          /\ OldStory(a, told[s]) \/ Closed(a, told[s])
      BY <1>1, <2>1 DEF StoryInv, OneStory
    <3> QED BY <3>1, <3>2
  <2> QED BY <2>2, <2>3
<1> QED BY <1>1, StoryAlways, PTL

\* A definite outcome is heard under one resource URL only, unless a version-1
\* row, which has no scope, gave it.
THEOREM AnswerInScope == Spec => []OutcomeStaysInScope
<1>1. ASSUME StoryInv PROVE OutcomeStaysInScope
  <2> SUFFICES ASSUME NEW r \in Req, NEW s \in Req, Definite(r), Definite(s),
                      order[r].auth = order[s].auth, legacy[order[r].auth] = "none"
               PROVE  order[r].scope = order[s].scope
    BY DEF OutcomeStaysInScope
  <2> DEFINE a == order[r].auth
  <2>1. /\ a \in Auth /\ order[r].scope \in Scope /\ order[s].scope \in Scope
        /\ told[r] \in Outcome /\ told[s] \in Outcome /\ Speaks(told[r]) /\ Speaks(told[s])
        /\ Holds(a, order[r].scope, told[r]) /\ Holds(a, order[s].scope, told[s])
    BY <1>1, ToldIsHeld
  <2>2. ~Expired(a)
    BY DEF Expired
  <2> QED BY <1>1, <2>1, <2>2 DEF StoryInv, OneStory
<1> QED BY <1>1, StoryAlways, PTL

-----------------------------------------------------------------------------
(* Refinement *)

phaseOf == [a \in Auth |-> IF money[a] = "fresh" /\ SaidNo(a) THEN "void" ELSE money[a]]
answerOf == [r \in Req |-> IF ~Spoken(r) THEN None
                           ELSE [auth |-> order[r].auth, settled |-> told[r].settled]]

\* What PaidOnce sees of a step that answers nobody: the money only.
LEMMA NobodyAnswered ==
    ASSUME StoryInv, [Next]_vars, UNCHANGED told
    PROVE  UNCHANGED answerOf /\ \A a \in Auth : SaidNo(a)' <=> SaidNo(a)
<1>0. UNCHANGED <<legacy, cutoverAck>>
  BY WorldMoves
<1>1. ASSUME NEW r \in Req, told[r] # None PROVE order'[r] = order[r]
  <2>1. pc[r] # "idle" /\ TypeInv
    BY <1>1 DEF StoryInv, QueueInv, ToldInv, Inv
  <2> QED BY <2>1, TermsFixed
<1>4. \A r \in Req : Spoken(r)' <=> Spoken(r)
  BY <1>0, <1>1 DEF Spoken, Expired
<1>2. UNCHANGED answerOf
  BY <1>1, <1>4 DEF answerOf, Spoken
<1>3. \A a \in Auth : SaidNo(a)' <=> SaidNo(a)
  BY <1>1, <1>4 DEF SaidNo, Spoken
<1> QED BY <1>2, <1>3

\* Only Reply answers.
LEMMA OnlyReplyTells ==
    ASSUME [Next]_vars
    PROVE  UNCHANGED told \/ \E r \in Req : Reply(r)
<1>1. ASSUME NEW r \in Req, Thread(r), ~Reply(r) PROVE UNCHANGED told
  BY <1>1 DEF Thread, Begin, BeginCompleted, BeginInflight, BeginLookup, BeginUnreadable,
         ReserveRun, ReserveRefused, PaidExecute, VerifyAccepts, VerifyRefuses, Probe,
         SettlePost, SettleUnsent, SettleAnswered, AttachTrust, ExecuteRaises, Execute,
         Finish, FinishMemory, FinishLedger, WaitEnds
<1> QED BY <1>1 DEF Next, Arrive, ReadyProbe, Crash, Forget, Resolve, vars

\* The post of the route is the one post of PaidOnce.
LEMMA PostRefines ==
    ASSUME StoryInv, [Next]_vars, NEW r \in Req, SettlePost(r)
    PROVE  Once!Next
<1> DEFINE a == AuthOf(r)
<1>1. /\ TypeInv /\ OneGuardedOwner /\ MoneyInv /\ OneStory /\ Inv
  BY DEF StoryInv, Inv
<1>2. a \in Auth /\ Owner(r) /\ pc[r] = "settle" /\ UNCHANGED told
  BY <1>1 DEF SettlePost, Execute, TypeInv, ThreadType, Order, AuthOf, Owner, Running
<1>3. money[a] = "fresh" /\ ~Expired(a)
  <2>1. attempts[a] = 0
    BY <1>1, <1>2 DEF OneGuardedOwner
  <2>2. legacy[a] = "none"
    BY <1>1, <1>2, <2>1 DEF MoneyInv
  <2> QED BY <1>1, <1>2, <2>1, <2>2 DEF MoneyInv, Expired
<1>4. ~SaidNo(a)
  <2> SUFFICES ASSUME NEW s \in Req, told[s] # None, told[s].settled = "no",
                      order[s].auth = a
               PROVE  FALSE
    BY DEF SaidNo, Spoken
  <2>1. Definite(s)
    BY DEF Definite
  <2>2. /\ told[s] \in Outcome /\ Speaks(told[s]) /\ order[s].scope \in Scope
        /\ Holds(a, order[s].scope, told[s])
    BY <2>1, ToldIsHeld
  <2> QED BY <1>1, <1>2, <1>3, <2>2, NoStoryYet
<1>5. UNCHANGED answerOf /\ \A b \in Auth : SaidNo(b)' <=> SaidNo(b)
  BY <1>2, NobodyAnswered
<1>6. money' = [money EXCEPT ![a] = "posted"] /\ money \in [Auth -> {"fresh", "posted", "charged", "declined"}]
  BY <1>1, <1>3 DEF SettlePost, TypeInv, WorldType
<1>7. phaseOf[a] = "fresh" /\ phaseOf' = [phaseOf EXCEPT ![a] = "posted"]
  BY <1>2, <1>3, <1>4, <1>5, <1>6 DEF phaseOf
<1> QED BY <1>2, <1>5, <1>7 DEF Once!Next, Once!Post, phaseOf, answerOf

\* The facilitator's decision is PaidOnce's.
LEMMA ResolveRefines ==
    ASSUME StoryInv, [Next]_vars, NEW a \in Auth, Resolve(a)
    PROVE  Once!Next
<1>1. UNCHANGED told /\ money[a] = "posted"
      /\ money \in [Auth -> {"fresh", "posted", "charged", "declined"}]
  BY DEF Resolve, StoryInv, Inv, TypeInv, WorldType
<1>2. UNCHANGED answerOf /\ \A b \in Auth : SaidNo(b)' <=> SaidNo(b)
  BY <1>1, NobodyAnswered
<1>3. PICK d \in {"charged", "declined"} : money' = [money EXCEPT ![a] = d]
  BY DEF Resolve
<1>4. phaseOf[a] = "posted" /\ phaseOf' = [phaseOf EXCEPT ![a] = d]
  BY <1>1, <1>2, <1>3 DEF phaseOf
<1> QED BY <1>2, <1>4 DEF Once!Next, Once!Resolve, phaseOf, answerOf

\* Every reply is an answer PaidOnce allows.
LEMMA ReplyRefines ==
    ASSUME StoryInv, NEW r \in Req, Reply(r), ~Expired(AuthOf(r))
    PROVE  Once!Next
<1> DEFINE o == out[r]
<1>1. TypeInv /\ ToldInv /\ OneStory /\ OneGuardedOwner
  BY DEF StoryInv, Inv, QueueInv
<1>0. PICK a \in Auth : a = AuthOf(r)
  BY <1>1 DEF Reply, TypeInv, ThreadType, Order, AuthOf
<1>2. /\ pc[r] = "reply" /\ order[r].scope \in Scope
      /\ o \in Outcome /\ told[r] = None
  BY <1>1 DEF Reply, TypeInv, ThreadType, Order, AuthOf, ToldInv
<1>3. /\ UNCHANGED <<order, money, legacy, cutoverAck>>
      /\ told' = [told EXCEPT ![r] = o] /\ told \in [Req -> Outcome \cup {None}]
  BY <1>1 DEF Reply, TypeInv, ThreadType
<1>4. answerOf[r] = None /\ ~Spoken(r)
  BY <1>2 DEF answerOf, Spoken
<1>11. Spoken(r)' /\ \A x \in Req \ {r} : Spoken(x)' <=> Spoken(x)
  BY <1>0, <1>2, <1>3, NoneAssumption DEF Spoken, Expired, AuthOf
<1>5. answerOf' = [answerOf EXCEPT ![r] = [auth |-> a, settled |-> o.settled]]
  BY <1>0, <1>2, <1>3, <1>11 DEF answerOf, AuthOf
<1>6. \A b \in Auth : SaidNo(b)' <=> SaidNo(b) \/ (b = a /\ o.settled = "no")
  BY <1>0, <1>2, <1>3, <1>4, <1>11 DEF SaidNo, AuthOf
<1>7. Speaks(o) => Truthful(a, o)
  BY <1>0, <1>1, <1>2 DEF Holds, Carried, OneStory
<1>8. CASE o.settled = "yes"
  <2>1. money[a] = "charged"
    BY <1>2, <1>7, <1>8 DEF Speaks, Truthful
  <2>2. phaseOf[a] = "charged" /\ UNCHANGED phaseOf
    BY <1>2, <1>3, <1>6, <1>8, <2>1 DEF phaseOf
  <2> QED BY <1>2, <1>4, <1>5, <1>8, <2>2 DEF Once!Next, Once!AnswerSettled, phaseOf, answerOf
<1>9. CASE o.settled = "no"
  <2>1. money[a] \in {"fresh", "declined"}
    BY <1>2, <1>7, <1>9 DEF Speaks, Truthful
  <2>2. /\ phaseOf[a] \in {"fresh", "void", "declined"}
        /\ phaseOf' = [phaseOf EXCEPT ![a] = IF phaseOf[a] = "fresh" THEN "void" ELSE phaseOf[a]]
    BY <1>2, <1>3, <1>6, <1>9, <2>1 DEF phaseOf
  <2>3. Once!AnswerNotSettled(r, a)
    BY <1>4, <1>5, <1>9, <2>2 DEF Once!AnswerNotSettled, phaseOf, answerOf
  <2> QED BY <2>3 DEF Once!Next
<1>10. CASE o.settled = "null"
  <2>1. UNCHANGED phaseOf
    BY <1>2, <1>3, <1>6, <1>10 DEF phaseOf
  <2> QED BY <1>2, <1>4, <1>5, <1>10, <2>1 DEF Once!Next, Once!AnswerOpen, phaseOf, answerOf
<1> QED BY <1>2, <1>8, <1>9, <1>10 DEF Outcome

\* A reply to an expired authorization is no answer PaidOnce sees.
LEMMA ExpiredReply ==
    ASSUME StoryInv, NEW r \in Req, Reply(r), Expired(AuthOf(r))
    PROVE  UNCHANGED <<answerOf, phaseOf>>
<1>1. TypeInv
  BY DEF StoryInv, Inv
<1>2. /\ UNCHANGED <<order, money, legacy, cutoverAck>>
      /\ \A x \in Req \ {r} : told'[x] = told[x]
  BY <1>1 DEF Reply, TypeInv, ThreadType
<1>3. \A x \in Req : /\ Spoken(x)' <=> Spoken(x)
                     /\ Spoken(x) => told'[x] = told[x]
  BY <1>2 DEF Spoken, Expired, AuthOf
<1>4. UNCHANGED answerOf
  BY <1>2, <1>3 DEF answerOf
<1>5. \A a \in Auth : SaidNo(a)' <=> SaidNo(a)
  BY <1>2, <1>3 DEF SaidNo
<1> QED BY <1>2, <1>4, <1>5 DEF phaseOf

\* The route keeps the promise of PaidOnce: an authorization is sent at most
\* once, and nobody is told anything about the money that is not so.
THEOREM RouteKeepsPromise == Spec => ImplementsPaidOnce
<1>1. Init => Once!Init
  <2> SUFFICES ASSUME Init PROVE Once!Init
    OBVIOUS
  <2>1. \A r \in Req : told[r] = None
    BY DEF Init
  <2>2. money \in [Auth -> {"fresh", "posted", "charged", "declined"}]
    BY TypeInit DEF TypeInv, WorldType
  <2> QED BY <2>1, <2>2 DEF Once!Init, Once!Phases, SaidNo, Spoken
<1>2. ASSUME StoryInv, [Next]_vars PROVE [Once!Next]_Once!vars
  <2>1. CASE \E r \in Req : Reply(r)
    <3>1. PICK r \in Req : Reply(r)
      BY <2>1
    <3>2. CASE Expired(AuthOf(r))
      BY <1>2, <3>1, <3>2, ExpiredReply DEF Once!vars, phaseOf, answerOf
    <3>3. CASE ~Expired(AuthOf(r))
      BY <1>2, <3>1, <3>3, ReplyRefines
    <3> QED BY <3>2, <3>3
  <2>2. CASE \E r \in Req : SettlePost(r)
    BY <1>2, <2>2, PostRefines
  <2>3. CASE \E a \in Auth : Resolve(a)
    BY <1>2, <2>3, ResolveRefines
  <2>4. CASE UNCHANGED <<told, money>>
    BY <1>2, <2>4, NobodyAnswered DEF Once!vars, phaseOf, answerOf
  <2> QED BY <1>2, <2>1, <2>2, <2>3, <2>4, WorldMoves, OnlyReplyTells
<1> QED BY <1>1, <1>2, StoryAlways, PTL DEF Spec, ImplementsPaidOnce, Once!Spec
=============================================================================
