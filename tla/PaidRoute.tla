------------------------------ MODULE PaidRoute ------------------------------
(***************************************************************************)
(* POST /route (live402/route.py) and the payment replay guard under it    *)
(* (live402/replay.py).  A request presents a payment authorization.  The  *)
(* guard lets one request execute it, makes the others of the process      *)
(* wait, and keeps one row per authorization in a sqlite file that         *)
(* outlives the process and is shared by every process.  The executing     *)
(* request verifies, probes and only then settles through a facilitator,   *)
(* whose answer may be lost.                                               *)
(*                                                                         *)
(* A process is one interpreter: its memory, its lock and its one sqlite   *)
(* connection.  Requests are its threads.  Steps under the process lock    *)
(* are atomic in the process but not against other processes: each sqlite  *)
(* statement is a step of its own.  A process may crash at any step.       *)
(***************************************************************************)
EXTENDS Naturals, FiniteSets

CONSTANTS
    Proc,           \* processes that open the same ledger file
    Req,            \* requests (each is one thread, used once)
    Auth,           \* economic authorizations, told apart by canonical_fingerprint
    Scope,          \* resource URLs an authorization may be presented for
    StrictChoices,  \* whether a request may ask for require_transparency
    None,           \* no row, no entry, no outcome, nobody
    LegacyStates,   \* the ledger rows of fingerprint version 1 to start from
    MaxFaults,      \* bound: sqlite statements that fail by themselves
    MaxCrashes      \* bound: process crashes

ASSUME BoundAssumption == MaxFaults \in Nat /\ MaxCrashes \in Nat
ASSUME StrictAssumption == StrictChoices \subseteq BOOLEAN
ASSUME LegacyAssumption == LegacyStates \subseteq {"none", "open", "done"}

VARIABLES
    ledger,         \* settle_ledger on disk: Auth -> row, as committed
    conn,           \* Proc -> the transaction state of its sqlite connection
    legacy,         \* Auth -> its version-1 row, which this code only reads
    cutoverAck,     \* replay_meta holds the version-2 cutover acknowledgement
    lock,           \* Proc -> the request inside replay._lock, across two steps
    inflight,       \* Proc -> replay._inflight: Auth -> the owner of the entry
    completed,      \* Proc -> replay._completed: Auth -> scope and outcome
    entry,          \* Req -> _Entry.result of the entry this request owns
    pc,             \* Req -> where the request's thread is
    order,          \* Req -> what it asks: process, authorization, scope, strict,
                    \* and whether its payload is the one a version-1 row is of
    waitsOn,        \* Req -> the owner of the entry it waits for
    out,            \* Req -> the outcome computed and not yet returned
    told,           \* Req -> the HTTP answer its caller received
    money,          \* Auth -> what the facilitator has done with it
    attempts,       \* Auth -> how often it was sent to be settled
    faults, crashes \* counters for the bounds

disk     == <<ledger, conn>>
fixed    == <<legacy, cutoverAck>>
memory   == <<inflight, completed, entry>>
threads  == <<order, waitsOn, told>>
world    == <<money, attempts>>
vars == <<disk, fixed, lock, memory, pc, out, threads, world, faults, crashes>>

-----------------------------------------------------------------------------
(* Outcomes: the (code, body, headers) tuples, reduced to the HTTP code,   *)
(* the billing block and whether a signed transparency leaf is attached.   *)

Outcome == [code: {200, 400, 402, 503},
            attempted: {"yes", "no", "null"}, settled: {"yes", "no", "null"},
            state: {"settled", "not_attempted", "rejected", "unknown", "none"},
            logged: BOOLEAN]

Billing(code, attempted, settled, state, logged) ==
    [code |-> code, attempted |-> attempted, settled |-> settled,
     state |-> state, logged |-> logged]

Hit(logged)         == Billing(200, "yes", "yes", "settled", logged)
HitUnlogged         == Billing(503, "yes", "yes", "settled", FALSE)
Miss                == Billing(503, "no", "no", "not_attempted", FALSE)
Rejected(attempted) == Billing(402, attempted, "no", "rejected", FALSE)
Unknown(attempted)  == Billing(503, attempted, "null", "unknown", FALSE)
BadBody             == Billing(400, "null", "null", "none", FALSE)

RowStates == {"settlement_pending", "unknown", "settled", "not_settled", "rejected"}
NonTerminal == {"settlement_pending", "unknown"}

Row == [state: RowStates, outcome: Outcome \cup {None}, scope: Scope]

ASSUME NoneAssumption == None \notin Req /\ None \notin Row /\ None \notin Outcome

\* Only 200 and 503 bodies are read; a 402 falls to the fallback of finish.
ExplicitState(o) ==
    CASE o.code \in {200, 503} /\ o.state = "settled" /\ o.settled = "yes"
                                          -> "settled"
      [] o.code = 503 /\ o.state = "not_attempted" /\ o.attempted = "no"
                                          -> "not_settled"
      [] o.code = 503 /\ o.state = "unknown" /\ o.attempted \in {"yes", "null"}
                                          -> "unknown"
      [] OTHER                            -> "none"

\* Faulty: no fallback for the outcomes ExplicitState does not read.
FinishStateStrict(o) == ExplicitState(o)

FinishState(o) ==
    IF ExplicitState(o) # "none" THEN ExplicitState(o)
    ELSE IF o.code \in {200, 503} THEN "settled" ELSE "rejected"

-----------------------------------------------------------------------------
(* The sqlite connection.  Python opens a transaction before the first     *)
(* write; a failed write does not close it.  From then on the connection   *)
(* is "begun", its next SELECT pins a snapshot ("read"), and an executed   *)
(* but uncommitted write holds the file's write lock ("write").            *)

Modes == {"auto", "begun", "read", "write"}
NoRows == [a \in Auth |-> None]
AutoCommit == [mode |-> "auto", view |-> NoRows]

View(p) == IF conn[p].mode \in {"read", "write"} THEN conn[p].view ELSE ledger

\* What a SELECT does to the connection.
Pinned(p) == IF conn[p].mode = "begun" THEN [mode |-> "read", view |-> ledger]
             ELSE conn[p]

\* A write executes unless another connection holds the write lock or this
\* one reads an old snapshot (SQLITE_BUSY_SNAPSHOT).
CanWrite(p) ==
    /\ \A q \in Proc \ {p} : conn[q].mode # "write"
    /\ conn[p].mode = "read" => conn[p].view = ledger

Fault == faults < MaxFaults /\ faults' = faults + 1

Commits(p, rows) ==
    /\ CanWrite(p)
    /\ ledger' = rows
    /\ conn' = [conn EXCEPT ![p] = AutoCommit]
    /\ UNCHANGED faults

\* The statement, or its commit, raised sqlite3.Error.
Fails(p, rows) ==
    /\ UNCHANGED ledger
    /\ \/ /\ ~CanWrite(p)
          /\ UNCHANGED faults
          /\ conn' = [conn EXCEPT ![p].mode = IF @ = "auto" THEN "begun" ELSE @]
       \/ /\ CanWrite(p)
          /\ Fault
          /\ \E c \in {AutoCommit, [mode |-> "write", view |-> rows]} :
                 conn' = [conn EXCEPT ![p] = c]

\* durable_ready(), behind GET /ready: BEGIN IMMEDIATE fails inside an open
\* transaction, and the handler rolls it back.
ReadyProbe(p) ==
    /\ lock[p] = None
    /\ conn[p].mode # "auto"
    /\ conn' = [conn EXCEPT ![p] = AutoCommit]
    /\ UNCHANGED <<ledger, fixed, lock, memory, pc, out, threads, world, faults, crashes>>

-----------------------------------------------------------------------------
Process(r) == order[r].proc
AuthOf(r)  == order[r].auth

\* What the operator states with the cutover acknowledgement
\* ("payto-rotated-or-legacy-authorizations-expired"): no authorization of a
\* version-1 row passes the checks of a payment any more.
Expired(a) == cutoverAck /\ legacy[a] # "none"

Init ==
    /\ ledger = NoRows
    /\ conn = [p \in Proc |-> AutoCommit]
    /\ legacy \in [Auth -> LegacyStates]
    /\ cutoverAck \in BOOLEAN
    /\ lock = [p \in Proc |-> None]
    /\ inflight = [p \in Proc |-> NoRows]
    /\ completed = [p \in Proc |-> NoRows]
    /\ entry = [r \in Req |-> None]
    /\ pc = [r \in Req |-> "idle"]
    /\ order = [r \in Req |-> None]
    /\ waitsOn = [r \in Req |-> None]
    /\ out = [r \in Req |-> None]
    /\ told = [r \in Req |-> None]
    /\ money = [a \in Auth |-> IF legacy[a] = "none" THEN "fresh"
                               ELSE IF legacy[a] = "open" THEN "posted" ELSE "charged"]
    /\ attempts = [a \in Auth |-> IF legacy[a] = "none" THEN 0 ELSE 1]
    /\ faults = 0
    /\ crashes = 0

\* A request that carries a payment the server's own terms accept.
Arrive(r) ==
    /\ pc[r] = "idle"
    /\ \E o \in [proc: Proc, auth: Auth, scope: Scope, strict: StrictChoices, exact: BOOLEAN] :
           /\ legacy[o.auth] = "none" => o.exact
           /\ order' = [order EXCEPT ![r] = o]
    /\ pc' = [pc EXCEPT ![r] = "begin"]
    /\ UNCHANGED <<disk, fixed, lock, memory, out, waitsOn, told, world, faults, crashes>>

\* Move r to pc `to` with outcome o.
Goto(r, to, o) ==
    /\ pc' = [pc EXCEPT ![r] = to]
    /\ out' = [out EXCEPT ![r] = o]

AtBegin(r) == pc[r] = "begin" /\ lock[Process(r)] = None

\* begin(): the response cache of this process.
BeginCompleted(r) ==
    LET hit == completed[Process(r)][AuthOf(r)]
    IN  /\ AtBegin(r)
        /\ hit # None
        /\ Goto(r, "reply", IF hit.scope = order[r].scope THEN hit.outcome
                            ELSE Unknown("null"))
        /\ UNCHANGED <<disk, fixed, lock, memory, threads, world, faults, crashes>>

\* begin(): another thread of this process is executing the authorization.
BeginInflight(r) ==
    LET owner == inflight[Process(r)][AuthOf(r)]
    IN  /\ AtBegin(r)
        /\ completed[Process(r)][AuthOf(r)] = None
        /\ owner # None
        /\ \/ /\ order[owner].scope = order[r].scope
              /\ waitsOn' = [waitsOn EXCEPT ![r] = owner]
              /\ Goto(r, "wait", None)
           \/ /\ order[owner].scope # order[r].scope
              /\ Goto(r, "reply", Unknown("null"))
              /\ UNCHANGED waitsOn
        /\ UNCHANGED <<disk, fixed, lock, memory, order, told, world, faults, crashes>>

\* Faulty: the stored scope is not compared.
ReplayAnywhere(row, scope) ==
    IF row.outcome # None THEN row.outcome ELSE Unknown("null")

\* What _ledger_lookup makes of a row: an outcome to replay, or a refusal.
Replay(row, scope) ==
    IF /\ row.scope = scope
       /\ row.outcome # None
       /\ \/ row.state \notin NonTerminal
          \/ row.state = "unknown" /\ ExplicitState(row.outcome) = "unknown"
    THEN row.outcome
    ELSE Unknown("null")

NotInMemory(r) ==
    /\ completed[Process(r)][AuthOf(r)] = None
    /\ inflight[Process(r)][AuthOf(r)] = None

\* begin(): the durable row of the authorization, then the version-1 row of the
\* payload, which is a hash of the whole wrapper (legacy_fingerprint): another
\* wrapper of the same authorization misses it.  Without a row, the request keeps
\* the lock and goes on to reserve.
BeginLookup(r) ==
    LET p   == Process(r)
        row == View(p)[AuthOf(r)]
        old == IF order[r].exact THEN legacy[AuthOf(r)] ELSE "none"
    IN  /\ AtBegin(r)
        /\ NotInMemory(r)
        /\ conn' = [conn EXCEPT ![p] = Pinned(p)]
        /\ \/ /\ row # None
              /\ Goto(r, "reply", Replay(row, order[r].scope))
              /\ UNCHANGED lock
           \/ /\ row = None /\ old = "done"
              /\ Goto(r, "reply", Hit(FALSE))
              /\ UNCHANGED lock
           \/ /\ row = None /\ old = "open"
              /\ Goto(r, "reply", Unknown("null"))
              /\ UNCHANGED lock
           \/ /\ row = None /\ old = "none"
              /\ Goto(r, "reserve", None)
              /\ lock' = [lock EXCEPT ![p] = r]
        /\ UNCHANGED <<ledger, fixed, memory, threads, world, faults, crashes>>

\* The SELECT raised: fail closed.
BeginUnreadable(r) ==
    /\ AtBegin(r)
    /\ NotInMemory(r)
    /\ Fault
    /\ Goto(r, "reply", Unknown("null"))
    /\ UNCHANGED <<disk, fixed, lock, memory, threads, world, crashes>>

\* Faulty: version-1 rows do not stop new reservations.
CutoverIgnored == TRUE

\* A version-1 row not yet acknowledged stops every new reservation.
CutoverReady == cutoverAck \/ \A a \in Auth : legacy[a] = "none"

Pending(r) == [state |-> "settlement_pending", outcome |-> None, scope |-> order[r].scope]

\* _ledger_reserve(), still under the lock: INSERT, commit, then the entry.
ReserveRun(r) ==
    LET p == Process(r)
        a == AuthOf(r)
    IN  /\ pc[r] = "reserve"
        /\ CutoverReady
        /\ View(p)[a] = None
        /\ Commits(p, [View(p) EXCEPT ![a] = Pending(r)])
        /\ inflight' = [inflight EXCEPT ![p][a] = r]
        /\ lock' = [lock EXCEPT ![p] = None]
        /\ pc' = [pc EXCEPT ![r] = "verify"]
        /\ UNCHANGED <<fixed, completed, entry, out, threads, world, crashes>>

\* The INSERT hit a row another process committed since the lookup (the
\* connection rolls back), failed, or was not allowed.
ReserveRefused(r) ==
    LET p == Process(r)
        a == AuthOf(r)
    IN  /\ pc[r] = "reserve"
        /\ \/ ~CutoverReady /\ UNCHANGED <<ledger, conn, faults>>
           \/ /\ CutoverReady /\ View(p)[a] # None /\ CanWrite(p)
              /\ conn' = [conn EXCEPT ![p] = AutoCommit]
              /\ UNCHANGED <<ledger, faults>>
           \/ /\ CutoverReady /\ (View(p)[a] # None => ~CanWrite(p))
              /\ Fails(p, [View(p) EXCEPT ![a] = Pending(r)])
        /\ lock' = [lock EXCEPT ![p] = None]
        /\ Goto(r, "reply", Unknown("null"))
        /\ UNCHANGED <<fixed, memory, threads, world, crashes>>

-----------------------------------------------------------------------------
(* _paid_execute(): only the owner of the reservation gets here.           *)

Execute(r, at) ==
    /\ pc[r] = at
    /\ UNCHANGED <<disk, fixed, lock, memory, threads, faults, crashes>>

\* The facilitator's checks pass; those of an expired authorization do not.
VerifyAccepts(r) ==
    /\ Execute(r, "verify")
    /\ ~Expired(AuthOf(r))
    /\ Goto(r, "probe", None)
    /\ UNCHANGED world

\* The facilitator says no, cannot be reached, or no time is left to ask it.
VerifyRefuses(r) ==
    /\ Execute(r, "verify")
    /\ Goto(r, "finish", Rejected("no"))
    /\ UNCHANGED world

\* _bad_request, run_probe, _billable_winner, and the prevalidation of a
\* route binding: a body error, no billable winner, or one to settle for.
Probe(r) ==
    /\ Execute(r, "probe")
    /\ \/ Goto(r, "finish", BadBody)
       \/ Goto(r, "finish", Miss)
       \/ Goto(r, "settle", None)
    /\ UNCHANGED world

\* The POST to the facilitator leaves.
SettlePost(r) ==
    LET a == AuthOf(r)
    IN  /\ Execute(r, "settle")
        /\ Goto(r, "settling", None)
        /\ attempts' = [attempts EXCEPT ![a] = @ + 1]
        /\ money' = [money EXCEPT ![a] = IF @ = "fresh" THEN "posted" ELSE @]

\* No credentials or no allowed URL: nothing is sent, and the caller is told
\* the same as after a lost answer.
SettleUnsent(r) ==
    /\ Execute(r, "settle")
    /\ Goto(r, "finish", Unknown("yes"))
    /\ UNCHANGED world

\* Faulty: a lost answer counts as a refusal.
SettleAnsweredSure(r) ==
    /\ Execute(r, "settling")
    /\ \/ money[AuthOf(r)] = "charged" /\ Goto(r, "log", None)
       \/ Goto(r, "finish", Rejected("yes"))
    /\ UNCHANGED world

\* The facilitator's answer: settled, refused, or lost, late or unreadable.
SettleAnswered(r) ==
    /\ Execute(r, "settling")
    /\ \/ money[AuthOf(r)] = "charged" /\ Goto(r, "log", None)
       \/ money[AuthOf(r)] = "declined" /\ Goto(r, "finish", Rejected("yes"))
       \/ Goto(r, "finish", Unknown("yes"))
    /\ UNCHANGED world

\* _attach_pq_trust after a settlement: a signed leaf, or none.
AttachTrust(r) ==
    /\ Execute(r, "log")
    /\ \/ Goto(r, "finish", Hit(TRUE))
       \/ Goto(r, "finish", IF order[r].strict THEN HitUnlogged ELSE Hit(FALSE))
    /\ UNCHANGED world

\* handle_route's except clause.
ExecuteRaises(r) ==
    /\ \E at \in {"verify", "probe", "settle", "settling", "log"} : Execute(r, at)
    /\ Goto(r, "finish", Unknown("null"))
    /\ UNCHANGED world

\* Faulty: outcomes that settled nothing free the authorization.
CachedIfAttempted(o) == o.code # 400 /\ o.attempted # "no"

\* Faulty: outcomes nobody is sure of free the authorization.
CachedIfSure(o) == o.settled # "null"

\* Only a 400 lets the authorization be presented again.
Cached(o) == o.code # 400

\* finish(), under the lock: wake the waiters and fill the response cache...
FinishMemory(r) ==
    LET p == Process(r)
        a == AuthOf(r)
    IN  /\ pc[r] = "finish"
        /\ lock[p] = None
        /\ lock' = [lock EXCEPT ![p] = r]
        /\ entry' = [entry EXCEPT ![r] = out[r]]
        /\ inflight' = [inflight EXCEPT ![p][a] = None]
        /\ completed' = IF Cached(out[r])
                        THEN [completed EXCEPT ![p][a] =
                                 [scope |-> order[r].scope, outcome |-> out[r]]]
                        ELSE completed
        /\ pc' = [pc EXCEPT ![r] = "ledger"]
        /\ UNCHANGED <<disk, fixed, out, threads, world, faults, crashes>>

\* UPDATE the row, or DELETE it after a 400.
Finished(r) ==
    LET row == View(Process(r))[AuthOf(r)]
    IN  [View(Process(r)) EXCEPT ![AuthOf(r)] =
            IF Cached(out[r]) /\ row # None
            THEN [row EXCEPT !.state = FinishState(out[r]), !.outcome = out[r]]
            ELSE None]

\* Faulty: an error leaves without releasing the lock.
FinishLedgerKeepsLock(r) ==
    LET p == Process(r)
    IN  /\ pc[r] = "ledger"
        /\ \/ Commits(p, Finished(r)) /\ lock' = [lock EXCEPT ![p] = None]
           \/ Fails(p, Finished(r)) /\ UNCHANGED lock
        /\ pc' = [pc EXCEPT ![r] = "reply"]
        /\ UNCHANGED <<fixed, memory, out, threads, world, crashes>>

\* ... then _ledger_finish, whose failures are swallowed.
FinishLedger(r) ==
    LET p == Process(r)
    IN  /\ pc[r] = "ledger"
        /\ Commits(p, Finished(r)) \/ Fails(p, Finished(r))
        /\ lock' = [lock EXCEPT ![p] = None]
        /\ pc' = [pc EXCEPT ![r] = "reply"]
        /\ UNCHANGED <<fixed, memory, out, threads, world, crashes>>

-----------------------------------------------------------------------------
\* wait_result(): the entry's event, or the deadline of this request.
WaitEnds(r) ==
    LET result == entry[waitsOn[r]]
    IN  /\ pc[r] = "wait"
        /\ Goto(r, "reply", IF result = None THEN Unknown("null") ELSE result)
        /\ UNCHANGED <<disk, fixed, lock, memory, threads, world, faults, crashes>>

Reply(r) ==
    /\ pc[r] = "reply"
    /\ told' = [told EXCEPT ![r] = out[r]]
    /\ Goto(r, "done", None)
    /\ UNCHANGED <<disk, fixed, lock, memory, order, waitsOn, world, faults, crashes>>

\* The 120 s of the response cache pass, or its 2048 entries overflow.
Forget(p, a) ==
    /\ lock[p] = None
    /\ completed[p][a] # None
    /\ completed' = [completed EXCEPT ![p][a] = None]
    /\ UNCHANGED <<disk, fixed, lock, inflight, entry, pc, out, threads, world, faults, crashes>>

\* The process dies; its threads, memory and uncommitted writes go with it.
Crash(p) ==
    LET dies(r) == /\ pc[r] \notin {"idle", "done", "lost"}
                   /\ Process(r) = p
    IN  /\ crashes < MaxCrashes
        /\ crashes' = crashes + 1
        /\ pc' = [r \in Req |-> IF dies(r) THEN "lost" ELSE pc[r]]
        /\ out' = [r \in Req |-> IF dies(r) THEN None ELSE out[r]]
        /\ conn' = [conn EXCEPT ![p] = AutoCommit]
        /\ lock' = [lock EXCEPT ![p] = None]
        /\ inflight' = [inflight EXCEPT ![p] = NoRows]
        /\ completed' = [completed EXCEPT ![p] = NoRows]
        /\ UNCHANGED <<ledger, fixed, entry, threads, world, faults>>

\* The facilitator settles or declines what it was sent, whenever it does.
Resolve(a) ==
    /\ money[a] = "posted"
    /\ \E d \in {"charged", "declined"} : money' = [money EXCEPT ![a] = d]
    /\ UNCHANGED <<disk, fixed, lock, memory, pc, out, threads, attempts, faults, crashes>>

Begin(r) == \/ BeginCompleted(r) \/ BeginInflight(r) \/ BeginLookup(r)
            \/ BeginUnreadable(r) \/ ReserveRun(r) \/ ReserveRefused(r)
PaidExecute(r) == \/ VerifyAccepts(r) \/ VerifyRefuses(r) \/ Probe(r) \/ SettlePost(r)
                  \/ SettleUnsent(r) \/ SettleAnswered(r) \/ AttachTrust(r)
                  \/ ExecuteRaises(r)
Finish(r) == FinishMemory(r) \/ FinishLedger(r) \/ WaitEnds(r) \/ Reply(r)

Thread(r) == Begin(r) \/ PaidExecute(r) \/ Finish(r)

Next == \/ \E r \in Req : Arrive(r) \/ Thread(r)
        \/ \E p \in Proc : ReadyProbe(p) \/ Crash(p) \/ \E a \in Auth : Forget(p, a)
        \/ \E a \in Auth : Resolve(a)

Spec == Init /\ [][Next]_vars

\* The interpreter runs every thread, and its network calls and waits end:
\* each has a timeout.  Nothing is assumed of arrivals, crashes or the world.
Fairness == \A r \in Req : WF_vars(Thread(r))
LiveSpec == Spec /\ Fairness

-----------------------------------------------------------------------------
(* Properties *)

Running  == {"verify", "probe", "settle", "settling", "log", "finish"}
PcValues == Running \cup {"idle", "begin", "reserve", "ledger", "wait", "reply",
                          "done", "lost"}
Order    == [proc: Proc, auth: Auth, scope: Scope, strict: StrictChoices, exact: BOOLEAN]

\* Every variable keeps its type.
TypeOK ==
    /\ ledger \in [Auth -> Row \cup {None}]
    /\ conn \in [Proc -> [mode: Modes, view: [Auth -> Row \cup {None}]]]
    /\ legacy \in [Auth -> {"none", "open", "done"}]
    /\ cutoverAck \in BOOLEAN
    /\ lock \in [Proc -> Req \cup {None}]
    /\ inflight \in [Proc -> [Auth -> Req \cup {None}]]
    /\ completed \in [Proc -> [Auth -> [scope: Scope, outcome: Outcome] \cup {None}]]
    /\ entry \in [Req -> Outcome \cup {None}]
    /\ pc \in [Req -> PcValues]
    /\ order \in [Req -> Order \cup {None}]
    /\ waitsOn \in [Req -> Req \cup {None}]
    /\ out \in [Req -> Outcome \cup {None}]
    /\ told \in [Req -> Outcome \cup {None}]
    /\ money \in [Auth -> {"fresh", "posted", "charged", "declined"}]
    /\ attempts \in [Auth -> Nat]
    /\ faults \in Nat
    /\ crashes \in Nat

\* An authorization is sent to the facilitator at most once, whatever threads,
\* processes, crashes, cache expiry and failed ledger writes do.  (replay.py's
\* reason to exist; a ledger of an earlier version counts as having sent it, in
\* whatever wrapper it comes again: until the cutover is acknowledged nothing new
\* is reserved, and afterwards the acknowledgement must be true, see Expired.)
SettledAtMostOnce == \A a \in Auth : attempts[a] <= 1

Definite(r) == told[r] # None /\ told[r].settled # "null"

\* The presenters of one authorization hear one definite outcome between them,
\* in full: thread, waiter, cached and replayed answers agree.  (After the cutover
\* a version-1 row still answers its own payload, and a new wrapper of that
\* authorization is refused as expired.)
OneDefiniteAnswer ==
    \A r, s \in Req :
        /\ Definite(r) /\ Definite(s) /\ order[r].auth = order[s].auth
        /\ ~Expired(order[r].auth)
        => told[r] = told[s]

\* An outcome is heard only by those who presented the authorization for the
\* same resource URL (the scope hash of the row and of the caches).
OutcomeStaysInScope ==
    \A r, s \in Req :
        /\ Definite(r) /\ Definite(s) /\ order[r].auth = order[s].auth
        /\ legacy[order[r].auth] = "none"
        => order[r].scope = order[s].scope

Owner(r) == pc[r] \in Running \cup {"ledger"}

\* The row of a is there for every connection that can act on it: committed,
\* and not deleted in a transaction another connection still has to commit.
RowKept(a) ==
    /\ ledger[a] # None
    /\ \A p \in Proc : conn[p].mode = "write" => conn[p].view[a] # None

\* Why an authorization cannot be sent twice: one owner among all processes,
\* which has not sent it before; and a row, from the reservation on, that only
\* an owner that never sent it takes away.
OneGuardedOwner ==
    /\ \A r, s \in Req : Owner(r) /\ Owner(s) /\ AuthOf(r) = AuthOf(s) => r = s
    /\ \A r \in Req : Owner(r) => RowKept(AuthOf(r))
    /\ \A a \in Auth : attempts[a] > 0 => RowKept(a) \/ legacy[a] # "none"
    /\ \A a \in Auth : attempts[a] <= 1
    /\ \A r \in Req :
           /\ pc[r] = "verify" => attempts[AuthOf(r)] = 0 \/ Expired(AuthOf(r))
           /\ \/ pc[r] \in {"probe", "settle"}
              \/ pc[r] \in {"finish", "ledger"} /\ ~Cached(out[r])
              => attempts[AuthOf(r)] = 0

\* A request that arrives is answered, unless its process dies: no waiter
\* hangs on an owner, and nobody keeps the lock.
EveryRequestAnswered == \A r \in Req : pc[r] = "begin" ~> pc[r] \in {"done", "lost"}

-----------------------------------------------------------------------------
(* Refinement *)

\* An answer to an expired authorization speaks of this presentation of it only.
Spoken(r) == told[r] # None /\ ~Expired(order[r].auth)
SaidNo(a) == \E r \in Req : Spoken(r) /\ told[r].settled = "no" /\ order[r].auth = a

Once == INSTANCE PaidOnce WITH
    NoAnswer <- None,
    phase    <- [a \in Auth |-> IF money[a] = "fresh" /\ SaidNo(a) THEN "void"
                                ELSE money[a]],
    answer   <- [r \in Req |-> IF ~Spoken(r) THEN None
                               ELSE [auth |-> order[r].auth, settled |-> told[r].settled]]

\* The route implements the promise of PaidOnce.
ImplementsPaidOnce == Once!Spec
=============================================================================
