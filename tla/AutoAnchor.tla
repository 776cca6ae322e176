----------------------------- MODULE AutoAnchor -----------------------------
(***************************************************************************)
(* The automatic MainNet anchor controller: live402/pq/auto_anchor.py, the *)
(* automatic send of live402/pq/canary.py and the anchor_automation_*      *)
(* tables of live402/pq/store.py.                                          *)
(*                                                                         *)
(* A controller is the worker thread of one process.  Its tick freezes the *)
(* current tree into a job, records a sign attempt, has the transaction    *)
(* signed, reserves the fee budget together with the send latch, posts     *)
(* once, and then only polls for the txid it computed itself.  Every       *)
(* commit is a step; a process may die, or its tick raise, between any     *)
(* two.  A tick acts on the clock it read when it began.                   *)
(***************************************************************************)
EXTENDS AnchorStore

CONSTANTS
    Controller,     \* processes whose worker runs the controller
    SnapshotMaxAge, \* how long a fee policy snapshot may be sent, or a request signed
    ValidityWindow, \* how long after the send a missing transaction is waited for
    HourLength, HourlyMax,  \* at most HourlyMax sends in a clock hour
    FeeCap,         \* highest fee of one send
    FeeWindows,     \* [length, max] of the UTC windows that cap the sum of fees
    Retention,      \* age at which the records of confirmed sends are deleted
    MaxBadAnswers,  \* bound: fetched transactions that do not verify
    MaxDeaths       \* bound: ticks that end by crash or uncaught exception

ASSUME SerialAssumption == Serial = {0, 1} /\ 1 \notin Tree
ASSUME AgeAssumption == {SnapshotMaxAge, ValidityWindow, MaxBadAnswers, MaxDeaths} \subseteq Nat
ASSUME BudgetAssumption ==
    /\ HourLength \in Nat \ {0} /\ {HourlyMax, FeeCap} \subseteq Nat
    /\ FeeWindows \subseteq [length: Nat \ {0}, max: Nat]
    /\ Retention \in Nat /\ HourLength <= Retention
    /\ \A w \in FeeWindows : w.length <= Retention

VARIABLES
    tree,       \* size of the log, checkpoint signed and published
    jobs,       \* anchor_automation_jobs: Tree -> row
    sends,      \* anchor_automation_sends: Tree -> row
    ctl,        \* Controller -> where its tick is and what it holds
    dials,      \* <<tree, request>> -> calls of the signer
    spent,      \* every reservation ever made: tree, time and fee
    bad, deaths \* counters for the bounds

records == <<jobs, sends, spent>>
vars == <<clock, tables, network, tree, records, ctl, dials, bad, deaths>>

JobStatus == SendState \cup {"PENDING", "HALTED"}
JobRank == [s \in JobStatus |-> CASE s = "PENDING" -> 0 [] s = "HALTED" -> 5
                                  [] OTHER -> 1 + Rank[s]]

Job == [status: JobStatus, req: Request, resigns: 0..1, signs: 0..2, updated: Time]
Send == [txid: Request, fee: Fee, at: Time, status: SendState]

ASSUME RowAssumption == None \notin Job /\ None \notin Send

\* What a tick holds: its time, the confirmed pointer it saw, the job it works
\* on (tree size, request, resign count), the authorized row it goes by, the
\* row its running save has read, and whether it is past a re-sign.
NoTick == [pc |-> "idle", when |-> 0, conf |-> [size |-> 0, txid |-> None], size |-> 0,
           req |-> None, resigns |-> 0, row |-> None, seen |-> None, err |-> "none",
           flow |-> "first"]

\* The human canary anchored tree 1 before the controller was enabled.
Init ==
    /\ StoreInit
    /\ confirmed = [size |-> 1, txid |-> None]
    /\ tree = 1
    /\ jobs = [t \in Tree |-> None]
    /\ sends = [t \in Tree |-> None]
    /\ ctl = [c \in Controller |-> NoTick]
    /\ dials = [x \in Tree \X Request |-> 0]
    /\ spent = {}
    /\ bad = 0
    /\ deaths = 0

-----------------------------------------------------------------------------
(* The tables of the controller *)

\* last_automation_job: the most recently updated one, the largest among equals.
Newer(t, u) == jobs[t].updated > jobs[u].updated
               \/ (jobs[t].updated = jobs[u].updated /\ t >= u)
IsLastJob(j) == IF j = 0 THEN Exists(jobs) = {}
                ELSE j \in Exists(jobs) /\ \A u \in Exists(jobs) : Newer(j, u)

WindowStart(length, t) == t - (t % length)
\* Faulty: what was sent at the very start of a window is not counted.
SendsAfter(t) == {u \in Exists(sends) : sends[u].at > t}

SendsSince(t) == {u \in Exists(sends) : sends[u].at >= t}
FeesSince(t) == SumFunctionOnSet([u \in Exists(sends) |-> sends[u].fee], SendsSince(t))

\* Faulty: a window that is not full yet takes one more fee, whatever it is.
OverBudgetBefore(fee, when) ==
    \/ Cardinality(SendsSince(WindowStart(HourLength, when))) >= HourlyMax
    \/ \E w \in FeeWindows : FeesSince(WindowStart(w.length, when)) >= w.max

OverBudget(fee, when) ==
    \/ Cardinality(SendsSince(WindowStart(HourLength, when))) >= HourlyMax
    \/ \E w \in FeeWindows : FeesSince(WindowStart(w.length, when)) + fee > w.max

\* Advisory: the reservation decides.
BudgetBlock(fee, when) == fee > FeeCap \/ OverBudget(fee, when)

\* set_automation_job_status; HALTED is terminal here.
JobMay(t, want) ==
    /\ jobs[t] # None
    /\ want # "HALTED" => /\ jobs[t].status # "HALTED"
                          /\ JobRank[jobs[t].status] <= JobRank[want]
SetJob(t, want, when) ==
    jobs' = [jobs EXCEPT ![t].status = want, ![t].updated = when]

\* set_automatic_send_status, which asks nothing of the job's status.
SendMay(t, want) == sends[t] # None /\ Rank[sends[t].status] <= Rank[want]
Old(row, at, when) == row # None /\ row.status = "CONFIRMED" /\ at + Retention < when
SetSend(t, want, when) ==
    LET s == [sends EXCEPT ![t].status = want]
        j == IF jobs[t] = None THEN jobs
             ELSE [jobs EXCEPT ![t].status = want, ![t].updated = when]
    IN  /\ sends' = [u \in Tree |-> IF want = "CONFIRMED" /\ s[u] # None
                                        /\ Old(s[u], s[u].at, when) THEN None ELSE s[u]]
        /\ jobs' = [u \in Tree |-> IF want = "CONFIRMED" /\ j[u] # None
                                       /\ Old(j[u], j[u].updated, when) THEN None ELSE j[u]]

-----------------------------------------------------------------------------
(* One tick *)

At(c, pc) == ctl[c].pc = pc
Hold(c, k) == ctl' = [ctl EXCEPT ![c] = k]
Goto(c, pc) == Hold(c, [ctl[c] EXCEPT !.pc = pc])
EndTick(c) == Hold(c, NoTick)
Raise(c, err) == Hold(c, [ctl[c] EXCEPT !.pc = "caught", !.err = err])

\* Exceptions the first flow lets pass, or answers by waiting for the next tick.
Abandon(c) == IF ctl[c].flow = "first" THEN EndTick(c) ELSE Raise(c, "plain")

Quiet == UNCHANGED <<clock, tables, network, tree, records, dials, bad, deaths>>

TickStart(c) ==
    /\ At(c, "idle")
    /\ Hold(c, [NoTick EXCEPT !.pc = "load", !.when = clock, !.conf = confirmed])
    /\ Quiet

\* Where _resume_job goes with a job that is signed.
Proceed(k, row) ==
    IF row = None \/ row.signed # k.req THEN [k EXCEPT !.pc = "halt"]
    ELSE IF row.state # "AUTHORIZED" THEN [k EXCEPT !.pc = "poll", !.row = row]
    ELSE IF BudgetBlock(row.signed.fee, k.when) THEN NoTick
    ELSE [k EXCEPT !.pc = "send", !.row = row]

\* The job was confirmed, and its last commits are missing.
Unreconciled(k, j) ==
    /\ j # 0 /\ j = k.conf.size
    /\ jobs[j].status \in {"SEND_ATTEMPTED", "SUBMITTED"}
    /\ auth[j] # None /\ auth[j].expected = k.conf.txid

\* The last job is beyond what is confirmed: no other one is begun.
Open(k, j) == j > k.conf.size

TickLoad(c) ==
    /\ At(c, "load")
    /\ \E j \in Tree \cup {0} :
          LET k == ctl[c]
              held == [k EXCEPT !.size = j, !.req = jobs[j].req, !.resigns = jobs[j].resigns]
          IN  /\ IsLastJob(j)
              /\ \/ Unreconciled(k, j) /\ Hold(c, [k EXCEPT !.pc = "reconcile", !.size = j])
                 \/ ~Open(k, j) /\ ~Unreconciled(k, j) /\ Goto(c, "survey")
                 \/ Open(k, j) /\ jobs[j].status = "HALTED" /\ EndTick(c)
                 \/ /\ Open(k, j) /\ jobs[j].status = "PENDING"
                    /\ Hold(c, [held EXCEPT !.pc = IF k.when > held.req.at + SnapshotMaxAge
                                                   THEN "halt" ELSE "attempt"])
                 \/ /\ Open(k, j) /\ jobs[j].status \in SendState
                    /\ Hold(c, Proceed(held, auth[j]))
    /\ Quiet

TickReconcile(c) ==
    LET k == ctl[c]
    IN  /\ At(c, "reconcile")
        /\ IF SendMay(k.size, "CONFIRMED") THEN SetSend(k.size, "CONFIRMED", k.when)
           ELSE UNCHANGED <<jobs, sends>>
        /\ Goto(c, "survey")
        /\ UNCHANGED <<clock, tables, network, tree, spent, dials, bad, deaths>>

\* Anything that holds a new anchor back: an authorization of somebody else,
\* the eligibility delay, the confirmation provider, the balance.
Survey(c) ==
    /\ At(c, "survey")
    /\ \/ EndTick(c)
       \/ /\ LastAuthorized <= ctl[c].conf.size
          /\ tree > ctl[c].conf.size
          /\ Goto(c, "prepare")
    /\ Quiet

\* create_automation_job for the tree of now, unless it has one.
Prepare(c) ==
    LET k == ctl[c]
    IN  /\ At(c, "prepare")
        /\ \E fee \in Fee :
              LET r == [serial |-> 0, at |-> k.when, fee |-> fee]
              IN  \/ /\ jobs[tree] = None
                     /\ ~BudgetBlock(fee, k.when)
                     /\ jobs' = [jobs EXCEPT ![tree] = [status |-> "PENDING", req |-> r,
                                     resigns |-> 0, signs |-> 0, updated |-> k.when]]
                     /\ Hold(c, [k EXCEPT !.pc = "attempt", !.size = tree, !.req = r])
                  \/ /\ jobs[tree] # None \/ BudgetBlock(fee, k.when)
                     /\ EndTick(c)
                     /\ UNCHANGED jobs
        /\ UNCHANGED <<clock, tables, network, tree, sends, spent, dials, bad, deaths>>

\* Faulty: the attempts are counted, and never run out.
MaySignAgain(j) == j # None /\ j.status = "PENDING"

MaySign(j) == j # None /\ j.status = "PENDING" /\ j.signs < 2

\* record_automation_sign_attempt, before the signer is dialled.
RecordAttempt(c) ==
    LET k == ctl[c]
        j == jobs[k.size]
        may == MaySign(j)
    IN  /\ At(c, "attempt")
        /\ \/ /\ may
              /\ jobs' = [jobs EXCEPT ![k.size].signs = @ + 1, ![k.size].updated = k.when]
              /\ Hold(c, [k EXCEPT !.pc = "authorize", !.req = j.req])
           \/ ~may /\ Goto(c, "signfail") /\ UNCHANGED jobs
        /\ UNCHANGED <<clock, tables, network, tree, sends, spent, dials, bad, deaths>>

\* canary.authorize: a stored transaction is used again, if it is fresh.
Authorize(c) ==
    LET k == ctl[c]
        row == auth[k.size]
        usable == Latched(row) \/ k.req.at <= row.signed.at + SnapshotMaxAge
    IN  /\ At(c, "authorize")
        /\ \/ row = None /\ Goto(c, "dial")
           \/ row # None /\ usable /\ Hold(c, [k EXCEPT !.pc = "authorized", !.row = row])
           \/ row # None /\ ~usable /\ Goto(c, "signfail")
        /\ Quiet

\* The signer answers, or not; the save that follows reads the row.
Dial(c) ==
    LET k == ctl[c]
    IN  /\ At(c, "dial")
        /\ dials' = [dials EXCEPT ![<<k.size, k.req>>] = @ + 1]
        /\ \/ Goto(c, "signfail")
           \/ Hold(c, [k EXCEPT !.pc = "persist", !.seen = auth[k.size]])
        /\ UNCHANGED <<clock, tables, network, tree, records, bad, deaths>>

Persist(c) ==
    LET k == ctl[c]
        new == [signed |-> k.req, state |-> "AUTHORIZED", expected |-> None, attempted |-> 0]
    IN  /\ At(c, "persist")
        /\ SaveAuthorized(k.size, k.seen, new)
        /\ IF SaveVerdict(k.seen, new) = "refuse" THEN Goto(c, "signfail")
           ELSE Hold(c, [k EXCEPT !.pc = "authorized", !.seen = None,
                                  !.row = Saved(k.size, k.seen, new)])
        /\ UNCHANGED <<clock, anchors, confirmed, network, tree, records, dials, bad, deaths>>

\* The rest of _authorize_job; after it _resume_job reads the job again.
Authorized(c) ==
    LET k == ctl[c]
        may == k.row.signed = k.req /\ JobMay(k.size, "AUTHORIZED")
    IN  /\ At(c, "authorized")
        /\ IF may THEN SetJob(k.size, "AUTHORIZED", k.when) ELSE UNCHANGED jobs
        /\ Goto(c, IF ~may THEN "signfail"
                   ELSE IF k.flow = "first" THEN "reload"
                   ELSE IF k.row.state = "AUTHORIZED" THEN "send" ELSE "poll")
        /\ UNCHANGED <<clock, tables, network, tree, sends, spent, dials, bad, deaths>>

Reload(c) ==
    LET k == ctl[c]
        j == jobs[k.size]
    IN  /\ At(c, "reload")
        /\ Hold(c, Proceed(IF j = None THEN k
                           ELSE [k EXCEPT !.req = j.req, !.resigns = j.resigns], k.row))
        /\ Quiet

AttemptsUsed(j) == j # None /\ j.signs >= 2

\* Whatever was raised on the way to an authorization.
SignFailed(c) ==
    LET k == ctl[c]
    IN  /\ At(c, "signfail")
        /\ IF k.flow = "resign" THEN Raise(c, "plain")
           ELSE IF AttemptsUsed(jobs[k.size]) THEN Goto(c, "halt")
           ELSE EndTick(c)
        /\ Quiet

\* send_automatic_durable, before the reservation.
SendGate(c) ==
    LET k == ctl[c]
        stale == k.when > k.row.signed.at + SnapshotMaxAge
    IN  /\ At(c, "send")
        /\ \/ Abandon(c)                                  \* balance not available
           \/ Raise(c, "plain")                           \* balance too low
           \/ stale /\ Raise(c, "stale")
           \/ ~stale /\ k.row.signed.fee > FeeCap /\ Raise(c, "plain")
           \/ ~stale /\ k.row.signed.fee <= FeeCap /\ Goto(c, "reserve")
        /\ Quiet

\* Faulty: that no send is recorded is taken to be enough.
ReservableLoose(t) == sends[t] = None /\ auth[t] # None /\ jobs[t] # None

Reservable(t) ==
    /\ sends[t] = None
    /\ auth[t] # None /\ ~Latched(auth[t])
    /\ jobs[t] # None /\ jobs[t].status = "AUTHORIZED"

\* The authorized row once its send is latched.
Latch(row, txid, when) ==
    [row EXCEPT !.state = "SEND_ATTEMPTED", !.expected = txid, !.attempted = when]

\* reserve_automatic_send: the budget, the send row, the latch and the job in
\* one transaction.
Reserve(c) ==
    LET k   == ctl[c]
        t   == k.size
        fee == k.row.signed.fee
        row == Latch(auth[t], k.row.signed, k.when)
    IN  /\ At(c, "reserve")
        /\ \/ /\ Reservable(t) /\ ~OverBudget(fee, k.when)
              /\ sends' = [sends EXCEPT ![t] = [txid |-> k.row.signed, fee |-> fee,
                                                at |-> k.when, status |-> "SEND_ATTEMPTED"]]
              /\ spent' = spent \cup {[tree |-> t, at |-> k.when, fee |-> fee]}
              /\ auth' = [auth EXCEPT ![t] = row]
              /\ SetJob(t, "SEND_ATTEMPTED", k.when)
              /\ IF row.signed = k.row.signed THEN Hold(c, [k EXCEPT !.pc = "post", !.row = row])
                 ELSE Raise(c, "plain")
           \/ /\ ~Reservable(t) \/ OverBudget(fee, k.when)
              /\ Raise(c, IF Reservable(t) THEN "cap" ELSE "store")
              /\ UNCHANGED <<records, auth>>
        /\ UNCHANGED <<clock, lastAuth, anchors, confirmed, network, tree, dials, bad, deaths>>

\* The one POST.  Every failure of it is ambiguous.
PostOnce(c) ==
    LET k == ctl[c]
    IN  /\ At(c, "post")
        /\ Post(k.size, k.row.signed)
        /\ \/ Raise(c, "plain")
           \/ Hold(c, [k EXCEPT !.pc = "marksub", !.seen = auth[k.size]])
        /\ UNCHANGED <<clock, tables, tree, records, dials, bad, deaths>>

\* mark_submitted, and the save of poll_expected.
Mark(c, at, state, next) ==
    LET k   == ctl[c]
        new == [k.row EXCEPT !.state = state]
    IN  /\ At(c, at)
        /\ SaveAuthorized(k.size, k.seen, new)
        /\ IF SaveVerdict(k.seen, new) = "refuse" THEN Raise(c, "store")
           ELSE Hold(c, [k EXCEPT !.pc = next, !.seen = None,
                                  !.row = IF state = "SUBMITTED"
                                          THEN Saved(k.size, k.seen, new) ELSE @])
        /\ UNCHANGED <<clock, anchors, confirmed, network, tree, records, dials, bad, deaths>>

MarkSubmitted(c) == Mark(c, "marksub", "SUBMITTED", "setsub")
MarkConfirmed(c) == Mark(c, "markconf", "CONFIRMED", "pointer")

SetSendStatus(c, at, want) ==
    LET k == ctl[c]
        may == SendMay(k.size, want)
    IN  /\ At(c, at)
        /\ IF may THEN SetSend(k.size, want, k.when) ELSE UNCHANGED <<jobs, sends>>
        /\ IF ~may THEN Raise(c, "store")
           ELSE IF want = "SUBMITTED" THEN Goto(c, "pollsent") ELSE EndTick(c)
        /\ UNCHANGED <<clock, tables, network, tree, spent, dials, bad, deaths>>

SetSubmitted(c) == SetSendStatus(c, "setsub", "SUBMITTED")
SetConfirmed(c) == SetSendStatus(c, "setconf", "CONFIRMED")

\* poll_expected, of the txid in the row.  The row of a confirmed anchor may
\* only wait for its last commits.
Settled(k) == /\ k.pc = "poll" /\ k.row.state = "CONFIRMED"
              /\ confirmed = [size |-> k.size, txid |-> k.row.expected]

PollSettled(c) == At(c, "poll") /\ Settled(ctl[c]) /\ Goto(c, "setconf") /\ Quiet

Polling(c) == ctl[c].pc \in {"poll", "pollsent"} /\ ~Settled(ctl[c])

PollFound(c) ==
    LET k == ctl[c]
    IN  /\ Polling(c)
        /\ Found(k.size, k.row.expected)
        /\ Hold(c, [k EXCEPT !.pc = "markconf", !.seen = auth[k.size]])
        /\ Quiet

\* The provider does not have it, or not yet.
PollMissing(c) ==
    LET k == ctl[c]
        expired == k.row.expected # None /\ k.when > k.row.attempted + ValidityWindow
    IN  /\ Polling(c)
        /\ \/ expired /\ Raise(c, "expired")
           \/ ~expired /\ k.pc = "pollsent" /\ EndTick(c)
           \/ ~expired /\ k.pc = "poll" /\ Raise(c, "plain")
        /\ Quiet

\* What was fetched does not verify.
PollBad(c) ==
    /\ Polling(c)
    /\ bad < MaxBadAnswers
    /\ bad' = bad + 1
    /\ Abandon(c)
    /\ UNCHANGED <<clock, tables, network, tree, records, dials, deaths>>

\* save_confirmed_checkpoint: reads the pointer and the row ...
ReadPointer(c) ==
    LET k == ctl[c]
        verdict == ConfirmVerdict(confirmed, anchors[k.size], k.size, k.row.expected)
    IN  /\ At(c, "pointer")
        /\ \/ verdict = "conflict" /\ Abandon(c)
           \/ verdict = "same" /\ Goto(c, "setconf")
           \/ verdict = "insert" /\ Goto(c, "advance")
        /\ Quiet

\* ... and writes both.
AdvancePointer(c) ==
    LET k == ctl[c]
    IN  /\ At(c, "advance")
        /\ SaveConfirmed(k.size, k.row.expected)
        /\ IF anchors[k.size] = None THEN Goto(c, "setconf") ELSE Abandon(c)
        /\ UNCHANGED <<clock, auth, lastAuth, network, tree, records, dials, bad, deaths>>

\* Faulty: whatever was latched is polled for ever.
WaitsForever(k, row) == Latched(row) \/ (k.flow = "first" /\ k.err = "cap")

\* The next tick goes on with the job, instead of a halt.
Waits(k, row) ==
    IF k.flow = "resign" THEN row # None /\ row.state \in {"SEND_ATTEMPTED", "SUBMITTED"}
    ELSE IF Latched(row) THEN k.err # "expired" \/ row.state = "CONFIRMED"
    ELSE k.err = "cap"

\* The handlers of _resume_job, which look at the stored row, not at their own.
Caught(c) ==
    LET k == ctl[c]
        row == auth[k.size]
        wait == Waits(k, row)
        again == ~Latched(row) /\ k.flow = "first" /\ k.err = "stale" /\ k.resigns < 1
    IN  /\ At(c, "caught")
        /\ \/ wait /\ EndTick(c)
           \/ ~wait /\ again /\ Goto(c, "resign")
           \/ ~wait /\ ~again /\ Goto(c, "halt")
        /\ Quiet

\* begin_automation_resign: once, and never after the latch.
Resign(c) ==
    LET k == ctl[c]
        t == k.size
        may == /\ jobs[t] # None /\ jobs[t].status = "AUTHORIZED" /\ jobs[t].resigns < 1
               /\ ~Latched(auth[t])
        failed == [k EXCEPT !.flow = "resign", !.pc = "caught", !.err = "plain"]
    IN  /\ At(c, "resign")
        /\ \/ /\ may
              /\ \E fee \in Fee :
                    LET r == [serial |-> 1, at |-> k.when, fee |-> fee]
                    IN  /\ jobs' = [jobs EXCEPT ![t] = [status |-> "PENDING", req |-> r,
                                        resigns |-> @.resigns + 1, signs |-> 0,
                                        updated |-> k.when]]
                        /\ Hold(c, [k EXCEPT !.pc = "attempt", !.flow = "resign", !.req = r,
                                             !.resigns = 1, !.row = None])
              /\ auth' = [auth EXCEPT ![t] = None]
              /\ lastAuth' = IF lastAuth = t THEN 0 ELSE lastAuth
           \/ Hold(c, failed) /\ UNCHANGED <<jobs, auth, lastAuth>>
        /\ UNCHANGED <<clock, anchors, confirmed, network, tree, sends, spent, dials, bad, deaths>>

Halt(c) ==
    LET k == ctl[c]
    IN  /\ At(c, "halt")
        /\ IF JobMay(k.size, "HALTED") THEN SetJob(k.size, "HALTED", k.when) ELSE UNCHANGED jobs
        /\ EndTick(c)
        /\ UNCHANGED <<clock, tables, network, tree, sends, spent, dials, bad, deaths>>

\* The process dies, or a statement raises what nobody catches.
Die(c) ==
    /\ ctl[c].pc # "idle"
    /\ deaths < MaxDeaths
    /\ deaths' = deaths + 1
    /\ EndTick(c)
    /\ UNCHANGED <<clock, tables, network, tree, records, dials, bad>>

Grow ==
    /\ tree + 1 \in Tree
    /\ tree' = tree + 1
    /\ UNCHANGED <<clock, tables, network, records, ctl, dials, bad, deaths>>

World == \/ (ClockTick \/ Include) /\ UNCHANGED <<tree, records, ctl, dials, bad, deaths>>
         \/ Grow

Tick(c) ==
    \/ TickStart(c) \/ TickLoad(c) \/ TickReconcile(c) \/ Survey(c) \/ Prepare(c)
    \/ RecordAttempt(c) \/ Authorize(c) \/ Dial(c) \/ Persist(c) \/ Authorized(c)
    \/ Reload(c) \/ SignFailed(c) \/ SendGate(c) \/ Reserve(c) \/ PostOnce(c)
    \/ MarkSubmitted(c) \/ SetSubmitted(c) \/ PollSettled(c) \/ PollFound(c)
    \/ PollMissing(c) \/ PollBad(c) \/ MarkConfirmed(c) \/ ReadPointer(c)
    \/ AdvancePointer(c) \/ SetConfirmed(c) \/ Caught(c) \/ Resign(c) \/ Halt(c)

Next == World \/ \E c \in Controller : Tick(c) \/ Die(c)

Spec == Init /\ [][Next]_vars

\* The worker thread keeps running its loop, the clock goes on, and a provider
\* that is asked again and again about a transaction in a block finds it.
LiveSpec ==
    /\ Spec
    /\ WF_vars(World)
    /\ \A c \in Controller : WF_vars(Tick(c)) /\ SF_vars(PollFound(c))

-----------------------------------------------------------------------------
(* Properties *)

Pcs == {"idle", "load", "reconcile", "survey", "prepare", "attempt", "authorize", "dial",
        "persist", "authorized", "reload", "signfail", "send", "reserve", "post", "marksub",
        "setsub", "poll", "pollsent", "markconf", "pointer", "advance", "setconf", "caught",
        "resign", "halt"}

TypeOK ==
    /\ StoreTypeOK
    /\ tree \in Nat
    /\ jobs \in [Tree -> Job \cup {None}]
    /\ sends \in [Tree -> Send \cup {None}]
    /\ ctl \in [Controller ->
          [pc: Pcs, when: Time \cup {0}, conf: [size: Nat, txid: Request \cup {None}],
           size: Nat, req: Request \cup {None}, resigns: Nat, row: AuthRow \cup {None},
           seen: AuthRow \cup {None}, flow: {"first", "resign"},
           err: {"none", "plain", "stale", "expired", "cap", "store"}]]
    /\ dials \in [Tree \X Request -> Nat]
    /\ spent \subseteq [tree: Tree, at: Time, fee: Fee]
    /\ bad \in Nat /\ deaths \in Nat

\* One POST for a tree, ever, whatever processes, restarts, lost answers and
\* re-signs do; and what went out is what its reservation names
\* (reserve_automatic_send: a losing process cannot reach POST).
OnePostPerTree ==
    \A t \in Tree :
        /\ posts[t] <= 1
        /\ posts[t] = 1 => \E s \in spent : s.tree = t
        /\ \A r \in Request : <<t, r>> \in wire /\ sends[t] # None => sends[t].txid = r

\* The reservations among S made in the same window as time x.
InWindow(S, length, x) == {s \in S : WindowStart(length, s.at) = WindowStart(length, x)}

\* The ceilings hold over everything ever reserved, deleted records included
\* (AUTO_HOURLY_ANCHOR_MAX, AUTO_DAILY_FEE_MAX, AUTO_MONTHLY_FEE_MAX).
BudgetKept ==
    \A x \in Time :
        /\ Cardinality(InWindow(spent, HourLength, x)) <= HourlyMax
        /\ \A w \in FeeWindows :
              SumFunctionOnSet([s \in spent |-> s.fee], InWindow(spent, w.length, x)) <= w.max

\* Nothing counts as confirmed that no block contains (poll_expected).
ConfirmedOnChain ==
    /\ \A t \in Tree : anchors[t] # None => <<t, anchors[t]>> \in chain
    /\ confirmed.size # 1 => <<confirmed.size, confirmed.txid>> \in chain

\* Every job comes to an end that the bookkeeping knows, through a lost POST, a
\* failing signer and a death at any step (_reconcile_local, _sign, _poll): none
\* stays unsigned, what was latched long enough before the clock stops is
\* confirmed or halted, and once the confirmed pointer names a tree its
\* reservation says so too, or it would hold back all later trees.
JobsEnd ==
    \A t \in Tree :
        /\ jobs[t] # None /\ jobs[t].status = "PENDING"
              ~> jobs[t] = None \/ jobs[t].status # "PENDING"
        /\ sends[t] # None /\ sends[t].at + ValidityWindow < MaxTime
              ~> jobs[t] = None \/ jobs[t].status \in {"CONFIRMED", "HALTED"}
        /\ confirmed.size = t
              ~> sends[t] = None \/ sends[t].status = "CONFIRMED"
=============================================================================
