---------------------------- MODULE RouteHistory ----------------------------
(***************************************************************************)
(* The observation history (live402/history.py) under the requests that    *)
(* write it: route_need picks a winner, persist_route_batch writes what    *)
(* was probed as tentative, the winner is billed or not, and               *)
(* mark_batch_settled promotes the batch of a paid request.                *)
(*                                                                         *)
(* history._lock serialises the writers, and one sqlite connection serves  *)
(* all of them: what a failed writer leaves in the open transaction is     *)
(* seen by everybody and committed by the next writer.                     *)
(***************************************************************************)
EXTENDS Integers, FiniteSets

CONSTANTS
    Url,       \* resources of sellers
    Payee,     \* what a live resource asks to be paid to
    Batch,     \* requests; each has a batch id of its own
    Target,    \* Batch -> the resources its request probes
    Prior,     \* Url -> the payee established before, or None: never observed
    None,
    PerUrlCap, \* PER_URL_CAP: probes kept of one resource
    ObsCap,    \* OBS_PER_URL_CAP, counted in probes that have observations
    GlobalCap, \* GLOBAL_CAP: probes kept in all
    MaxTime,   \* bound: last second of the clock
    MaxHashed, \* bound: batches of which a hash is published
    MaxFaults  \* bound: sqlite statements that raise and crashes, together

ASSUME TargetAssumption == Target \in [Batch -> (SUBSET Url) \ {{}}]
ASSUME PriorAssumption == Prior \in [Url -> Payee \cup {None}]
ASSUME NoneAssumption == None \notin Url \cup Payee \cup Batch
ASSUME BoundAssumption ==
    {PerUrlCap, ObsCap, GlobalCap, MaxHashed, MaxFaults} \subseteq Nat /\ MaxTime \in Nat \ {0}

VARIABLES
    clock,    \* time.time(), in seconds, from 1: 0 stands for NULL
    disk,     \* the database as committed
    db,       \* the database as the connection sees it, open transaction included
    writer,   \* the request that holds history._lock
    req,      \* Batch -> its request
    paid,     \* batches whose payment this server knows to be settled
    attested, \* Batch -> what /attestation or the log first published the hash of
    verified, \* Url -> shadow catalog's last_verified
    faults    \* statements that have raised, and crashes

vars == <<clock, disk, db, writer, req, paid, attested, verified, faults>>

Seen == Payee \cup {None}       \* None: the probe found the resource dead
Time == 0 .. MaxTime
UrlState == [last : Seen, pending : Seen, changed : Time, checked : Time, ok : Time]
Probe == [id : Nat, batch : Batch \cup {None}, url : Url, ts : Time, pay : Seen,
          trusted : BOOLEAN, observed : BOOLEAN]
Database == [probes : SUBSET Probe, state : [Url -> UrlState],
             sealed : SUBSET Batch, serial : Nat]
Pc == {"idle", "writing", "persisted", "refused", "unpaid",
       "settled", "marking", "touching", "done", "lost"}
Ended == {"refused", "unpaid", "done", "lost"}

NewRequest(b) == [pc |-> "idle", seen |-> [u \in Target[b] |-> None], winner |-> None,
                  risk |-> {}, todo |-> {}, found |-> {}, fresh |-> {}, torn |-> FALSE]

\* What is left of the request that established a payee before.
OldProbe(u) == [id |-> 0, batch |-> None, url |-> u, ts |-> 1, pay |-> Prior[u],
                trusted |-> TRUE, observed |-> TRUE]

Init ==
    /\ clock = 1
    /\ db = [probes |-> {OldProbe(u) : u \in {v \in Url : Prior[v] # None}},
             sealed |-> {}, serial |-> 0,
             state |-> [u \in Url |->
                LET at == IF Prior[u] = None THEN 0 ELSE 1
                IN  [last |-> Prior[u], pending |-> None,
                     changed |-> 0, checked |-> at, ok |-> at]]]
    /\ disk = db
    /\ writer = None
    /\ req = [b \in Batch |-> NewRequest(b)]
    /\ paid = {}
    /\ attested = [b \in Batch |-> {}]
    /\ verified = [u \in Url |-> 0]
    /\ faults = 0

At(b, pc) == req[b].pc = pc
Hold(b, r) == req' = [req EXCEPT ![b] = r]
Goto(b, pc) == Hold(b, [req[b] EXCEPT !.pc = pc])
Lock(b) == writer = None /\ writer' = b
Unlock(b) == writer = b /\ writer' = None
Commit(new) == db' = new /\ disk' = new

-----------------------------------------------------------------------------
(* What a writer does to the database. *)

\* The n newest: "ORDER BY ts DESC, id DESC".  Rows are written under the lock
\* with the time of the writing, so the order of the ids is that of the times.
Newest(rows, n) == {q \in rows : Cardinality({p \in rows : p.id > q.id}) < n}

\* The tail of _write_probe_row: PER_URL_CAP, GLOBAL_CAP, _cap_observations.
Pruned(rows, u) ==
    LET Of(s) == {q \in s : q.url = u}
        all   == Newest((rows \ Of(rows)) \cup Newest(Of(rows), PerUrlCap), GlobalCap)
        full  == Newest({q \in Of(all) : q.observed}, ObsCap)
    IN  {[q EXCEPT !.observed = @ /\ (q.url = u => q \in full)] : q \in all}

NewProbe(b, u, observed) ==
    [id |-> db.serial + 1, batch |-> b, url |-> u, ts |-> clock,
     pay |-> req[b].seen[u], trusted |-> FALSE, observed |-> observed]

\* _payto_risk_against_trusted: pending or not, a payee other than the
\* established one is a risk until it is established.
Risky(u, pay) == db.state[u].last \notin {None, pay} /\ pay # None

\* The payTo_pending that persist_route_batch sets on the raw result.
Flag(b, u) == IF Risky(u, req[b].seen[u]) THEN {u} ELSE {}

\* Faulty: late settlement of an older observation overwrites a newer one.
NeverStale(s, q) == FALSE

Stale(s, q) == q.ts < s.checked

\* Faulty: the first sight of another payee establishes it.
EstablishAtOnce(s, q) == TRUE

Confirms(s, q) == s.pending = q.pay

\* _apply_trusted_url_state
Applied(s, q) ==
    LET payee == IF q.pay = None THEN s
                 ELSE IF s.last \in {None, q.pay} \/ Confirms(s, q)
                      THEN [s EXCEPT !.last = q.pay, !.pending = None]
                      ELSE [s EXCEPT !.pending = q.pay, !.changed = q.ts]
    IN  IF Stale(s, q) THEN s
        ELSE [payee EXCEPT !.checked = q.ts, !.ok = IF q.pay = None THEN @ ELSE q.ts]

-----------------------------------------------------------------------------
(* A request. *)

Live(seen) == {u \in DOMAIN seen : seen[u] # None}

\* select._payto_selectable, for a request that sets accept_payTo_change or not.
Selectable(seen, risk, accept) == IF accept THEN Live(seen) ELSE Live(seen) \ risk

\* Workers probe with record=False; route_need picks the winner, and then
\* persist_route_batch takes the lock.  The history has not been asked yet, so no result
\* carries payTo_pending.  Before the lock nothing is read that others write.
\* The batch id is new (uuid4), so the batch is not sealed yet.
RouteNeed(b) ==
    /\ At(b, "idle")
    /\ Lock(b)
    /\ \E seen \in [Target[b] -> Seen], accept \in BOOLEAN :
          LET good == Selectable(seen, req[b].risk, accept)
          IN  \E w \in IF good = {} THEN {None} ELSE good :
                 Hold(b, [req[b] EXCEPT !.pc = "writing", !.seen = seen, !.winner = w,
                             !.todo = Target[b]])
    /\ UNCHANGED <<clock, disk, db, paid, attested, verified, faults>>

\* Faulty: tentative rows count as trusted.
WriteTrusted(b) ==
    /\ At(b, "writing")
    /\ \E u \in req[b].todo :
          /\ db' = [db EXCEPT !.serial = @ + 1,
                       !.probes = Pruned(db.probes \cup {NewProbe(b, u, TRUE)}, u),
                       !.state[u] = Applied(@, NewProbe(b, u, TRUE))]
          /\ Hold(b, [req[b] EXCEPT !.todo = @ \ {u}])
    /\ UNCHANGED <<clock, disk, writer, paid, attested, verified, faults>>

\* _write_probe_row, for one of the probed resources.
WriteRow(b) ==
    /\ At(b, "writing")
    /\ \E u \in req[b].todo :
          /\ db' = [db EXCEPT !.serial = @ + 1,
                              !.probes = Pruned(db.probes \cup {NewProbe(b, u, TRUE)}, u)]
          /\ Hold(b, [req[b] EXCEPT !.todo = @ \ {u}, !.risk = @ \cup Flag(b, u)])
    /\ UNCHANGED <<clock, disk, writer, paid, attested, verified, faults>>

SealBatch(b) ==
    /\ At(b, "writing") /\ req[b].todo = {}
    /\ Commit([db EXCEPT !.sealed = @ \cup {b}])
    /\ Unlock(b)
    /\ Goto(b, "persisted")
    /\ UNCHANGED <<clock, paid, attested, verified, faults>>

\* A statement raises: persist_route_batch returns what it has, without rollback.
\* The row it was writing may be there, but not its observations.
PersistRaises(b) ==
    /\ At(b, "writing")
    /\ faults < MaxFaults
    /\ faults' = faults + 1
    /\ \/ UNCHANGED db
       \/ \E u \in req[b].todo :
             db' = [db EXCEPT !.serial = @ + 1, !.probes = db.probes \cup {NewProbe(b, u, FALSE)}]
    /\ Unlock(b)
    /\ Goto(b, "persisted")
    /\ UNCHANGED <<clock, disk, paid, attested, verified>>

\* 503, and nothing is settled: no winner, or the facilitator declines or does not
\* answer.  The batch stays tentative.
Unpaid(b) ==
    /\ At(b, "persisted")
    /\ Hold(b, [NewRequest(b) EXCEPT !.pc = "unpaid"])
    /\ UNCHANGED <<clock, disk, db, writer, paid, attested, verified, faults>>

\* _billable_winner says no to a winner whose payee is pending.
Refuse(b) ==
    /\ At(b, "persisted")
    /\ req[b].winner \in Url \ Selectable(req[b].seen, req[b].risk, FALSE)
    /\ Goto(b, "refused")
    /\ UNCHANGED <<clock, disk, db, writer, paid, attested, verified, faults>>

Settle(b) ==
    /\ At(b, "persisted")
    /\ \E accept \in BOOLEAN : req[b].winner \in Selectable(req[b].seen, req[b].risk, accept)
    /\ paid' = paid \cup {b}
    /\ Hold(b, [req[b] EXCEPT !.pc = "settled", !.winner = None, !.risk = {}])
    /\ UNCHANGED <<clock, disk, db, writer, attested, verified, faults>>

-----------------------------------------------------------------------------
(* mark_batch_settled *)

\* Faulty: a promoted row gets the time of the promotion.
PromoteNow(q) == [q EXCEPT !.trusted = TRUE, !.ts = clock]

Promote(q) == [q EXCEPT !.trusted = TRUE]

\* The SELECT and the UPDATEs.  Rows pruned since they were written are not found,
\* nor are those that have no observation left; when there is none, it commits.
BeginMark(b) ==
    LET rows == {q \in db.probes : q.batch = b /\ q.observed /\ ~q.trusted}
    IN  /\ At(b, "settled")
        /\ writer = None
        /\ \/ /\ rows = {}
              /\ Commit(db)
              /\ Goto(b, "done")
              /\ UNCHANGED writer
           \/ /\ rows # {}
              /\ Lock(b)
              /\ db' = [db EXCEPT !.probes = (@ \ rows) \cup {Promote(q) : q \in rows}]
              /\ Hold(b, [req[b] EXCEPT !.pc = "marking", !.found = rows,
                                        !.todo = {q.url : q \in rows}])
              /\ UNCHANGED disk
        /\ UNCHANGED <<clock, paid, attested, verified, faults>>

Unapplied(b) == {q \in req[b].found : q.url \in req[b].todo}

\* In the order of the rows; a URL has one row in a batch.
ApplyRow(b) ==
    /\ At(b, "marking")
    /\ \E q \in Unapplied(b) :
          /\ \A p \in Unapplied(b) : q.id <= p.id
          /\ db' = [db EXCEPT !.state[q.url] = Applied(@, q)]
          /\ Hold(b, [req[b] EXCEPT !.todo = @ \ {q.url},
                         !.fresh = IF Stale(db.state[q.url], q) THEN @ ELSE @ \cup {q.url}])
    /\ UNCHANGED <<clock, disk, writer, paid, attested, verified, faults>>

CommitMark(b) ==
    /\ At(b, "marking") /\ req[b].todo = {}
    /\ Commit(db)
    /\ Unlock(b)
    /\ Goto(b, "touching")
    /\ UNCHANGED <<clock, paid, attested, verified, faults>>

MarkRaises(b) ==
    /\ At(b, "marking")
    /\ faults < MaxFaults
    /\ faults' = faults + 1
    /\ Unlock(b)
    /\ Hold(b, [req[b] EXCEPT !.pc = "done", !.torn = TRUE, !.todo = {}, !.fresh = {}])
    /\ UNCHANGED <<clock, disk, db, paid, attested, verified>>

\* _touch_shadow_verified, for the rows that were applied.
Touch(b) ==
    /\ At(b, "touching")
    /\ verified' = [u \in Url |-> IF u \in req[b].fresh THEN clock ELSE verified[u]]
    /\ Hold(b, [req[b] EXCEPT !.pc = "done", !.fresh = {}])
    /\ UNCHANGED <<clock, disk, db, writer, paid, attested, faults>>

-----------------------------------------------------------------------------
(* Attestations, the clock, a crash. *)

Content(b) == {[url |-> q.url, pay |-> q.pay, ts |-> q.ts] :
                  q \in {p \in db.probes : p.batch = b /\ p.observed}}

\* attestation_for, from GET /attestation or from the log: it hashes, seals, commits.
Attest(b) ==
    /\ writer = None
    /\ Content(b) # {}
    /\ Cardinality({c \in Batch \ {b} : attested[c] # {}}) < MaxHashed
    /\ attested' = [attested EXCEPT ![b] = IF @ = {} THEN Content(b) ELSE @]
    /\ Commit([db EXCEPT !.sealed = @ \cup {b}])
    /\ UNCHANGED <<clock, writer, req, paid, verified, faults>>

Tick ==
    /\ clock < MaxTime
    /\ clock' = clock + 1
    /\ UNCHANGED <<disk, db, writer, req, paid, attested, verified, faults>>

\* The process dies: the open transaction and the requests under way are gone.
Crash ==
    /\ faults < MaxFaults
    /\ faults' = faults + 1
    /\ db' = disk
    /\ writer' = None
    /\ req' = [b \in Batch |-> IF req[b].pc \in Ended \cup {"idle"} THEN req[b]
                               ELSE [NewRequest(b) EXCEPT !.pc = "lost", !.found = req[b].found,
                                        !.seen = IF b \in paid THEN req[b].seen ELSE @]]
    /\ UNCHANGED <<clock, disk, paid, attested, verified>>

Request(b) ==
    \/ RouteNeed(b) \/ WriteRow(b) \/ SealBatch(b) \/ PersistRaises(b)
    \/ Unpaid(b) \/ Refuse(b) \/ Settle(b)
    \/ BeginMark(b) \/ ApplyRow(b) \/ CommitMark(b) \/ MarkRaises(b) \/ Touch(b)

Next ==
    \/ Tick
    \/ Crash
    \/ \E b \in Batch : Request(b) \/ Attest(b)

Spec == Init /\ [][Next]_vars

-----------------------------------------------------------------------------
(* Safety. *)

Witnesses(u) == {b \in paid : u \in Target[b]}

\* docs/settlement-provenance.md: a tentative observation moves nothing that is
\* trusted.  Every trusted row, established or pending payee, check and shadow clock
\* goes back to a request that was paid for, whatever interleaving, failed statement
\* or crash lies between, and the shadow clock never runs ahead of the history on disk.
UnpaidLeavesNoTrace ==
    /\ \A d \in {disk, db} :
          /\ \A q \in d.probes : q.trusted => q.batch \in paid \cup {None}
          /\ \A u \in Url :
                /\ {d.state[u].last, d.state[u].pending} \ {None}
                      \subseteq {req[b].seen[u] : b \in Witnesses(u)} \cup {Prior[u]}
                /\ d.state[u].checked > (IF Prior[u] = None THEN 0 ELSE 1) => Witnesses(u) # {}
    /\ \A u \in Url : verified[u] # 0 => disk.state[u].checked # 0

\* "PayTo rotation": the established payee of a resource is replaced only after two
\* paid requests have seen the new one.
PayeeNeedsTwoPayments ==
    [][\A u \in Url :
          LET new == disk'.state[u].last
          IN  disk.state[u].last \notin {None, new} =>
                 Cardinality({b \in Witnesses(u) : req[b].seen[u] = new}) >= 2]_vars

\* mark_batch_settled: "Late settlement of an older observation does not overwrite
\* newer trusted state."  After a promotion is committed, the trusted state is never
\* older than what was promoted, and when nothing newer came and nothing else in the
\* same second, it knows the payee that was promoted.
NewestTrustedWins ==
    \A b \in Batch : \A q \in req[b].found :
        LET s == disk.state[q.url]
            alone == \A c \in Batch \ {b} : \A p \in req[c].found : <<p.url, p.ts>> # <<q.url, q.ts>>
        IN  req[b].pc \in {"touching", "done"} /\ ~req[b].torn =>
               /\ s.checked >= q.ts
               /\ s.checked = q.ts /\ alone /\ q.pay # None => q.pay \in {s.last, s.pending}

\* attestation_for: "Computing the hash seals the batch so later writes cannot change
\* it."  They may still delete from it (the caps), but never add or alter; and the seal
\* of a batch somebody has the hash of survives a crash.
SealedOnlyLoses ==
    \A b \in Batch : attested[b] # {} =>
        /\ b \in disk.sealed
        /\ Content(b) \subseteq attested[b]

=============================================================================
