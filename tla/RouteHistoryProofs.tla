------------------------- MODULE RouteHistoryProofs -------------------------
(***************************************************************************)
(* Proofs about RouteHistory: nothing unpaid is trusted, a payee changes   *)
(* only after two payments, the newest trusted observation wins, and what  *)
(* was hashed only loses rows, for any requests, resources, payees, caps,  *)
(* failing statements and crashes.                                         *)
(***************************************************************************)
EXTENDS RouteHistory, FiniteSetTheorems, TLAPS

-----------------------------------------------------------------------------
(* Types *)

Held == [pc : Pc, seen : UNION {[T -> Seen] : T \in SUBSET Url}, winner : Url \cup {None},
         risk : SUBSET Url, todo : SUBSET Url, found : SUBSET Probe, fresh : SUBSET Url,
         torn : BOOLEAN]

DbType(d) == d \in Database /\ \A q \in d.probes : q.ts # 0
ReqType ==
    /\ req \in [Batch -> Held]
    /\ \A b \in Batch : req[b].seen \in [Target[b] -> Seen]
    /\ \A b \in Batch : \A q \in req[b].found : q.ts # 0
WorldType ==
    /\ clock \in Time \ {0}
    /\ paid \subseteq Batch /\ verified \in [Url -> Time]
    /\ attested \in [Batch -> SUBSET [url : Url, pay : Seen, ts : Time]]

TypeInv == DbType(disk) /\ DbType(db) /\ ReqType /\ WorldType

-----------------------------------------------------------------------------
(* The inductive invariant *)

Active == {"writing", "persisted", "settled"}
Late == {"marking", "touching", "done", "lost"}

\* Where a request is, and what that says of the lock, the payment, the rows it
\* promotes and the hash.
PcInv ==
    \A b \in Batch :
        /\ req[b].pc \in {"writing", "marking"} => writer = b
        /\ req[b].pc = "writing" => req[b].todo \subseteq Target[b]
        /\ b \in paid => req[b].pc \in Late \cup {"settled"}
        /\ req[b].pc \in {"settled", "marking", "touching", "done"} => b \in paid
        /\ req[b].found # {} => b \in paid /\ req[b].pc \in Late
        /\ attested[b] # {} => req[b].pc \notin {"idle", "writing"}
        /\ req[b].fresh # {} => req[b].pc \in {"marking", "touching"}

RowsInv ==
    \A d \in {disk, db} : \A q \in d.probes :
        /\ q.trusted => q.batch \in paid \cup {None}
        /\ q.batch # None => req[q.batch].pc # "idle"

\* A row of a request that can still be promoted says what that request has seen,
\* and no other row of the request is about the same resource.
Own(q, rows, r) ==
    /\ q.url \in DOMAIN r.seen /\ q.pay = r.seen[q.url]
    /\ r.pc = "writing" => q.url \notin r.todo
    /\ \A p \in rows : p.batch = q.batch /\ p.url = q.url => p = q
OwnInv ==
    \A q \in db.probes :
        q.batch # None /\ req[q.batch].pc \in Active => Own(q, db.probes, req[q.batch])

FoundInv ==
    \A b \in Batch : \A q \in req[b].found :
        /\ q.url \in Target[b] /\ q.pay = req[b].seen[q.url]
        /\ \A p \in req[b].found : p.url = q.url => p = q

ContentOf(rows, b) == {[url |-> q.url, pay |-> q.pay, ts |-> q.ts] :
                          q \in {p \in rows : p.batch = b /\ p.observed}}
SealInv ==
    \A b \in Batch : attested[b] # {} =>
        \A d \in {disk, db} : b \in d.sealed /\ ContentOf(d.probes, b) \subseteq attested[b]

\* Request c was paid for (P) and has seen pay at u; it will not apply that again (R).
Sees(c, u, pay, P, R) == c \in P /\ u \in Target[c] /\ R[c].seen[u] = pay
Past(c, u, R) == \/ R[c].pc \in {"touching", "done", "lost"}
                 \/ R[c].pc = "marking" /\ u \notin R[c].todo

\* The state s of resource u goes back to requests that were paid for, and is not
\* behind the committed one.
Known(u) == IF Prior[u] = None THEN 0 ELSE 1
Traced(s, u, P, R) ==
    /\ s.last \notin {None, Prior[u]} => \E c \in P : Sees(c, u, s.last, P, R)
    /\ s.pending # None => \E c \in P : Sees(c, u, s.pending, P, R) /\ Past(c, u, R)
    /\ s.checked > Known(u) => \E c \in P : u \in Target[c]
TwoSaw(u, pay, P, R) == \E b, c \in P : b # c /\ Sees(b, u, pay, P, R) /\ Sees(c, u, pay, P, R)
Ahead(s, old, u, P, R) ==
    /\ old.checked <= s.checked
    /\ old.last # None => s.last # None
    /\ old.last \notin {None, s.last} => TwoSaw(u, s.last, P, R)
StateInv ==
    \A u \in Url : /\ Traced(disk.state[u], u, paid, req) /\ Traced(db.state[u], u, paid, req)
                   /\ Ahead(db.state[u], disk.state[u], u, paid, req)

FreshInv ==
    /\ \A u \in Url : verified[u] # 0 => disk.state[u].checked # 0
    /\ \A b \in Batch : \A u \in req[b].fresh :
          /\ req[b].pc = "marking" => db.state[u].checked # 0
          /\ req[b].pc = "touching" => disk.state[u].checked # 0

\* Nobody else promotes an observation of the same resource and second.
Alone(b, q, R) == \A c \in Batch \ {b} : \A p \in R[c].found : <<p.url, p.ts>> # <<q.url, q.ts>>
Newer(b, q, s, R) ==
    /\ s.checked >= q.ts
    /\ s.checked = q.ts /\ Alone(b, q, R) /\ q.pay # None => q.pay \in {s.last, s.pending}
NewestInv ==
    \A b \in Batch : \A q \in req[b].found :
        /\ req[b].pc = "marking" /\ q.url \notin req[b].todo => Newer(b, q, db.state[q.url], req)
        /\ req[b].pc \in {"touching", "done"} /\ ~req[b].torn =>
              Newer(b, q, db.state[q.url], req) /\ Newer(b, q, disk.state[q.url], req)

HistoryInv == PcInv /\ RowsInv /\ OwnInv /\ FoundInv /\ SealInv /\ StateInv /\ FreshInv /\ NewestInv

-----------------------------------------------------------------------------
(* Helpers *)

LEMMA TargetIn == \A b \in Batch : Target[b] \in SUBSET Url
BY TargetAssumption

LEMMA HoldIs ==
    ASSUME TypeInv, NEW b \in Batch, NEW r, Hold(b, r)
    PROVE  \A c \in Batch : req'[c] = IF c = b THEN r ELSE req[c]
BY DEF Hold, TypeInv, ReqType

\* p is row q, perhaps without its observations.
Left(p, q) ==
    /\ p \in Probe /\ p.batch = q.batch /\ p.url = q.url /\ p.ts = q.ts /\ p.pay = q.pay
    /\ p.trusted = q.trusted
    /\ p.observed => q.observed

\* What pruning leaves comes from the rows it was given, each from one of its own.
LEMMA PrunedLeft ==
    ASSUME NEW rows \in SUBSET Probe, NEW u
    PROVE  \E f : /\ \A q \in rows : Left(f[q], q)
                  /\ \A p \in Pruned(rows, u) : \E q \in rows : p = f[q]
<1> DEFINE Of(s) == {q \in s : q.url = u}
           all == Newest((rows \ Of(rows)) \cup Newest(Of(rows), PerUrlCap), GlobalCap)
           full == Newest({q \in Of(all) : q.observed}, ObsCap)
           o(q) == q.observed /\ (q.url = u => q \in full)
           f == [q \in rows |-> [q EXCEPT !.observed = o(q)]]
<1>1. all \subseteq rows
  BY DEF Newest
<1>2. Pruned(rows, u) = {[q EXCEPT !.observed = @ /\ (q.url = u => q \in full)] : q \in all}
  BY DEF Pruned
<1> HIDE DEF all, full
<1>3. ASSUME NEW q \in rows PROVE Left(f[q], q)
  <2>1. q \in Probe /\ f[q] = [q EXCEPT !.observed = o(q)]
    OBVIOUS
  <2>2. o(q) \in BOOLEAN /\ (o(q) => q.observed)
    BY <2>1 DEF Probe
  <2> HIDE DEF o, f
  <2> QED BY <2>1, <2>2 DEF Left, Probe
<1>4. ASSUME NEW p \in Pruned(rows, u) PROVE \E q \in rows : p = f[q]
  <2>1. PICK q \in all : p = [q EXCEPT !.observed = q.observed /\ (q.url = u => q \in full)]
    BY <1>2, <1>4
  <2>2. q \in rows
    BY <1>1
  <2> QED BY <2>1, <2>2
<1> HIDE DEF f
<1> QED BY <1>3, <1>4

LEMMA NewProbeType ==
    ASSUME TypeInv, NEW b \in Batch, NEW u \in Target[b], NEW o \in BOOLEAN
    PROVE  /\ NewProbe(b, u, o) \in Probe
           /\ NewProbe(b, u, o).batch = b /\ NewProbe(b, u, o).url = u
           /\ NewProbe(b, u, o).ts = clock /\ NewProbe(b, u, o).ts # 0
           /\ NewProbe(b, u, o).pay = req[b].seen[u] /\ NewProbe(b, u, o).trusted = FALSE
<1>1. db.serial + 1 \in Nat /\ clock \in Time /\ clock # 0 /\ req[b].seen[u] \in Seen /\ u \in Url
  BY TargetIn DEF TypeInv, DbType, ReqType, WorldType, Database
<1> QED BY <1>1 DEF NewProbe, Probe

LEMMA PromoteIs ==
    ASSUME NEW q \in Probe
    PROVE  /\ Promote(q) \in Probe /\ Promote(q).trusted = TRUE
           /\ Promote(q).batch = q.batch /\ Promote(q).url = q.url
           /\ Promote(q).ts = q.ts /\ Promote(q).pay = q.pay /\ Promote(q).observed = q.observed
BY DEF Promote, Probe

\* What an observation does to the state of its resource.
LEMMA AppliedIs ==
    ASSUME NEW s \in UrlState, NEW q \in Probe
    PROVE  /\ Applied(s, q) \in UrlState
           /\ Stale(s, q) => Applied(s, q) = s
           /\ ~Stale(s, q) =>
                /\ Applied(s, q).checked = q.ts
                /\ q.pay = None => Applied(s, q).last = s.last /\ Applied(s, q).pending = s.pending
                /\ q.pay # None /\ (s.last \in {None, q.pay} \/ s.pending = q.pay) =>
                      Applied(s, q).last = q.pay /\ Applied(s, q).pending = None
                /\ q.pay # None /\ ~(s.last \in {None, q.pay} \/ s.pending = q.pay) =>
                      Applied(s, q).last = s.last /\ Applied(s, q).pending = q.pay
<1>1. q.pay \in Seen /\ q.ts \in Time /\ None \in Seen
  BY DEF Probe, Seen
<1> DEFINE payee == IF q.pay = None THEN s
                    ELSE IF s.last \in {None, q.pay} \/ Confirms(s, q)
                         THEN [s EXCEPT !.last = q.pay, !.pending = None]
                         ELSE [s EXCEPT !.pending = q.pay, !.changed = q.ts]
           ok == IF q.pay = None THEN s.ok ELSE q.ts
<1>2. /\ payee \in UrlState /\ payee.ok = s.ok
      /\ q.pay = None => payee.last = s.last /\ payee.pending = s.pending
      /\ q.pay # None /\ (s.last \in {None, q.pay} \/ s.pending = q.pay) =>
            payee.last = q.pay /\ payee.pending = None
      /\ q.pay # None /\ ~(s.last \in {None, q.pay} \/ s.pending = q.pay) =>
            payee.last = s.last /\ payee.pending = q.pay
  BY <1>1 DEF Confirms, UrlState
<1>3. ok \in Time
  BY <1>1 DEF UrlState
<1>4. Applied(s, q) = IF Stale(s, q) THEN s
                      ELSE [payee EXCEPT !.checked = q.ts, !.ok = IF q.pay = None THEN @ ELSE q.ts]
  BY DEF Applied
<1> HIDE DEF payee
<1>5. /\ [payee EXCEPT !.checked = q.ts, !.ok = IF q.pay = None THEN @ ELSE q.ts] \in UrlState
      /\ [payee EXCEPT !.checked = q.ts, !.ok = IF q.pay = None THEN @ ELSE q.ts].checked = q.ts
      /\ [payee EXCEPT !.checked = q.ts, !.ok = IF q.pay = None THEN @ ELSE q.ts].last = payee.last
      /\ [payee EXCEPT !.checked = q.ts, !.ok = IF q.pay = None THEN @ ELSE q.ts].pending
             = payee.pending
  BY <1>1, <1>2, <1>3 DEF UrlState
<1> QED BY <1>2, <1>4, <1>5

-----------------------------------------------------------------------------
(* The types hold *)

LEMMA HoldType ==
    ASSUME TypeInv, NEW b \in Batch, NEW r \in Held, r.seen \in [Target[b] -> Seen],
           \A q \in r.found : q.ts # 0, Hold(b, r)
    PROVE  ReqType'
<1>1. req' = [req EXCEPT ![b] = r] /\ req' \in [Batch -> Held]
  BY DEF Hold, TypeInv, ReqType
<1> QED BY <1>1, HoldIs DEF TypeInv, ReqType

LEMMA GotoType ==
    ASSUME TypeInv, NEW b \in Batch, NEW to \in Pc, Goto(b, to)
    PROVE  ReqType'
<1> DEFINE r == [req[b] EXCEPT !.pc = to]
<1>1. req[b] \in Held /\ req[b].seen \in [Target[b] -> Seen] /\ \A q \in req[b].found : q.ts # 0
  BY DEF TypeInv, ReqType
<1>2. r \in Held /\ r.seen = req[b].seen /\ r.found = req[b].found
  BY <1>1 DEF Held
<1>3. Hold(b, r)
  BY DEF Goto
<1> HIDE DEF r
<1> QED BY <1>1, <1>2, <1>3, HoldType

LEMMA NewRequestType ==
    ASSUME NEW b \in Batch
    PROVE  /\ NewRequest(b) \in Held /\ NewRequest(b).seen = [u \in Target[b] |-> None]
           /\ NewRequest(b).seen \in [Target[b] -> Seen]
           /\ NewRequest(b).found = {} /\ NewRequest(b).fresh = {} /\ NewRequest(b).pc = "idle"
<1>1. [u \in Target[b] |-> None] \in [Target[b] -> Seen]
  BY DEF Seen
<1>2. [u \in Target[b] |-> None] \in UNION {[T -> Seen] : T \in SUBSET Url}
  BY <1>1, TargetIn
<1> QED BY <1>1, <1>2 DEF NewRequest, Held, Pc

\* A database that is only written as a whole keeps its type.
LEMMA SealedType ==
    ASSUME NEW d, DbType(d), NEW b \in Batch, NEW e, e = [d EXCEPT !.sealed = @ \cup {b}]
    PROVE  /\ DbType(e) /\ e.probes = d.probes /\ e.state = d.state
           /\ e.sealed = d.sealed \cup {b}
<1>1. d \in Database /\ d.sealed \cup {b} \in SUBSET Batch
  BY DEF DbType, Database
<1> QED BY <1>1 DEF DbType, Database

\* The database after a row was written, pruned or not.
LEMMA WrittenIs ==
    ASSUME TypeInv, NEW b \in Batch, NEW u \in Target[b],
           db' = [db EXCEPT !.serial = @ + 1,
                            !.probes = Pruned(db.probes \cup {NewProbe(b, u, TRUE)}, u)]
    PROVE  /\ DbType(db') /\ db'.state = db.state /\ db'.sealed = db.sealed
           /\ db'.probes = Pruned(db.probes \cup {NewProbe(b, u, TRUE)}, u)
<1> DEFINE with == db.probes \cup {NewProbe(b, u, TRUE)}
           rows == Pruned(with, u)
           n == db.serial + 1
<1>1. DbType(db) /\ db.probes \in SUBSET Probe /\ n \in Nat /\ \A q \in db.probes : q.ts # 0
  BY DEF TypeInv, DbType, Database
<1>2. with \in SUBSET Probe /\ \A q \in with : q.ts # 0
  <2>1. NewProbe(b, u, TRUE) \in Probe /\ NewProbe(b, u, TRUE).ts # 0
    BY NewProbeType
  <2> QED BY <1>1, <2>1
<1> HIDE DEF with
<1>3. rows \in SUBSET Probe /\ \A q \in rows : q.ts # 0
  <2>1. PICK f : /\ \A q \in with : Left(f[q], q)
                 /\ \A p \in Pruned(with, u) : \E q \in with : p = f[q]
    BY <1>2, PrunedLeft
  <2> QED BY <1>2, <2>1 DEF Left
<1>4. db' = [db EXCEPT !.serial = n, !.probes = rows]
  BY DEF with
<1> HIDE DEF rows, n
<1>5. DbType(db') /\ db'.state = db.state /\ db'.sealed = db.sealed /\ db'.probes = rows
  BY <1>1, <1>3, <1>4 DEF DbType, Database
<1> QED BY <1>5 DEF rows, with

LEMMA TornIs ==
    ASSUME TypeInv, NEW b \in Batch, NEW u \in Target[b],
           db' = [db EXCEPT !.serial = @ + 1, !.probes = db.probes \cup {NewProbe(b, u, FALSE)}]
    PROVE  /\ DbType(db') /\ db'.state = db.state /\ db'.sealed = db.sealed
           /\ db'.probes = db.probes \cup {NewProbe(b, u, FALSE)}
<1> DEFINE rows == db.probes \cup {NewProbe(b, u, FALSE)}
           n == db.serial + 1
<1>1. DbType(db) /\ db.probes \in SUBSET Probe /\ n \in Nat /\ \A q \in db.probes : q.ts # 0
  BY DEF TypeInv, DbType, Database
<1>2. rows \in SUBSET Probe /\ \A q \in rows : q.ts # 0
  <2>1. NewProbe(b, u, FALSE) \in Probe /\ NewProbe(b, u, FALSE).ts # 0
    BY NewProbeType
  <2> QED BY <1>1, <2>1
<1>3. db' = [db EXCEPT !.serial = n, !.probes = rows]
  OBVIOUS
<1> HIDE DEF rows, n
<1>4. DbType(db') /\ db'.state = db.state /\ db'.sealed = db.sealed /\ db'.probes = rows
  BY <1>1, <1>2, <1>3 DEF DbType, Database
<1> QED BY <1>4 DEF rows

-----------------------------------------------------------------------------
(* What each action does, as far as the invariant is concerned *)

\* Request b goes to pc with these fields; the others stay where they are.
Becomes(b, pc, seen, todo, found, fresh, torn) ==
    /\ \A c \in Batch : c # b => req'[c] = req[c]
    /\ req'[b].pc = pc /\ req'[b].seen = seen /\ req'[b].todo = todo
    /\ req'[b].found = found /\ req'[b].fresh = fresh /\ req'[b].torn = torn

LEMMA HoldBecomes ==
    ASSUME TypeInv, NEW b \in Batch, NEW r \in Held, r.seen \in [Target[b] -> Seen],
           \A q \in r.found : q.ts # 0, Hold(b, r)
    PROVE  ReqType' /\ Becomes(b, r.pc, r.seen, r.todo, r.found, r.fresh, r.torn)
<1>1. ReqType'
  BY HoldType
<1> QED BY <1>1, HoldIs DEF Becomes

LEMMA GotoBecomes ==
    ASSUME TypeInv, NEW b \in Batch, NEW to \in Pc, Goto(b, to)
    PROVE  /\ ReqType'
           /\ Becomes(b, to, req[b].seen, req[b].todo, req[b].found, req[b].fresh, req[b].torn)
<1>1. req[b] \in Held
  BY DEF TypeInv, ReqType
<1> DEFINE r == [req[b] EXCEPT !.pc = to]
<1>2. /\ r.pc = to /\ r.seen = req[b].seen /\ r.todo = req[b].todo /\ r.found = req[b].found
      /\ r.fresh = req[b].fresh /\ r.torn = req[b].torn
  BY <1>1 DEF Held
<1>3. Hold(b, r)
  BY DEF Goto
<1> HIDE DEF r
<1>4. \A c \in Batch : req'[c] = IF c = b THEN r ELSE req[c]
  BY <1>3, HoldIs
<1>5. ReqType'
  BY GotoType
<1> QED BY <1>2, <1>4, <1>5 DEF Becomes

LEMMA RouteNeedDoes ==
    ASSUME TypeInv, NEW b \in Batch, RouteNeed(b)
    PROVE  /\ TypeInv'
           /\ req[b].pc = "idle" /\ writer = None /\ writer' = b
           /\ \E seen \in [Target[b] -> Seen] :
                 Becomes(b, "writing", seen, Target[b], req[b].found, req[b].fresh, req[b].torn)
           /\ UNCHANGED <<db, disk, paid, attested, verified>>
<1>1. PICK seen \in [Target[b] -> Seen], w \in Url \cup {None} :
         Hold(b, [req[b] EXCEPT !.pc = "writing", !.seen = seen, !.winner = w, !.todo = Target[b]])
  <2>1. PICK seen \in [Target[b] -> Seen], accept \in BOOLEAN :
           \E w \in IF Selectable(seen, req[b].risk, accept) = {} THEN {None}
                    ELSE Selectable(seen, req[b].risk, accept) :
              Hold(b, [req[b] EXCEPT !.pc = "writing", !.seen = seen, !.winner = w,
                                     !.todo = Target[b]])
    BY DEF RouteNeed
  <2>2. Selectable(seen, req[b].risk, accept) \subseteq Url
    BY TargetIn DEF Selectable, Live
  <2> QED BY <2>1, <2>2
<1> DEFINE r == [req[b] EXCEPT !.pc = "writing", !.seen = seen, !.winner = w, !.todo = Target[b]]
<1>2. req[b] \in Held /\ (\A q \in req[b].found : q.ts # 0) /\ Target[b] \in SUBSET Url
  BY TargetIn DEF TypeInv, ReqType
<1>3. seen \in UNION {[T -> Seen] : T \in SUBSET Url}
  BY <1>2
<1>4. r \in Held
  BY <1>2, <1>3 DEF Held, Pc
<1>5. /\ r.pc = "writing" /\ r.seen = seen /\ r.todo = Target[b] /\ r.found = req[b].found
      /\ r.fresh = req[b].fresh /\ r.torn = req[b].torn
  BY <1>2 DEF Held
<1>6. Hold(b, r)
  BY <1>1
<1> HIDE DEF r
<1>7. ReqType' /\ Becomes(b, r.pc, r.seen, r.todo, r.found, r.fresh, r.torn)
  BY <1>2, <1>4, <1>5, <1>6, HoldBecomes
<1>8. Becomes(b, "writing", seen, Target[b], req[b].found, req[b].fresh, req[b].torn)
  BY <1>5, <1>7
<1>9. /\ req[b].pc = "idle" /\ writer = None /\ writer' = b
      /\ UNCHANGED <<clock, db, disk, paid, attested, verified>>
  BY DEF RouteNeed, At, Lock
<1>10. TypeInv'
  BY <1>7, <1>9 DEF TypeInv, DbType, WorldType
<1> QED BY <1>8, <1>9, <1>10

LEMMA WriteRowDoes ==
    ASSUME TypeInv, NEW b \in Batch, WriteRow(b), req[b].todo \subseteq Target[b]
    PROVE  /\ TypeInv'
           /\ req[b].pc = "writing"
           /\ \E u \in req[b].todo :
                 /\ Becomes(b, "writing", req[b].seen, req[b].todo \ {u}, req[b].found, req[b].fresh,
                            req[b].torn)
                 /\ db'.state = db.state /\ db'.sealed = db.sealed
                 /\ db'.probes = Pruned(db.probes \cup {NewProbe(b, u, TRUE)}, u)
           /\ UNCHANGED <<disk, writer, paid, attested, verified>>
<1>1. PICK u \in req[b].todo :
         /\ db' = [db EXCEPT !.serial = @ + 1,
                             !.probes = Pruned(db.probes \cup {NewProbe(b, u, TRUE)}, u)]
         /\ Hold(b, [req[b] EXCEPT !.todo = @ \ {u}, !.risk = @ \cup Flag(b, u)])
  BY DEF WriteRow
<1>2. /\ req[b] \in Held /\ req[b].seen \in [Target[b] -> Seen]
      /\ (\A q \in req[b].found : q.ts # 0) /\ u \in Target[b] /\ u \in Url
  BY TargetIn DEF TypeInv, ReqType
<1>3. DbType(db') /\ db'.state = db.state /\ db'.sealed = db.sealed
      /\ db'.probes = Pruned(db.probes \cup {NewProbe(b, u, TRUE)}, u)
  BY <1>1, <1>2, WrittenIs
<1> DEFINE risk == req[b].risk \cup Flag(b, u)
           todo == req[b].todo \ {u}
           r == [req[b] EXCEPT !.todo = todo, !.risk = risk]
<1>4. risk \in SUBSET Url /\ todo \in SUBSET Url
  BY <1>2 DEF Held, Flag
<1>5. Hold(b, r)
  <2>1. [req[b] EXCEPT !.todo = @ \ {u}].risk = req[b].risk
    BY <1>2 DEF Held
  <2> QED BY <1>1, <2>1
<1>6. req[b].pc = "writing"
  BY DEF WriteRow, At
<1> HIDE DEF risk, todo
<1>7. r \in Held
  BY <1>2, <1>4 DEF Held
<1>8. /\ r.pc = "writing" /\ r.seen = req[b].seen /\ r.todo = todo /\ r.found = req[b].found
      /\ r.fresh = req[b].fresh /\ r.torn = req[b].torn
  BY <1>2, <1>6 DEF Held
<1> HIDE DEF r
<1>9. ReqType' /\ Becomes(b, r.pc, r.seen, r.todo, r.found, r.fresh, r.torn)
  BY <1>2, <1>5, <1>7, <1>8, HoldBecomes
<1>10. Becomes(b, "writing", req[b].seen, req[b].todo \ {u}, req[b].found, req[b].fresh, req[b].torn)
  BY <1>8, <1>9 DEF todo
<1>11. UNCHANGED <<clock, disk, writer, paid, attested, verified>>
  BY DEF WriteRow
<1>12. TypeInv'
  BY <1>3, <1>9, <1>11 DEF TypeInv, DbType, WorldType
<1> QED BY <1>3, <1>6, <1>10, <1>11, <1>12

LEMMA SealBatchDoes ==
    ASSUME TypeInv, NEW b \in Batch, SealBatch(b)
    PROVE  /\ TypeInv'
           /\ req[b].pc = "writing" /\ writer' = None
           /\ Becomes(b, "persisted", req[b].seen, req[b].todo, req[b].found, req[b].fresh,
                      req[b].torn)
           /\ db'.probes = db.probes /\ db'.state = db.state /\ db'.sealed = db.sealed \cup {b}
           /\ disk' = db'
           /\ UNCHANGED <<paid, attested, verified>>
<1>1. db' = [db EXCEPT !.sealed = @ \cup {b}] /\ disk' = db'
  BY DEF SealBatch, Commit
<1>2. DbType(db)
  BY DEF TypeInv
<1>3. /\ DbType(db') /\ db'.probes = db.probes /\ db'.state = db.state
      /\ db'.sealed = db.sealed \cup {b}
  BY <1>1, <1>2, SealedType
<1>4. /\ ReqType'
      /\ Becomes(b, "persisted", req[b].seen, req[b].todo, req[b].found, req[b].fresh, req[b].torn)
  BY GotoBecomes DEF SealBatch, Pc
<1>5. UNCHANGED <<clock, paid, attested, verified>> /\ req[b].pc = "writing" /\ writer' = None
  BY DEF SealBatch, At, Unlock
<1>6. TypeInv'
  BY <1>1, <1>3, <1>4, <1>5 DEF TypeInv, DbType, WorldType
<1> QED BY <1>1, <1>3, <1>4, <1>5, <1>6

LEMMA PersistRaisesDoes ==
    ASSUME TypeInv, NEW b \in Batch, PersistRaises(b), req[b].todo \subseteq Target[b]
    PROVE  /\ TypeInv'
           /\ req[b].pc = "writing" /\ writer' = None
           /\ Becomes(b, "persisted", req[b].seen, req[b].todo, req[b].found, req[b].fresh,
                      req[b].torn)
           /\ db'.state = db.state /\ db'.sealed = db.sealed
           /\ \/ db'.probes = db.probes
              \/ \E u \in req[b].todo : db'.probes = db.probes \cup {NewProbe(b, u, FALSE)}
           /\ UNCHANGED <<disk, paid, attested, verified>>
<1>1. /\ ReqType'
      /\ Becomes(b, "persisted", req[b].seen, req[b].todo, req[b].found, req[b].fresh, req[b].torn)
  BY GotoBecomes DEF PersistRaises, Pc
<1>2. /\ UNCHANGED <<clock, disk, paid, attested, verified>> /\ req[b].pc = "writing"
      /\ writer' = None
  BY DEF PersistRaises, At, Unlock
<1>3. /\ DbType(db') /\ db'.state = db.state /\ db'.sealed = db.sealed
      /\ \/ db'.probes = db.probes
         \/ \E u \in req[b].todo : db'.probes = db.probes \cup {NewProbe(b, u, FALSE)}
  <2>1. CASE UNCHANGED db
    BY <2>1 DEF TypeInv, DbType
  <2>2. ASSUME NEW u \in req[b].todo,
               db' = [db EXCEPT !.serial = @ + 1,
                                !.probes = db.probes \cup {NewProbe(b, u, FALSE)}]
        PROVE  /\ DbType(db') /\ db'.state = db.state /\ db'.sealed = db.sealed
               /\ db'.probes = db.probes \cup {NewProbe(b, u, FALSE)}
    <3>1. u \in Target[b]
      OBVIOUS
    <3> QED BY <2>2, <3>1, TornIs
  <2> QED BY <2>1, <2>2 DEF PersistRaises
<1>4. TypeInv'
  BY <1>1, <1>2, <1>3 DEF TypeInv, DbType, WorldType
<1> QED BY <1>1, <1>2, <1>3, <1>4

LEMMA UnpaidDoes ==
    ASSUME TypeInv, NEW b \in Batch, Unpaid(b)
    PROVE  /\ TypeInv'
           /\ req[b].pc = "persisted"
           /\ \E seen, todo, torn : Becomes(b, "unpaid", seen, todo, {}, {}, torn)
           /\ UNCHANGED <<db, disk, writer, paid, attested, verified>>
<1> DEFINE n == NewRequest(b)
           r == [n EXCEPT !.pc = "unpaid"]
<1>1. n \in Held /\ n.seen \in [Target[b] -> Seen] /\ n.found = {} /\ n.fresh = {}
  BY NewRequestType
<1> HIDE DEF n
<1>2. r \in Held /\ r.pc = "unpaid" /\ r.seen = n.seen /\ r.found = {} /\ r.fresh = {}
  BY <1>1 DEF Held, Pc
<1>3. Hold(b, r)
  BY DEF Unpaid, n
<1> HIDE DEF r
<1>4. ReqType' /\ Becomes(b, r.pc, r.seen, r.todo, r.found, r.fresh, r.torn)
  BY <1>1, <1>2, <1>3, HoldBecomes
<1>5. /\ req[b].pc = "persisted"
      /\ UNCHANGED <<clock, db, disk, writer, paid, attested, verified>>
  BY DEF Unpaid, At
<1>6. TypeInv'
  BY <1>4, <1>5 DEF TypeInv, DbType, WorldType
<1> QED BY <1>2, <1>4, <1>5, <1>6

LEMMA RefuseDoes ==
    ASSUME TypeInv, NEW b \in Batch, Refuse(b)
    PROVE  /\ TypeInv'
           /\ req[b].pc = "persisted"
           /\ Becomes(b, "refused", req[b].seen, req[b].todo, req[b].found, req[b].fresh, req[b].torn)
           /\ UNCHANGED <<db, disk, writer, paid, attested, verified>>
<1>1. /\ ReqType'
      /\ Becomes(b, "refused", req[b].seen, req[b].todo, req[b].found, req[b].fresh, req[b].torn)
  BY GotoBecomes DEF Refuse, Pc
<1>2. /\ req[b].pc = "persisted"
      /\ UNCHANGED <<clock, db, disk, writer, paid, attested, verified>>
  BY DEF Refuse, At
<1>3. TypeInv'
  BY <1>1, <1>2 DEF TypeInv, DbType, WorldType
<1> QED BY <1>1, <1>2, <1>3

LEMMA SettleDoes ==
    ASSUME TypeInv, NEW b \in Batch, Settle(b)
    PROVE  /\ TypeInv'
           /\ req[b].pc = "persisted" /\ paid' = paid \cup {b}
           /\ Becomes(b, "settled", req[b].seen, req[b].todo, req[b].found, req[b].fresh, req[b].torn)
           /\ UNCHANGED <<db, disk, writer, attested, verified>>
<1> DEFINE r == [req[b] EXCEPT !.pc = "settled", !.winner = None, !.risk = {}]
<1>1. /\ req[b] \in Held /\ req[b].seen \in [Target[b] -> Seen]
      /\ \A q \in req[b].found : q.ts # 0
  BY DEF TypeInv, ReqType
<1>2. r \in Held
  BY <1>1 DEF Held, Pc
<1>3. /\ r.pc = "settled" /\ r.seen = req[b].seen /\ r.todo = req[b].todo
      /\ r.found = req[b].found /\ r.fresh = req[b].fresh /\ r.torn = req[b].torn
  BY <1>1 DEF Held
<1>4. Hold(b, r)
  BY DEF Settle
<1> HIDE DEF r
<1>5. ReqType' /\ Becomes(b, r.pc, r.seen, r.todo, r.found, r.fresh, r.torn)
  BY <1>1, <1>2, <1>3, <1>4, HoldBecomes
<1>6. /\ req[b].pc = "persisted" /\ paid' = paid \cup {b}
      /\ UNCHANGED <<clock, db, disk, writer, attested, verified>>
  BY DEF Settle, At
<1>7. TypeInv'
  BY <1>5, <1>6 DEF TypeInv, DbType, WorldType
<1> QED BY <1>3, <1>5, <1>6, <1>7

\* The rows that mark_batch_settled finds.
Markable(b) == {q \in db.probes : q.batch = b /\ q.observed /\ ~q.trusted}

LEMMA BeginMarkDoes ==
    ASSUME TypeInv, NEW b \in Batch, BeginMark(b)
    PROVE  /\ TypeInv'
           /\ req[b].pc = "settled" /\ writer = None
           /\ \/ /\ Becomes(b, "done", req[b].seen, req[b].todo, req[b].found, req[b].fresh,
                            req[b].torn)
                 /\ db' = db /\ disk' = db /\ writer' = None
              \/ /\ Becomes(b, "marking", req[b].seen, {q.url : q \in Markable(b)}, Markable(b),
                            req[b].fresh, req[b].torn)
                 /\ db'.state = db.state /\ db'.sealed = db.sealed
                 /\ db'.probes = (db.probes \ Markable(b)) \cup {Promote(q) : q \in Markable(b)}
                 /\ disk' = disk /\ writer' = b
           /\ UNCHANGED <<paid, attested, verified>>
<1> DEFINE rows == Markable(b)
           new == (db.probes \ rows) \cup {Promote(q) : q \in rows}
           r == [req[b] EXCEPT !.pc = "marking", !.found = rows, !.todo = {q.url : q \in rows}]
<1>1. /\ DbType(db) /\ db.probes \in SUBSET Probe /\ (\A q \in db.probes : q.ts # 0)
      /\ req[b] \in Held /\ req[b].seen \in [Target[b] -> Seen]
  BY DEF TypeInv, ReqType, DbType, Database
<1>2. /\ req[b].pc = "settled" /\ writer = None
      /\ UNCHANGED <<clock, paid, attested, verified>>
  BY DEF BeginMark, At
<1>3. rows \subseteq db.probes
  BY DEF Markable
<1>4. CASE db' = db /\ disk' = db /\ Goto(b, "done") /\ UNCHANGED writer
  <2>1. /\ ReqType'
        /\ Becomes(b, "done", req[b].seen, req[b].todo, req[b].found, req[b].fresh, req[b].torn)
    BY <1>4, GotoBecomes DEF Pc
  <2>2. TypeInv'
    BY <1>1, <1>2, <1>4, <2>1 DEF TypeInv, DbType, WorldType
  <2> QED BY <1>2, <1>4, <2>1, <2>2
<1>5. CASE /\ Lock(b) /\ UNCHANGED disk /\ Hold(b, r)
           /\ db' = [db EXCEPT !.probes = new]
  <2>1. new \in SUBSET Probe /\ \A q \in new : q.ts # 0
    <3>1. \A q \in rows : Promote(q) \in Probe /\ Promote(q).ts # 0
      BY <1>1, <1>3, PromoteIs
    <3> HIDE DEF rows
    <3> QED BY <1>1, <3>1
  <2>2. /\ DbType(db') /\ db'.probes = new /\ db'.state = db.state /\ db'.sealed = db.sealed
    <3> HIDE DEF new
    <3> QED BY <1>1, <1>5, <2>1 DEF DbType, Database
  <2>3. rows \in SUBSET Probe /\ (\A q \in rows : q.ts # 0) /\ {q.url : q \in rows} \in SUBSET Url
    BY <1>1, <1>3 DEF Probe
  <2>4. Hold(b, r)
    BY <1>5
  <2> HIDE DEF rows
  <2>5. r \in Held
    BY <1>1, <2>3 DEF Held, Pc
  <2>6. /\ r.pc = "marking" /\ r.seen = req[b].seen /\ r.todo = {q.url : q \in rows}
        /\ r.found = rows /\ r.fresh = req[b].fresh /\ r.torn = req[b].torn
    BY <1>1 DEF Held
  <2> HIDE DEF r
  <2>7. ReqType' /\ Becomes(b, r.pc, r.seen, r.todo, r.found, r.fresh, r.torn)
    BY <1>1, <2>3, <2>4, <2>5, <2>6, HoldBecomes
  <2>8. Becomes(b, "marking", req[b].seen, {q.url : q \in rows}, rows, req[b].fresh, req[b].torn)
    BY <2>6, <2>7
  <2>9. TypeInv'
    BY <1>2, <1>5, <2>2, <2>7 DEF TypeInv, DbType, WorldType
  <2> QED BY <1>2, <1>5, <2>2, <2>8, <2>9 DEF rows, Lock
<1>6. \/ db' = db /\ disk' = db /\ Goto(b, "done") /\ UNCHANGED writer
      \/ Lock(b) /\ UNCHANGED disk /\ Hold(b, r) /\ db' = [db EXCEPT !.probes = new]
  BY DEF BeginMark, Commit, Markable
<1> QED BY <1>4, <1>5, <1>6

LEMMA ApplyRowDoes ==
    ASSUME TypeInv, NEW b \in Batch, ApplyRow(b)
    PROVE  /\ TypeInv'
           /\ req[b].pc = "marking"
           /\ \E q \in req[b].found :
                 /\ q.url \in req[b].todo
                 /\ \E fresh \in SUBSET Url :
                       /\ Becomes(b, "marking", req[b].seen, req[b].todo \ {q.url}, req[b].found,
                                  fresh, req[b].torn)
                       /\ fresh = IF Stale(db.state[q.url], q) THEN req[b].fresh
                                  ELSE req[b].fresh \cup {q.url}
                 /\ db'.state[q.url] = Applied(db.state[q.url], q)
                 /\ \A u \in Url : u # q.url => db'.state[u] = db.state[u]
           /\ db'.probes = db.probes /\ db'.sealed = db.sealed
           /\ UNCHANGED <<disk, writer, paid, attested, verified>>
<1>1. PICK q \in Unapplied(b) :
         /\ db' = [db EXCEPT !.state[q.url] = Applied(@, q)]
         /\ Hold(b, [req[b] EXCEPT !.todo = @ \ {q.url},
                        !.fresh = IF Stale(db.state[q.url], q) THEN @ ELSE @ \cup {q.url}])
  BY DEF ApplyRow
<1>2. /\ req[b] \in Held /\ req[b].seen \in [Target[b] -> Seen] /\ (\A p \in req[b].found : p.ts # 0)
      /\ DbType(db) /\ db \in Database /\ \A p \in db.probes : p.ts # 0
  BY DEF TypeInv, ReqType, DbType
<1>3. q \in req[b].found /\ q.url \in req[b].todo /\ q \in Probe /\ q.url \in Url
  BY <1>2 DEF Unapplied, Held, Probe
<1> DEFINE s == Applied(db.state[q.url], q)
           fresh == IF Stale(db.state[q.url], q) THEN req[b].fresh ELSE req[b].fresh \cup {q.url}
           todo == req[b].todo \ {q.url}
           r == [req[b] EXCEPT !.todo = todo, !.fresh = fresh]
<1>4. s \in UrlState
  <2>1. db.state[q.url] \in UrlState
    BY <1>2, <1>3 DEF Database
  <2> QED BY <1>3, <2>1, AppliedIs
<1>5. fresh \in SUBSET Url /\ todo \in SUBSET Url
  BY <1>2, <1>3 DEF Held
<1>6. Hold(b, r)
  <2>1. [req[b] EXCEPT !.todo = @ \ {q.url}].fresh = req[b].fresh
    BY <1>2 DEF Held
  <2> QED BY <1>1, <2>1
<1>7. db' = [db EXCEPT !.state = [db.state EXCEPT ![q.url] = s]]
  BY <1>1, <1>2 DEF Database
<1>8. req[b].pc = "marking" /\ UNCHANGED <<clock, disk, writer, paid, attested, verified>>
  BY DEF ApplyRow, At
<1>9. fresh = IF Stale(db.state[q.url], q) THEN req[b].fresh ELSE req[b].fresh \cup {q.url}
  OBVIOUS
<1> HIDE DEF s, fresh, todo
<1>10. /\ db' \in Database /\ db'.probes = db.probes /\ db'.sealed = db.sealed
       /\ db'.state = [db.state EXCEPT ![q.url] = s]
  BY <1>2, <1>3, <1>4, <1>7 DEF Database
<1>11. db'.state[q.url] = s /\ \A u \in Url : u # q.url => db'.state[u] = db.state[u]
  BY <1>2, <1>3, <1>10 DEF Database
<1>12. r \in Held
  BY <1>2, <1>5 DEF Held
<1>13. /\ r.pc = "marking" /\ r.seen = req[b].seen /\ r.todo = todo /\ r.found = req[b].found
       /\ r.fresh = fresh /\ r.torn = req[b].torn
  BY <1>2, <1>8 DEF Held
<1> HIDE DEF r
<1>14. ReqType' /\ Becomes(b, r.pc, r.seen, r.todo, r.found, r.fresh, r.torn)
  BY <1>2, <1>6, <1>12, <1>13, HoldBecomes
<1>15. Becomes(b, "marking", req[b].seen, req[b].todo \ {q.url}, req[b].found, fresh, req[b].torn)
  BY <1>13, <1>14 DEF todo
<1>16. TypeInv'
  <2>1. DbType(db') /\ DbType(disk')
    BY <1>2, <1>8, <1>10 DEF DbType, TypeInv
  <2> QED BY <1>8, <1>14, <2>1 DEF TypeInv, WorldType
<1>17. db'.state[q.url] = Applied(db.state[q.url], q)
  BY <1>11 DEF s
<1> QED BY <1>3, <1>5, <1>8, <1>9, <1>10, <1>11, <1>15, <1>16, <1>17

LEMMA CommitMarkDoes ==
    ASSUME TypeInv, NEW b \in Batch, CommitMark(b)
    PROVE  /\ TypeInv'
           /\ req[b].pc = "marking" /\ req[b].todo = {} /\ writer' = None
           /\ Becomes(b, "touching", req[b].seen, req[b].todo, req[b].found, req[b].fresh,
                      req[b].torn)
           /\ db' = db /\ disk' = db
           /\ UNCHANGED <<paid, attested, verified>>
<1>1. /\ ReqType'
      /\ Becomes(b, "touching", req[b].seen, req[b].todo, req[b].found, req[b].fresh, req[b].torn)
  BY GotoBecomes DEF CommitMark, Pc
<1>2. /\ req[b].pc = "marking" /\ req[b].todo = {} /\ writer' = None /\ db' = db /\ disk' = db
      /\ UNCHANGED <<clock, paid, attested, verified>>
  BY DEF CommitMark, At, Commit, Unlock
<1>3. TypeInv'
  BY <1>1, <1>2 DEF TypeInv, DbType, WorldType
<1> QED BY <1>1, <1>2, <1>3

LEMMA MarkRaisesDoes ==
    ASSUME TypeInv, NEW b \in Batch, MarkRaises(b)
    PROVE  /\ TypeInv'
           /\ req[b].pc = "marking" /\ writer' = None
           /\ Becomes(b, "done", req[b].seen, {}, req[b].found, {}, TRUE)
           /\ UNCHANGED <<db, disk, paid, attested, verified>>
<1> DEFINE r == [req[b] EXCEPT !.pc = "done", !.torn = TRUE, !.todo = {}, !.fresh = {}]
<1>1. /\ req[b] \in Held /\ req[b].seen \in [Target[b] -> Seen]
      /\ \A q \in req[b].found : q.ts # 0
  BY DEF TypeInv, ReqType
<1>2. r \in Held
  BY <1>1 DEF Held, Pc
<1>3. /\ r.pc = "done" /\ r.seen = req[b].seen /\ r.todo = {}
      /\ r.found = req[b].found /\ r.fresh = {} /\ r.torn = TRUE
  BY <1>1 DEF Held
<1>4. Hold(b, r)
  BY DEF MarkRaises
<1> HIDE DEF r
<1>5. ReqType' /\ Becomes(b, r.pc, r.seen, r.todo, r.found, r.fresh, r.torn)
  BY <1>1, <1>2, <1>3, <1>4, HoldBecomes
<1>6. /\ req[b].pc = "marking" /\ writer' = None
      /\ UNCHANGED <<clock, db, disk, paid, attested, verified>>
  BY DEF MarkRaises, At, Unlock
<1>7. TypeInv'
  BY <1>5, <1>6 DEF TypeInv, DbType, WorldType
<1> QED BY <1>3, <1>5, <1>6, <1>7

LEMMA TouchDoes ==
    ASSUME TypeInv, NEW b \in Batch, Touch(b)
    PROVE  /\ TypeInv'
           /\ req[b].pc = "touching"
           /\ Becomes(b, "done", req[b].seen, req[b].todo, req[b].found, {}, req[b].torn)
           /\ \A u \in Url : u \notin req[b].fresh => verified'[u] = verified[u]
           /\ UNCHANGED <<db, disk, writer, paid, attested>>
<1> DEFINE r == [req[b] EXCEPT !.pc = "done", !.fresh = {}]
<1>1. /\ req[b] \in Held /\ req[b].seen \in [Target[b] -> Seen]
      /\ \A q \in req[b].found : q.ts # 0
  BY DEF TypeInv, ReqType
<1>2. r \in Held
  BY <1>1 DEF Held, Pc
<1>3. /\ r.pc = "done" /\ r.seen = req[b].seen /\ r.todo = req[b].todo
      /\ r.found = req[b].found /\ r.fresh = {} /\ r.torn = req[b].torn
  BY <1>1 DEF Held
<1>4. Hold(b, r)
  BY DEF Touch
<1> HIDE DEF r
<1>5. ReqType' /\ Becomes(b, r.pc, r.seen, r.todo, r.found, r.fresh, r.torn)
  BY <1>1, <1>2, <1>3, <1>4, HoldBecomes
<1>6. /\ req[b].pc = "touching" /\ UNCHANGED <<clock, db, disk, writer, paid, attested>>
      /\ verified' = [u \in Url |-> IF u \in req[b].fresh THEN clock ELSE verified[u]]
  BY DEF Touch, At
<1>7. TypeInv'
  BY <1>5, <1>6 DEF TypeInv, DbType, WorldType
<1> QED BY <1>3, <1>5, <1>6, <1>7

LEMMA AttestDoes ==
    ASSUME TypeInv, NEW b \in Batch, Attest(b)
    PROVE  /\ TypeInv'
           /\ writer = None /\ ContentOf(db.probes, b) # {}
           /\ attested'[b] = IF attested[b] = {} THEN ContentOf(db.probes, b) ELSE attested[b]
           /\ \A c \in Batch : c # b => attested'[c] = attested[c]
           /\ db'.probes = db.probes /\ db'.state = db.state /\ db'.sealed = db.sealed \cup {b}
           /\ disk' = db'
           /\ UNCHANGED <<writer, req, paid, verified>>
<1>1. Content(b) = ContentOf(db.probes, b)
  BY DEF Content, ContentOf
<1>2. ContentOf(db.probes, b) \in SUBSET [url : Url, pay : Seen, ts : Time]
  <2>1. db.probes \in SUBSET Probe
    BY DEF TypeInv, DbType, Database
  <2> QED BY <2>1 DEF ContentOf, Probe
<1>3. /\ writer = None /\ ContentOf(db.probes, b) # {}
      /\ attested' = [attested EXCEPT ![b] = IF attested[b] = {} THEN ContentOf(db.probes, b)
                                             ELSE attested[b]]
      /\ db' = [db EXCEPT !.sealed = @ \cup {b}] /\ disk' = db'
      /\ UNCHANGED <<clock, writer, req, paid, verified>>
  BY <1>1 DEF Attest, Commit
<1>4. DbType(db) /\ attested \in [Batch -> SUBSET [url : Url, pay : Seen, ts : Time]]
  BY DEF TypeInv, WorldType
<1>5. /\ DbType(db') /\ db'.probes = db.probes /\ db'.state = db.state
      /\ db'.sealed = db.sealed \cup {b}
  BY <1>3, <1>4, SealedType
<1>6. /\ attested' \in [Batch -> SUBSET [url : Url, pay : Seen, ts : Time]]
      /\ attested'[b] = IF attested[b] = {} THEN ContentOf(db.probes, b) ELSE attested[b]
      /\ \A c \in Batch : c # b => attested'[c] = attested[c]
  BY <1>2, <1>3, <1>4
<1>7. TypeInv'
  BY <1>3, <1>5, <1>6 DEF TypeInv, DbType, ReqType, WorldType
<1> QED BY <1>3, <1>5, <1>6, <1>7

LEMMA TickDoes ==
    ASSUME TypeInv, Tick
    PROVE  TypeInv' /\ UNCHANGED <<disk, db, writer, req, paid, attested, verified>>
<1>1. clock' \in Time \ {0}
  BY BoundAssumption DEF Tick, TypeInv, WorldType, Time
<1>2. UNCHANGED <<disk, db, writer, req, paid, attested, verified>>
  BY DEF Tick
<1> QED BY <1>1, <1>2 DEF TypeInv, DbType, ReqType, WorldType

LEMMA CrashDoes ==
    ASSUME TypeInv, Crash
    PROVE  /\ TypeInv'
           /\ db' = disk /\ writer' = None
           /\ \A b \in Batch :
                 \/ /\ req[b].pc \in Ended \cup {"idle"} /\ req'[b] = req[b]
                 \/ /\ req[b].pc \notin Ended \cup {"idle"}
                    /\ req'[b].pc = "lost" /\ req'[b].found = req[b].found /\ req'[b].fresh = {}
                    /\ b \in paid => req'[b].seen = req[b].seen
           /\ UNCHANGED <<disk, paid, attested, verified>>
<1> DEFINE lost(b) == [NewRequest(b) EXCEPT !.pc = "lost", !.found = req[b].found,
                          !.seen = IF b \in paid THEN req[b].seen ELSE @]
<1>1. /\ db' = disk /\ writer' = None /\ UNCHANGED <<clock, disk, paid, attested, verified>>
      /\ req' = [b \in Batch |-> IF req[b].pc \in Ended \cup {"idle"} THEN req[b] ELSE lost(b)]
  BY DEF Crash
<1>2. ASSUME NEW b \in Batch
      PROVE  /\ lost(b) \in Held /\ lost(b).seen \in [Target[b] -> Seen]
             /\ lost(b).pc = "lost" /\ lost(b).found = req[b].found /\ lost(b).fresh = {}
             /\ b \in paid => lost(b).seen = req[b].seen
  <2> DEFINE n == NewRequest(b)
             seen == IF b \in paid THEN req[b].seen ELSE n.seen
             r == [n EXCEPT !.pc = "lost", !.found = req[b].found, !.seen = seen]
  <2>1. n \in Held /\ n.seen \in [Target[b] -> Seen] /\ n.fresh = {}
    BY NewRequestType
  <2>2. req[b] \in Held /\ req[b].seen \in [Target[b] -> Seen]
    BY DEF TypeInv, ReqType
  <2>3. seen \in [Target[b] -> Seen] /\ (b \in paid => seen = req[b].seen)
    BY <2>1, <2>2
  <2>4. seen \in UNION {[T -> Seen] : T \in SUBSET Url}
    BY <2>3, TargetIn
  <2>5. lost(b) = r
    <3>1. [n EXCEPT !.pc = "lost", !.found = req[b].found].seen = n.seen
      BY <2>1 DEF Held
    <3> QED BY <3>1
  <2> HIDE DEF n, seen
  <2>6. r \in Held /\ r.pc = "lost" /\ r.found = req[b].found /\ r.seen = seen /\ r.fresh = {}
    BY <2>1, <2>2, <2>4 DEF Held, Pc
  <2> HIDE DEF lost, r
  <2> QED BY <2>3, <2>5, <2>6
<1> HIDE DEF lost
<1>3. \A b \in Batch :
         /\ req[b] \in Held /\ req[b].seen \in [Target[b] -> Seen]
         /\ \A q \in req[b].found : q.ts # 0
  BY DEF TypeInv, ReqType
<1>4. ReqType'
  BY <1>1, <1>2, <1>3 DEF ReqType
<1>5. TypeInv'
  BY <1>1, <1>4 DEF TypeInv, DbType, WorldType
<1> QED BY <1>1, <1>2, <1>5

-----------------------------------------------------------------------------
(* What no step takes back *)

\* From payments P and requests R to Q and S: who paid has paid, for what it has
\* seen; what was found stays found; what is past stays past.
Steady(P, R, Q, S) ==
    /\ P \subseteq Q
    /\ \A c \in P : S[c].seen = R[c].seen
    /\ \A c \in P : \A u : Past(c, u, R) => Past(c, u, S)
    /\ \A c \in Batch : R[c].found \subseteq S[c].found

LEMMA TracedSteady ==
    ASSUME NEW P, NEW R, NEW Q, NEW S, Steady(P, R, Q, S), NEW s, NEW u, Traced(s, u, P, R)
    PROVE  Traced(s, u, Q, S)
<1>1. \A c, pay : Sees(c, u, pay, P, R) => c \in Q /\ Sees(c, u, pay, Q, S)
  BY DEF Sees, Steady
<1>2. \A c \in P : Past(c, u, R) => Past(c, u, S)
  BY DEF Steady
<1>3. P \subseteq Q
  BY DEF Steady
<1> QED BY <1>1, <1>2, <1>3 DEF Traced

LEMMA AheadSteady ==
    ASSUME NEW P, NEW R, NEW Q, NEW S, Steady(P, R, Q, S), NEW s, NEW old, NEW u,
           Ahead(s, old, u, P, R)
    PROVE  Ahead(s, old, u, Q, S)
<1>1. \A c, pay : Sees(c, u, pay, P, R) => c \in Q /\ Sees(c, u, pay, Q, S)
  BY DEF Sees, Steady
<1>2. \A pay : TwoSaw(u, pay, P, R) => TwoSaw(u, pay, Q, S)
  BY <1>1 DEF TwoSaw, Sees
<1> QED BY <1>2 DEF Ahead

LEMMA NewerSteady ==
    ASSUME NEW R, NEW S, \A c \in Batch : R[c].found \subseteq S[c].found, NEW b, NEW q, NEW s,
           Newer(b, q, s, R)
    PROVE  Newer(b, q, s, S)
<1>1. Alone(b, q, S) => Alone(b, q, R)
  BY DEF Alone
<1> QED BY <1>1 DEF Newer

\* A request that keeps what it has found, and what it has seen if it is paid for.
LEMMA BecomesSteady ==
    ASSUME TypeInv, NEW b \in Batch, NEW pc, NEW seen, NEW todo, NEW found, NEW fresh, NEW torn,
           Becomes(b, pc, seen, todo, found, fresh, torn), paid \subseteq paid',
           b \in paid => seen = req[b].seen,
           b \in paid /\ req[b].pc = "marking" =>
               pc \in {"touching", "done", "lost"} \/ (pc = "marking" /\ todo \subseteq req[b].todo),
           b \in paid /\ req[b].pc \in {"touching", "done", "lost"} =>
               pc \in {"touching", "done", "lost"},
           req[b].found \subseteq found
    PROVE  Steady(paid, req, paid', req')
<1>1. \A c \in paid : c \in Batch
  BY DEF TypeInv, WorldType
<1>2. \A c \in paid : req'[c].seen = req[c].seen
  BY <1>1 DEF Becomes
<1>3. \A c \in paid : \A u : Past(c, u, req) => Past(c, u, req')
  BY <1>1 DEF Becomes, Past
<1>4. \A c \in Batch : req[c].found \subseteq req'[c].found
  BY DEF Becomes
<1> QED BY <1>2, <1>3, <1>4 DEF Steady

LEMMA SameSteady == ASSUME UNCHANGED <<paid, req>> PROVE Steady(paid, req, paid', req')
BY DEF Steady

\* The states of the resources when nothing is applied.
LEMMA StateMoves ==
    ASSUME TypeInv, StateInv, Steady(paid, req, paid', req'),
           \/ db'.state = db.state /\ disk'.state = disk.state
           \/ db'.state = db.state /\ disk'.state = db.state
           \/ db'.state = disk.state /\ disk'.state = disk.state
    PROVE  StateInv'
<1> SUFFICES ASSUME NEW u \in Url
             PROVE  /\ Traced(disk'.state[u], u, paid', req') /\ Traced(db'.state[u], u, paid', req')
                    /\ Ahead(db'.state[u], disk'.state[u], u, paid', req')
  BY DEF StateInv
<1>1. /\ Traced(disk.state[u], u, paid', req') /\ Traced(db.state[u], u, paid', req')
      /\ Ahead(db.state[u], disk.state[u], u, paid', req')
  BY TracedSteady, AheadSteady DEF StateInv
<1>2. db.state[u].checked \in Nat /\ disk.state[u].checked \in Nat
  BY DEF TypeInv, DbType, Database, UrlState, Time
<1>3. /\ Ahead(db.state[u], db.state[u], u, paid', req')
      /\ Ahead(disk.state[u], disk.state[u], u, paid', req')
  BY <1>2 DEF Ahead
<1> QED BY <1>1, <1>3

\* The rows, when each comes from a row or is one of a request under way.
LEMMA RowsMove ==
    ASSUME TypeInv, RowsInv, paid \subseteq paid',
           \A c \in Batch : req[c].pc # "idle" => req'[c].pc # "idle",
           \A p \in db'.probes \cup disk'.probes :
              \/ \E q \in db.probes \cup disk.probes :
                    p.batch = q.batch /\ (p.trusted => q.trusted)
              \/ req'[p.batch].pc # "idle" /\ (p.trusted => p.batch \in paid')
    PROVE  RowsInv'
<1>1. ASSUME NEW p \in db'.probes \cup disk'.probes
      PROVE  /\ p.trusted => p.batch \in paid' \cup {None}
             /\ p.batch # None => req'[p.batch].pc # "idle"
  <2>1. CASE req'[p.batch].pc # "idle" /\ (p.trusted => p.batch \in paid')
    BY <2>1
  <2>2. ASSUME NEW q \in db.probes \cup disk.probes, p.batch = q.batch, p.trusted => q.trusted
        PROVE  /\ p.trusted => p.batch \in paid' \cup {None}
               /\ p.batch # None => req'[p.batch].pc # "idle"
    <3>1. q.batch \in Batch \cup {None}
      BY DEF TypeInv, DbType, Database, Probe
    <3>2. /\ q.trusted => q.batch \in paid \cup {None}
          /\ q.batch # None => req[q.batch].pc # "idle"
      BY DEF RowsInv
    <3> QED BY <2>2, <3>1, <3>2
  <2> QED BY <2>1, <2>2
<1> QED BY <1>1 DEF RowsInv

\* The rows of requests under way, when these are the same.
LEMMA OwnMoves ==
    ASSUME TypeInv, OwnInv, NEW b \in Batch, NEW pc, NEW seen, NEW todo, NEW found, NEW fresh,
           NEW torn, Becomes(b, pc, seen, todo, found, fresh, torn), db'.probes = db.probes,
           pc \in Active => /\ req[b].pc \in Active /\ seen = req[b].seen
                            /\ pc = "writing" => req[b].pc = "writing" /\ todo \subseteq req[b].todo
    PROVE  OwnInv'
<1> SUFFICES ASSUME NEW q \in db.probes, q.batch # None, req'[q.batch].pc \in Active
             PROVE  Own(q, db.probes, req'[q.batch])
  BY DEF OwnInv
<1>1. q.batch \in Batch
  BY DEF TypeInv, DbType, Database, Probe
<1>2. req[q.batch].pc \in Active
  BY <1>1 DEF Becomes
<1>3. Own(q, db.probes, req[q.batch])
  BY <1>2 DEF OwnInv
<1>4. CASE q.batch # b
  BY <1>1, <1>3, <1>4 DEF Becomes
<1>5. CASE q.batch = b
  BY <1>3, <1>5 DEF Becomes, Own
<1> QED BY <1>4, <1>5

LEMMA FoundMoves ==
    ASSUME TypeInv, PcInv, FoundInv, NEW b \in Batch, NEW pc, NEW seen, NEW todo, NEW fresh, NEW torn,
           Becomes(b, pc, seen, todo, req[b].found, fresh, torn), b \in paid => seen = req[b].seen
    PROVE  FoundInv'
<1> SUFFICES ASSUME NEW c \in Batch, NEW q \in req'[c].found
             PROVE  /\ q.url \in Target[c] /\ q.pay = req'[c].seen[q.url]
                    /\ \A p \in req'[c].found : p.url = q.url => p = q
  BY DEF FoundInv
<1>1. req'[c].found = req[c].found
  BY DEF Becomes
<1>2. c \in paid
  BY <1>1 DEF PcInv
<1>3. req'[c].seen = req[c].seen
  BY <1>2 DEF Becomes
<1> QED BY <1>1, <1>3 DEF FoundInv

LEMMA SealMoves ==
    ASSUME TypeInv, SealInv, UNCHANGED attested,
           db.sealed \subseteq db'.sealed \/ db'.sealed = disk.sealed,
           disk'.sealed = disk.sealed \/ disk'.sealed = db'.sealed,
           \A b \in Batch : attested[b] # {} =>
              /\ ContentOf(db'.probes, b) \subseteq ContentOf(db.probes, b) \cup ContentOf(disk.probes, b)
              /\ ContentOf(disk'.probes, b) \subseteq ContentOf(db.probes, b) \cup ContentOf(disk.probes, b)
    PROVE  SealInv'
<1> SUFFICES ASSUME NEW b \in Batch, attested[b] # {}
             PROVE  /\ b \in disk'.sealed /\ ContentOf(disk'.probes, b) \subseteq attested[b]
                    /\ b \in db'.sealed /\ ContentOf(db'.probes, b) \subseteq attested[b]
  BY DEF SealInv
<1>1. /\ b \in disk.sealed /\ ContentOf(disk.probes, b) \subseteq attested[b]
      /\ b \in db.sealed /\ ContentOf(db.probes, b) \subseteq attested[b]
  BY DEF SealInv
<1> QED BY <1>1

\* Where the request is, what it has found and the states decide the last two parts.
LEMMA NewestMoves ==
    ASSUME TypeInv, NewestInv, NEW b \in Batch, NEW pc, NEW seen, NEW todo, NEW fresh, NEW torn,
           Becomes(b, pc, seen, todo, req[b].found, fresh, torn),
           db'.state = db.state, disk'.state = disk.state \/ disk'.state = db.state,
           req[b].found # {} =>
              /\ pc = "marking" => req[b].pc = "marking" /\ todo = req[b].todo
              /\ pc \in {"touching", "done"} /\ ~torn =>
                    \/ req[b].pc \in {"touching", "done"} /\ ~req[b].torn
                    \/ req[b].pc = "marking" /\ req[b].todo = {} /\ disk'.state = db.state
    PROVE  NewestInv'
<1> SUFFICES ASSUME NEW c \in Batch, NEW q \in req'[c].found
             PROVE  /\ req'[c].pc = "marking" /\ q.url \notin req'[c].todo =>
                          Newer(c, q, db'.state[q.url], req')
                    /\ req'[c].pc \in {"touching", "done"} /\ ~req'[c].torn =>
                          Newer(c, q, db'.state[q.url], req') /\ Newer(c, q, disk'.state[q.url], req')
  BY DEF NewestInv
<1>1. \A d \in Batch : req'[d].found = req[d].found
  BY DEF Becomes
<1>2. \A s : Newer(c, q, s, req) => Newer(c, q, s, req')
  BY <1>1, NewerSteady
<1>3. q \in req[c].found
  BY <1>1
<1>4. CASE c # b
  <2>1. req'[c] = req[c]
    BY <1>4 DEF Becomes
  <2> QED BY <1>2, <1>3, <2>1 DEF NewestInv
<1>5. CASE c = b
  <2>1. req'[c].pc = pc /\ req'[c].todo = todo /\ req'[c].torn = torn
    BY <1>5 DEF Becomes
  <2> QED BY <1>2, <1>3, <1>5, <2>1 DEF NewestInv
<1> QED BY <1>4, <1>5

LEMMA FreshMoves ==
    ASSUME TypeInv, FreshInv, StateInv, NEW b \in Batch, NEW pc, NEW seen, NEW todo, NEW found,
           NEW torn,
           \/ Becomes(b, pc, seen, todo, found, req[b].fresh, torn)
           \/ Becomes(b, pc, seen, todo, found, {}, torn),
           db'.state = db.state, disk'.state = disk.state \/ disk'.state = db.state,
           UNCHANGED verified,
           req[b].fresh # {} =>
              /\ pc = "marking" => req[b].pc = "marking"
              /\ pc = "touching" => \/ req[b].pc = "touching"
                                    \/ req[b].pc = "marking" /\ disk'.state = db.state
    PROVE  FreshInv'
<1>1. \A u \in Url : disk.state[u].checked # 0 => disk'.state[u].checked # 0
  <2>1. \A u \in Url : /\ disk.state[u].checked \in Nat /\ db.state[u].checked \in Nat
                       /\ disk.state[u].checked <= db.state[u].checked
    BY DEF StateInv, Ahead, TypeInv, DbType, Database, UrlState, Time
  <2> QED BY <2>1
<1>2. \A u \in Url : verified'[u] # 0 => disk'.state[u].checked # 0
  BY <1>1 DEF FreshInv
<1>3. ASSUME NEW c \in Batch, NEW u \in req'[c].fresh
      PROVE  /\ req'[c].pc = "marking" => db'.state[u].checked # 0
             /\ req'[c].pc = "touching" => disk'.state[u].checked # 0
  <2>1. u \in req[c].fresh /\ u \in Url
    BY <1>3 DEF Becomes, TypeInv, ReqType, Held
  <2>2. CASE c # b
    <3>1. req'[c] = req[c]
      BY <2>2 DEF Becomes
    <3> QED BY <1>1, <2>1, <3>1 DEF FreshInv
  <2>3. CASE c = b
    <3>1. req'[c].pc = pc
      BY <2>3 DEF Becomes
    <3> QED BY <1>1, <2>1, <2>3, <3>1 DEF FreshInv
  <2> QED BY <2>2, <2>3
<1> QED BY <1>2, <1>3 DEF FreshInv

\* The places of the requests, when only b moves and the lock was free or b's.
LEMMA PcMoves ==
    ASSUME TypeInv, PcInv, NEW b \in Batch, NEW pc, NEW seen, NEW todo, NEW found, NEW fresh,
           NEW torn, Becomes(b, pc, seen, todo, found, fresh, torn), UNCHANGED attested,
           writer' = writer \/ writer \in {None, b}, paid' = paid \/ paid' = paid \cup {b},
           pc \in {"writing", "marking"} => writer' = b,
           pc = "writing" => todo \subseteq Target[b],
           b \in paid' => pc \in Late \cup {"settled"},
           pc \in {"settled", "marking", "touching", "done"} => b \in paid',
           found # {} => b \in paid' /\ pc \in Late,
           attested[b] # {} => pc \notin {"idle", "writing"},
           fresh # {} => pc \in {"marking", "touching"}
    PROVE  PcInv'
<1> DEFINE Local(c) ==
        /\ req'[c].pc \in {"writing", "marking"} => writer' = c
        /\ req'[c].pc = "writing" => req'[c].todo \subseteq Target[c]
        /\ c \in paid' => req'[c].pc \in Late \cup {"settled"}
        /\ req'[c].pc \in {"settled", "marking", "touching", "done"} => c \in paid'
        /\ req'[c].found # {} => c \in paid' /\ req'[c].pc \in Late
        /\ attested'[c] # {} => req'[c].pc \notin {"idle", "writing"}
        /\ req'[c].fresh # {} => req'[c].pc \in {"marking", "touching"}
<1>1. Local(b)
  BY DEF Becomes
<1>2. ASSUME NEW c \in Batch, c # b PROVE Local(c)
  <2>1. req'[c] = req[c] /\ attested'[c] = attested[c] /\ (c \in paid' <=> c \in paid)
    BY <1>2 DEF Becomes
  <2>2. writer = c => writer' = c
    BY <1>2, NoneAssumption
  <2> QED BY <2>1, <2>2 DEF PcInv
<1>3. \A c \in Batch : Local(c)
  BY <1>1, <1>2
<1> QED BY <1>3 DEF PcInv

-----------------------------------------------------------------------------
(* Each action keeps the invariant: the request up to its payment *)

LEMMA RouteNeedKeeps ==
    ASSUME TypeInv, HistoryInv, NEW b \in Batch, RouteNeed(b)
    PROVE  HistoryInv'
<1>1. PICK seen \in [Target[b] -> Seen] :
         Becomes(b, "writing", seen, Target[b], req[b].found, req[b].fresh, req[b].torn)
  BY RouteNeedDoes
<1>2. /\ req[b].pc = "idle" /\ writer = None /\ writer' = b
      /\ UNCHANGED <<db, disk, paid, attested, verified>>
  BY RouteNeedDoes
<1>3. b \notin paid /\ req[b].found = {} /\ req[b].fresh = {} /\ attested[b] = {}
  BY <1>2 DEF HistoryInv, PcInv, Late
<1>4. PcInv'
  BY <1>1, <1>2, <1>3, PcMoves DEF HistoryInv
<1>5. RowsInv'
  <2>1. \A c \in Batch : req[c].pc # "idle" => req'[c].pc # "idle"
    BY <1>1 DEF Becomes
  <2> QED BY <1>2, <2>1, RowsMove DEF HistoryInv
<1>6. OwnInv'
  <2> SUFFICES ASSUME NEW q \in db.probes, q.batch # None, req'[q.batch].pc \in Active
               PROVE  Own(q, db.probes, req'[q.batch])
    BY <1>2 DEF OwnInv
  <2>1. q.batch \in Batch /\ q.batch # b
    BY <1>2 DEF TypeInv, DbType, Database, Probe, HistoryInv, RowsInv
  <2>2. req'[q.batch] = req[q.batch]
    BY <1>1, <2>1 DEF Becomes
  <2> QED BY <2>2 DEF HistoryInv, OwnInv
<1>7. FoundInv'
  BY <1>1, <1>3, FoundMoves DEF HistoryInv
<1>8. SealInv'
  BY <1>2, SealMoves DEF HistoryInv
<1>9. StateInv'
  <2>1. Steady(paid, req, paid', req')
    BY <1>1, <1>2, <1>3, BecomesSteady
  <2> QED BY <1>2, <2>1, StateMoves DEF HistoryInv
<1>10. FreshInv'
  BY <1>1, <1>2, FreshMoves DEF HistoryInv
<1>11. NewestInv'
  BY <1>1, <1>2, NewestMoves DEF HistoryInv
<1> QED BY <1>4, <1>5, <1>6, <1>7, <1>8, <1>9, <1>10, <1>11 DEF HistoryInv

LEMMA SealBatchKeeps ==
    ASSUME TypeInv, HistoryInv, NEW b \in Batch, SealBatch(b)
    PROVE  HistoryInv'
<1>1. Becomes(b, "persisted", req[b].seen, req[b].todo, req[b].found, req[b].fresh, req[b].torn)
  BY SealBatchDoes
<1>2. /\ req[b].pc = "writing" /\ writer' = None
      /\ db'.probes = db.probes /\ db'.state = db.state /\ db'.sealed = db.sealed \cup {b}
      /\ disk' = db' /\ UNCHANGED <<paid, attested, verified>>
  BY SealBatchDoes
<1>3. b \notin paid /\ req[b].found = {} /\ req[b].fresh = {} /\ writer = b
  BY <1>2 DEF HistoryInv, PcInv, Late
<1>4. PcInv'
  BY <1>1, <1>2, <1>3, PcMoves DEF HistoryInv
<1>5. RowsInv'
  <2>1. \A c \in Batch : req[c].pc # "idle" => req'[c].pc # "idle"
    BY <1>1 DEF Becomes
  <2> QED BY <1>2, <2>1, RowsMove DEF HistoryInv
<1>6. OwnInv'
  BY <1>1, <1>2, OwnMoves DEF HistoryInv, Active
<1>7. FoundInv'
  BY <1>1, <1>3, FoundMoves DEF HistoryInv
<1>8. SealInv'
  BY <1>2, SealMoves DEF HistoryInv
<1>9. StateInv'
  <2>1. Steady(paid, req, paid', req')
    BY <1>1, <1>2, <1>3, BecomesSteady
  <2> QED BY <1>2, <2>1, StateMoves DEF HistoryInv
<1>10. FreshInv'
  BY <1>1, <1>2, FreshMoves DEF HistoryInv
<1>11. NewestInv'
  BY <1>1, <1>2, NewestMoves DEF HistoryInv
<1> QED BY <1>4, <1>5, <1>6, <1>7, <1>8, <1>9, <1>10, <1>11 DEF HistoryInv

LEMMA UnpaidKeeps ==
    ASSUME TypeInv, HistoryInv, NEW b \in Batch, Unpaid(b)
    PROVE  HistoryInv'
<1>1. PICK seen, todo, torn : Becomes(b, "unpaid", seen, todo, {}, {}, torn)
  BY UnpaidDoes
<1>2. req[b].pc = "persisted" /\ UNCHANGED <<db, disk, writer, paid, attested, verified>>
  BY UnpaidDoes
<1>3. b \notin paid /\ req[b].found = {} /\ req[b].fresh = {}
  BY <1>2 DEF HistoryInv, PcInv, Late
<1>4. PcInv'
  BY <1>1, <1>2, <1>3, PcMoves DEF HistoryInv
<1>5. RowsInv'
  <2>1. \A c \in Batch : req[c].pc # "idle" => req'[c].pc # "idle"
    BY <1>1 DEF Becomes
  <2> QED BY <1>2, <2>1, RowsMove DEF HistoryInv
<1>6. OwnInv'
  BY <1>1, <1>2, OwnMoves DEF HistoryInv, Active
<1>7. FoundInv'
  BY <1>1, <1>3, FoundMoves DEF HistoryInv
<1>8. SealInv'
  BY <1>2, SealMoves DEF HistoryInv
<1>9. StateInv'
  <2>1. Steady(paid, req, paid', req')
    BY <1>1, <1>2, <1>3, BecomesSteady
  <2> QED BY <1>2, <2>1, StateMoves DEF HistoryInv
<1>10. FreshInv'
  BY <1>1, <1>2, FreshMoves DEF HistoryInv
<1>11. NewestInv'
  BY <1>1, <1>2, <1>3, NewestMoves DEF HistoryInv
<1> QED BY <1>4, <1>5, <1>6, <1>7, <1>8, <1>9, <1>10, <1>11 DEF HistoryInv

LEMMA RefuseKeeps ==
    ASSUME TypeInv, HistoryInv, NEW b \in Batch, Refuse(b)
    PROVE  HistoryInv'
<1>1. Becomes(b, "refused", req[b].seen, req[b].todo, req[b].found, req[b].fresh, req[b].torn)
  BY RefuseDoes
<1>2. req[b].pc = "persisted" /\ UNCHANGED <<db, disk, writer, paid, attested, verified>>
  BY RefuseDoes
<1>3. b \notin paid /\ req[b].found = {} /\ req[b].fresh = {}
  BY <1>2 DEF HistoryInv, PcInv, Late
<1>4. PcInv'
  BY <1>1, <1>2, <1>3, PcMoves DEF HistoryInv
<1>5. RowsInv'
  <2>1. \A c \in Batch : req[c].pc # "idle" => req'[c].pc # "idle"
    BY <1>1 DEF Becomes
  <2> QED BY <1>2, <2>1, RowsMove DEF HistoryInv
<1>6. OwnInv'
  BY <1>1, <1>2, OwnMoves DEF HistoryInv, Active
<1>7. FoundInv'
  BY <1>1, <1>3, FoundMoves DEF HistoryInv
<1>8. SealInv'
  BY <1>2, SealMoves DEF HistoryInv
<1>9. StateInv'
  <2>1. Steady(paid, req, paid', req')
    BY <1>1, <1>2, <1>3, BecomesSteady
  <2> QED BY <1>2, <2>1, StateMoves DEF HistoryInv
<1>10. FreshInv'
  BY <1>1, <1>2, FreshMoves DEF HistoryInv
<1>11. NewestInv'
  BY <1>1, <1>2, <1>3, NewestMoves DEF HistoryInv
<1> QED BY <1>4, <1>5, <1>6, <1>7, <1>8, <1>9, <1>10, <1>11 DEF HistoryInv

LEMMA SettleKeeps ==
    ASSUME TypeInv, HistoryInv, NEW b \in Batch, Settle(b)
    PROVE  HistoryInv'
<1>1. Becomes(b, "settled", req[b].seen, req[b].todo, req[b].found, req[b].fresh, req[b].torn)
  BY SettleDoes
<1>2. /\ req[b].pc = "persisted" /\ paid' = paid \cup {b}
      /\ UNCHANGED <<db, disk, writer, attested, verified>>
  BY SettleDoes
<1>3. b \notin paid /\ req[b].found = {} /\ req[b].fresh = {}
  BY <1>2 DEF HistoryInv, PcInv, Late
<1>4. PcInv'
  BY <1>1, <1>2, <1>3, PcMoves DEF HistoryInv
<1>5. RowsInv'
  <2>1. \A c \in Batch : req[c].pc # "idle" => req'[c].pc # "idle"
    BY <1>1 DEF Becomes
  <2> QED BY <1>2, <2>1, RowsMove DEF HistoryInv
<1>6. OwnInv'
  BY <1>1, <1>2, OwnMoves DEF HistoryInv, Active
<1>7. FoundInv'
  BY <1>1, <1>3, FoundMoves DEF HistoryInv
<1>8. SealInv'
  BY <1>2, SealMoves DEF HistoryInv
<1>9. StateInv'
  <2>1. Steady(paid, req, paid', req')
    BY <1>1, <1>2, <1>3, BecomesSteady
  <2> QED BY <1>2, <2>1, StateMoves DEF HistoryInv
<1>10. FreshInv'
  BY <1>1, <1>2, FreshMoves DEF HistoryInv
<1>11. NewestInv'
  BY <1>1, <1>2, <1>3, NewestMoves DEF HistoryInv
<1> QED BY <1>4, <1>5, <1>6, <1>7, <1>8, <1>9, <1>10, <1>11 DEF HistoryInv

-----------------------------------------------------------------------------
(* Each action keeps the invariant: the promotion *)

LEMMA CommitMarkKeeps ==
    ASSUME TypeInv, HistoryInv, NEW b \in Batch, CommitMark(b)
    PROVE  HistoryInv'
<1>1. Becomes(b, "touching", req[b].seen, req[b].todo, req[b].found, req[b].fresh, req[b].torn)
  BY CommitMarkDoes
<1>2. /\ req[b].pc = "marking" /\ req[b].todo = {} /\ writer' = None
      /\ db' = db /\ disk' = db /\ UNCHANGED <<paid, attested, verified>>
  BY CommitMarkDoes
<1>3. b \in paid /\ writer = b
  BY <1>2 DEF HistoryInv, PcInv
<1>4. PcInv'
  BY <1>1, <1>2, <1>3, PcMoves DEF HistoryInv, Late
<1>5. RowsInv'
  <2>1. \A c \in Batch : req[c].pc # "idle" => req'[c].pc # "idle"
    BY <1>1 DEF Becomes
  <2> QED BY <1>2, <2>1, RowsMove DEF HistoryInv
<1>6. OwnInv'
  BY <1>1, <1>2, OwnMoves DEF HistoryInv, Active
<1>7. FoundInv'
  BY <1>1, FoundMoves DEF HistoryInv
<1>8. SealInv'
  BY <1>2, SealMoves DEF HistoryInv
<1>9. StateInv'
  <2>1. Steady(paid, req, paid', req')
    BY <1>1, <1>2, BecomesSteady
  <2> QED BY <1>2, <2>1, StateMoves DEF HistoryInv
<1>10. FreshInv'
  BY <1>1, <1>2, FreshMoves DEF HistoryInv
<1>11. NewestInv'
  BY <1>1, <1>2, NewestMoves DEF HistoryInv
<1> QED BY <1>4, <1>5, <1>6, <1>7, <1>8, <1>9, <1>10, <1>11 DEF HistoryInv

LEMMA MarkRaisesKeeps ==
    ASSUME TypeInv, HistoryInv, NEW b \in Batch, MarkRaises(b)
    PROVE  HistoryInv'
<1>1. Becomes(b, "done", req[b].seen, {}, req[b].found, {}, TRUE)
  BY MarkRaisesDoes
<1>2. /\ req[b].pc = "marking" /\ writer' = None
      /\ UNCHANGED <<db, disk, paid, attested, verified>>
  BY MarkRaisesDoes
<1>3. b \in paid /\ writer = b
  BY <1>2 DEF HistoryInv, PcInv
<1>4. PcInv'
  BY <1>1, <1>2, <1>3, PcMoves DEF HistoryInv, Late
<1>5. RowsInv'
  <2>1. \A c \in Batch : req[c].pc # "idle" => req'[c].pc # "idle"
    BY <1>1 DEF Becomes
  <2> QED BY <1>2, <2>1, RowsMove DEF HistoryInv
<1>6. OwnInv'
  BY <1>1, <1>2, OwnMoves DEF HistoryInv, Active
<1>7. FoundInv'
  BY <1>1, FoundMoves DEF HistoryInv
<1>8. SealInv'
  BY <1>2, SealMoves DEF HistoryInv
<1>9. StateInv'
  <2>1. Steady(paid, req, paid', req')
    BY <1>1, <1>2, BecomesSteady
  <2> QED BY <1>2, <2>1, StateMoves DEF HistoryInv
<1>10. FreshInv'
  BY <1>1, <1>2, FreshMoves DEF HistoryInv
<1>11. NewestInv'
  BY <1>1, <1>2, NewestMoves DEF HistoryInv
<1> QED BY <1>4, <1>5, <1>6, <1>7, <1>8, <1>9, <1>10, <1>11 DEF HistoryInv

LEMMA TouchKeeps ==
    ASSUME TypeInv, HistoryInv, NEW b \in Batch, Touch(b)
    PROVE  HistoryInv'
<1>1. Becomes(b, "done", req[b].seen, req[b].todo, req[b].found, {}, req[b].torn)
  BY TouchDoes
<1>2. req[b].pc = "touching" /\ UNCHANGED <<db, disk, writer, paid, attested>>
  BY TouchDoes
<1>3. b \in paid
  BY <1>2 DEF HistoryInv, PcInv
<1>4. PcInv'
  BY <1>1, <1>2, <1>3, PcMoves DEF HistoryInv, Late
<1>5. RowsInv'
  <2>1. \A c \in Batch : req[c].pc # "idle" => req'[c].pc # "idle"
    BY <1>1 DEF Becomes
  <2> QED BY <1>2, <2>1, RowsMove DEF HistoryInv
<1>6. OwnInv'
  BY <1>1, <1>2, OwnMoves DEF HistoryInv, Active
<1>7. FoundInv'
  BY <1>1, FoundMoves DEF HistoryInv
<1>8. SealInv'
  BY <1>2, SealMoves DEF HistoryInv
<1>9. StateInv'
  <2>1. Steady(paid, req, paid', req')
    BY <1>1, <1>2, BecomesSteady
  <2> QED BY <1>2, <2>1, StateMoves DEF HistoryInv
<1>10. FreshInv'
  <2>1. ASSUME NEW u \in Url, verified'[u] # 0 PROVE disk'.state[u].checked # 0
    <3>1. u \in req[b].fresh \/ verified'[u] = verified[u]
      BY TouchDoes
    <3> QED BY <1>2, <2>1, <3>1 DEF HistoryInv, FreshInv
  <2>2. ASSUME NEW c \in Batch, NEW u \in req'[c].fresh
        PROVE  /\ req'[c].pc = "marking" => db'.state[u].checked # 0
               /\ req'[c].pc = "touching" => disk'.state[u].checked # 0
    <3>1. c # b /\ req'[c] = req[c]
      BY <1>1, <2>2 DEF Becomes
    <3> QED BY <1>2, <2>2, <3>1 DEF HistoryInv, FreshInv
  <2> QED BY <2>1, <2>2 DEF FreshInv
<1>11. NewestInv'
  BY <1>1, <1>2, NewestMoves DEF HistoryInv
<1> QED BY <1>4, <1>5, <1>6, <1>7, <1>8, <1>9, <1>10, <1>11 DEF HistoryInv

\* The rows of the batch become trusted: it is paid for, and nothing else is said of them.
LEMMA BeginMarkKeeps ==
    ASSUME TypeInv, HistoryInv, NEW b \in Batch, BeginMark(b)
    PROVE  HistoryInv'
<1> DEFINE rows == Markable(b)
<1>1. req[b].pc = "settled" /\ writer = None /\ UNCHANGED <<paid, attested, verified>>
  BY BeginMarkDoes
<1>2. b \in paid /\ req[b].found = {} /\ req[b].fresh = {}
  BY <1>1 DEF HistoryInv, PcInv, Late
<1>3. CASE /\ Becomes(b, "done", req[b].seen, req[b].todo, req[b].found, req[b].fresh, req[b].torn)
           /\ db' = db /\ disk' = db /\ writer' = None
  <2>4. PcInv'
    BY <1>1, <1>2, <1>3, PcMoves DEF HistoryInv, Late
  <2>5. RowsInv'
    <3>1. \A c \in Batch : req[c].pc # "idle" => req'[c].pc # "idle"
      BY <1>3 DEF Becomes
    <3> QED BY <1>1, <1>3, <3>1, RowsMove DEF HistoryInv
  <2>6. OwnInv'
    BY <1>1, <1>3, OwnMoves DEF HistoryInv, Active
  <2>7. FoundInv'
    BY <1>3, FoundMoves DEF HistoryInv
  <2>8. SealInv'
    BY <1>1, <1>3, SealMoves DEF HistoryInv
  <2>9. StateInv'
    <3>1. Steady(paid, req, paid', req')
      BY <1>1, <1>3, BecomesSteady
    <3> QED BY <1>3, <3>1, StateMoves DEF HistoryInv
  <2>10. FreshInv'
    BY <1>1, <1>3, FreshMoves DEF HistoryInv
  <2>11. NewestInv'
    BY <1>2, <1>3, NewestMoves DEF HistoryInv
  <2> QED BY <2>4, <2>5, <2>6, <2>7, <2>8, <2>9, <2>10, <2>11 DEF HistoryInv
<1>4. CASE /\ Becomes(b, "marking", req[b].seen, {q.url : q \in rows}, rows, req[b].fresh,
                      req[b].torn)
           /\ db'.state = db.state /\ db'.sealed = db.sealed
           /\ db'.probes = (db.probes \ rows) \cup {Promote(q) : q \in rows}
           /\ disk' = disk /\ writer' = b
  <2> USE <1>4
  <2>1. /\ rows \subseteq db.probes /\ db.probes \in SUBSET Probe
        /\ \A q \in rows : q.batch = b /\ q.observed
    <3>1. db \in Database
      BY DEF TypeInv, DbType
    <3> QED BY <3>1 DEF Markable, Database
  <2>2. \A p \in db'.probes :
           \/ p \in db.probes
           \/ \E q \in rows : /\ p.batch = b /\ p.url = q.url /\ p.ts = q.ts /\ p.pay = q.pay
                              /\ p.observed = q.observed
    <3>1. \A q \in rows : /\ Promote(q).batch = b /\ Promote(q).url = q.url
                          /\ Promote(q).ts = q.ts /\ Promote(q).pay = q.pay
                          /\ Promote(q).observed = q.observed
      BY <2>1, PromoteIs
    <3>2. \A p \in db'.probes : p \in db.probes \/ \E q \in rows : p = Promote(q)
      OBVIOUS
    <3> QED BY <3>1, <3>2
  <2>3. \A q \in rows : Own(q, db.probes, req[b])
    <3>1. b # None
      BY NoneAssumption
    <3> QED BY <1>1, <2>1, <3>1 DEF HistoryInv, OwnInv, Active
  <2> HIDE DEF rows
  <2>4. PcInv'
    BY <1>1, <1>2, PcMoves DEF HistoryInv, Late
  <2>5. RowsInv'
    <3>1. \A c \in Batch : req[c].pc # "idle" => req'[c].pc # "idle"
      BY DEF Becomes
    <3>2. ASSUME NEW p \in db'.probes \cup disk'.probes
          PROVE  \/ \E q \in db.probes \cup disk.probes :
                       p.batch = q.batch /\ (p.trusted => q.trusted)
                 \/ req'[p.batch].pc # "idle" /\ (p.trusted => p.batch \in paid')
      <4>1. CASE p \in db.probes \cup disk.probes
        BY <4>1
      <4>2. CASE p.batch = b
        BY <1>1, <1>2, <4>2 DEF Becomes
      <4> QED BY <2>2, <4>1, <4>2
    <3>3. paid \subseteq paid'
      BY <1>1
    <3> QED BY <3>1, <3>2, <3>3, RowsMove DEF HistoryInv
  <2>6. OwnInv'
    <3> SUFFICES ASSUME NEW p \in db'.probes, p.batch # None, req'[p.batch].pc \in Active
                 PROVE  Own(p, db'.probes, req'[p.batch])
      BY DEF OwnInv
    <3>1. p.batch # b
      BY DEF Becomes, Active
    <3>2. p \in db.probes /\ p.batch \in Batch
      BY <2>1, <2>2, <3>1 DEF Probe
    <3>3. req'[p.batch] = req[p.batch]
      BY <3>1, <3>2 DEF Becomes
    <3>4. Own(p, db.probes, req[p.batch])
      BY <3>2, <3>3 DEF HistoryInv, OwnInv
    <3>5. \A q \in db'.probes : q.batch = p.batch => q \in db.probes
      BY <2>2, <3>1
    <3> QED BY <3>3, <3>4, <3>5 DEF Own
  <2>7. FoundInv'
    <3> SUFFICES ASSUME NEW c \in Batch, NEW q \in req'[c].found
                 PROVE  /\ q.url \in Target[c] /\ q.pay = req'[c].seen[q.url]
                        /\ \A p \in req'[c].found : p.url = q.url => p = q
      BY DEF FoundInv
    <3>1. CASE c # b
      <4>1. req'[c] = req[c]
        BY <3>1 DEF Becomes
      <4> QED BY <4>1 DEF HistoryInv, FoundInv
    <3>2. CASE c = b
      <4>1. req'[c].found = rows /\ req'[c].seen = req[b].seen
        BY <3>2 DEF Becomes
      <4>2. DOMAIN req[b].seen = Target[b]
        BY DEF TypeInv, ReqType
      <4>3. Own(q, db.probes, req[b])
        BY <2>3, <4>1
      <4> QED BY <2>1, <3>2, <4>1, <4>2, <4>3 DEF Own
    <3> QED BY <3>1, <3>2
  <2>8. SealInv'
    <3>1. ASSUME NEW c \in Batch PROVE ContentOf(db'.probes, c) \subseteq ContentOf(db.probes, c)
      <4> SUFFICES ASSUME NEW p \in db'.probes, p.batch = c, p.observed
                   PROVE  \E q \in db.probes : /\ q.batch = c /\ q.observed /\ p.url = q.url
                                               /\ p.pay = q.pay /\ p.ts = q.ts
        BY DEF ContentOf
      <4> QED BY <2>1, <2>2
    <3> QED BY <1>1, <3>1, SealMoves DEF HistoryInv
  <2>9. StateInv'
    <3>1. Steady(paid, req, paid', req')
      BY <1>1, <1>2, BecomesSteady
    <3> QED BY <3>1, StateMoves DEF HistoryInv
  <2>10. FreshInv'
    BY <1>1, <1>2, FreshMoves DEF HistoryInv
  <2>11. NewestInv'
    <3> SUFFICES ASSUME NEW c \in Batch, NEW q \in req'[c].found
                 PROVE  /\ req'[c].pc = "marking" /\ q.url \notin req'[c].todo =>
                              Newer(c, q, db'.state[q.url], req')
                        /\ req'[c].pc \in {"touching", "done"} /\ ~req'[c].torn =>
                              /\ Newer(c, q, db'.state[q.url], req')
                              /\ Newer(c, q, disk'.state[q.url], req')
      BY DEF NewestInv
    <3>1. CASE c # b
      <4>1. req'[c] = req[c] /\ \A d \in Batch : req[d].found \subseteq req'[d].found
        BY <1>2, <3>1 DEF Becomes
      <4>2. \A s : Newer(c, q, s, req) => Newer(c, q, s, req')
        BY <4>1, NewerSteady
      <4> QED BY <4>1, <4>2 DEF HistoryInv, NewestInv
    <3>2. CASE c = b
      BY <3>2 DEF Becomes
    <3> QED BY <3>1, <3>2
  <2> QED BY <2>4, <2>5, <2>6, <2>7, <2>8, <2>9, <2>10, <2>11 DEF HistoryInv
<1> QED BY <1>3, <1>4, BeginMarkDoes

\* The next observation is applied: the first sight of another payee is only pending, and
\* what confirms it was seen by another request; an older one leaves all as it was.
LEMMA ApplyRowKeeps ==
    ASSUME TypeInv, HistoryInv, NEW b \in Batch, ApplyRow(b)
    PROVE  HistoryInv'
<1>2. PICK q \in req[b].found, fresh \in SUBSET Url :
         /\ q.url \in req[b].todo
         /\ Becomes(b, "marking", req[b].seen, req[b].todo \ {q.url}, req[b].found, fresh,
                    req[b].torn)
         /\ fresh = IF Stale(db.state[q.url], q) THEN req[b].fresh ELSE req[b].fresh \cup {q.url}
         /\ db'.state[q.url] = Applied(db.state[q.url], q)
         /\ \A u \in Url : u # q.url => db'.state[u] = db.state[u]
  BY ApplyRowDoes
<1> DEFINE s == db.state[q.url]
           t == db'.state[q.url]
<1>3. /\ req[b].pc = "marking" /\ db'.probes = db.probes /\ db'.sealed = db.sealed
      /\ UNCHANGED <<disk, writer, paid, attested, verified>> /\ TypeInv'
  BY ApplyRowDoes
<1>4. b \in paid /\ writer = b
  BY <1>3 DEF HistoryInv, PcInv
<1>5. /\ q.url \in Target[b] /\ q.url \in Url /\ q.pay = req[b].seen[q.url] /\ q.ts # 0
      /\ \A p \in req[b].found : p.url = q.url => p = q
  BY TargetIn DEF HistoryInv, FoundInv, TypeInv, ReqType
<1>6. q \in Probe /\ s \in UrlState /\ q.ts \in Nat /\ s.checked \in Nat
  <2>1. req[b] \in Held /\ db \in Database
    BY DEF TypeInv, DbType, ReqType
  <2>2. q \in Probe /\ s \in UrlState
    BY <1>5, <2>1 DEF Held, Database
  <2> QED BY <2>2 DEF Probe, UrlState, Time
<1>7. /\ Stale(s, q) => t = s
      /\ ~Stale(s, q) =>
           /\ t.checked = q.ts
           /\ q.pay = None => t.last = s.last /\ t.pending = s.pending
           /\ q.pay # None /\ (s.last \in {None, q.pay} \/ s.pending = q.pay) =>
                 t.last = q.pay /\ t.pending = None
           /\ q.pay # None /\ ~(s.last \in {None, q.pay} \/ s.pending = q.pay) =>
                 t.last = s.last /\ t.pending = q.pay
  BY <1>2, <1>6, AppliedIs
<1>8. (Stale(s, q) <=> q.ts < s.checked) /\ t.checked >= s.checked /\ t.checked \in Nat
  BY <1>6, <1>7 DEF Stale
<1>9. Steady(paid, req, paid', req')
  BY <1>2, <1>3, BecomesSteady
<1>10. /\ Sees(b, q.url, q.pay, paid', req') /\ Past(b, q.url, req') /\ ~Past(b, q.url, req)
       /\ b \in paid'
  BY <1>2, <1>3, <1>4, <1>5 DEF Becomes, Sees, Past
<1> HIDE DEF s, t
<1>11. PcInv'
  BY <1>2, <1>3, <1>4, PcMoves DEF HistoryInv, PcInv, Late
<1>12. RowsInv'
  <2>1. \A c \in Batch : req[c].pc # "idle" => req'[c].pc # "idle"
    BY <1>2 DEF Becomes
  <2> QED BY <1>3, <2>1, RowsMove DEF HistoryInv
<1>13. OwnInv'
  BY <1>2, <1>3, OwnMoves DEF HistoryInv, Active
<1>14. FoundInv'
  BY <1>2, FoundMoves DEF HistoryInv
<1>15. SealInv'
  BY <1>3, SealMoves DEF HistoryInv
<1>16. StateInv'
  <2> SUFFICES ASSUME NEW u \in Url
               PROVE  /\ Traced(disk.state[u], u, paid', req') /\ Traced(db'.state[u], u, paid', req')
                      /\ Ahead(db'.state[u], disk.state[u], u, paid', req')
    BY <1>3 DEF StateInv
  <2>1. /\ Traced(disk.state[u], u, paid, req) /\ Traced(db.state[u], u, paid, req)
        /\ Ahead(db.state[u], disk.state[u], u, paid, req)
    BY DEF HistoryInv, StateInv
  <2>2. /\ Traced(disk.state[u], u, paid', req') /\ Traced(db.state[u], u, paid', req')
        /\ Ahead(db.state[u], disk.state[u], u, paid', req')
    BY <1>9, <2>1, TracedSteady, AheadSteady
  <2>3. CASE u # q.url
    BY <1>2, <2>2, <2>3
  <2>4. CASE u = q.url
    <3>1. db.state[u] = s /\ db'.state[u] = t
      BY <2>4 DEF s, t
    <3> DEFINE old == disk.state[u]
    <3>2. old.checked \in Nat
      BY DEF TypeInv, DbType, Database, UrlState, Time
    <3> HIDE DEF old
    <3>3. Traced(s, u, paid', req') /\ Ahead(s, old, u, paid', req') /\ Traced(s, u, paid, req)
          /\ Ahead(s, old, u, paid, req)
      BY <2>1, <2>2, <3>1 DEF old
    <3>4. Traced(t, u, paid', req')
      <4>1. t.last \notin {None, Prior[u]} => \E c \in paid' : Sees(c, u, t.last, paid', req')
        BY <1>7, <1>10, <2>4, <3>3 DEF Traced
      <4>2. t.pending # None =>
               \E c \in paid' : Sees(c, u, t.pending, paid', req') /\ Past(c, u, req')
        BY <1>7, <1>10, <2>4, <3>3 DEF Traced
      <4>3. t.checked > Known(u) => \E c \in paid' : u \in Target[c]
        BY <1>5, <1>10, <2>4
      <4> QED BY <4>1, <4>2, <4>3 DEF Traced
    <3>5. Ahead(t, old, u, paid', req')
      <4>1. old.checked <= t.checked
        BY <1>6, <1>8, <3>2, <3>3 DEF Ahead
      <4>2. old.last # None => t.last # None
        BY <1>7, <3>3 DEF Ahead
      <4>3. ASSUME old.last \notin {None, t.last} PROVE TwoSaw(u, t.last, paid', req')
        <5>1. CASE t.last = s.last
          BY <3>3, <4>3, <5>1 DEF Ahead
        <5>2. CASE t.last # s.last
          <6>1. s.last # None
            BY <3>3, <4>3 DEF Ahead
          <6>2. s.pending = q.pay /\ q.pay # None /\ t.last = q.pay
            BY <1>7, <5>2, <6>1
          <6>3. PICK c \in paid : Sees(c, u, q.pay, paid, req) /\ Past(c, u, req)
            BY <3>3, <6>2 DEF Traced
          <6>4. c # b /\ c \in paid' /\ Sees(c, u, q.pay, paid', req')
            BY <1>9, <1>10, <2>4, <6>3 DEF Steady, Sees
          <6> QED BY <1>10, <2>4, <6>2, <6>4 DEF TwoSaw
        <5> QED BY <5>1, <5>2
      <4> QED BY <4>1, <4>2, <4>3 DEF Ahead
    <3> QED BY <2>2, <3>1, <3>4, <3>5 DEF old
  <2> QED BY <2>3, <2>4
<1>17. \A u \in Url : db.state[u].checked # 0 => db'.state[u].checked # 0
  <2>1. s.checked # 0 => t.checked # 0
    BY <1>6, <1>8
  <2> QED BY <1>2, <2>1 DEF s, t
<1>18. FreshInv'
  <2>1. ASSUME NEW c \in Batch, NEW u \in req'[c].fresh
        PROVE  /\ req'[c].pc = "marking" => db'.state[u].checked # 0
               /\ req'[c].pc = "touching" => disk'.state[u].checked # 0
    <3>1. u \in Url
      BY <1>3, <2>1 DEF TypeInv, ReqType, Held
    <3>2. CASE c # b
      <4>1. req'[c] = req[c]
        BY <1>2, <3>2 DEF Becomes
      <4> QED BY <1>3, <1>17, <2>1, <3>1, <4>1 DEF HistoryInv, FreshInv
    <3>3. CASE c = b
      <4>1. req'[c].pc = "marking" /\ u \in fresh
        BY <1>2, <2>1, <3>3 DEF Becomes
      <4>2. CASE u \in req[b].fresh
        BY <1>3, <1>17, <3>1, <4>1, <4>2 DEF HistoryInv, FreshInv
      <4>3. CASE u \notin req[b].fresh
        <5>1. u = q.url /\ ~Stale(s, q)
          BY <1>2, <4>1, <4>3 DEF s
        <5> QED BY <1>5, <1>7, <4>1, <5>1 DEF t
      <4> QED BY <4>2, <4>3
    <3> QED BY <3>2, <3>3
  <2> QED BY <1>3, <2>1 DEF HistoryInv, FreshInv
<1>19. NewestInv'
  <2> SUFFICES ASSUME NEW c \in Batch, NEW p \in req'[c].found
               PROVE  /\ req'[c].pc = "marking" /\ p.url \notin req'[c].todo =>
                            Newer(c, p, db'.state[p.url], req')
                      /\ req'[c].pc \in {"touching", "done"} /\ ~req'[c].torn =>
                            /\ Newer(c, p, db'.state[p.url], req')
                            /\ Newer(c, p, disk.state[p.url], req')
    BY <1>3 DEF NewestInv
  <2>1. \A d \in Batch : req'[d].found = req[d].found
    BY <1>2 DEF Becomes
  <2>2. p \in req[c].found /\ \A x : Newer(c, p, x, req) => Newer(c, p, x, req')
    BY <2>1, NewerSteady
  <2>3. p \in Probe /\ p.ts \in Nat /\ p.url \in Url
    <3>1. req[c] \in Held
      BY DEF TypeInv, ReqType
    <3> QED BY <2>2, <3>1 DEF Held, Probe, Time
  <2>4. CASE c = b
    <3>1. req'[c].pc = "marking" /\ req'[c].todo = req[b].todo \ {q.url}
      BY <1>2, <2>4 DEF Becomes
    <3>2. CASE p.url # q.url
      BY <1>2, <1>3, <2>2, <2>3, <2>4, <3>1, <3>2 DEF HistoryInv, NewestInv
    <3>3. CASE p.url = q.url
      <4>1. p = q
        BY <1>5, <2>2, <2>4, <3>3
      <4>2. Newer(b, q, t, req')
        <5>1. CASE Stale(s, q)
          BY <1>6, <1>7, <1>8, <5>1 DEF Newer
        <5>2. CASE ~Stale(s, q)
          <6>1. t.checked >= q.ts
            BY <1>6, <1>7, <5>2
          <6>2. q.pay # None => q.pay \in {t.last, t.pending}
            BY <1>7, <5>2
          <6> QED BY <6>1, <6>2 DEF Newer
        <5> QED BY <5>1, <5>2
      <4> QED BY <2>4, <3>1, <4>1, <4>2 DEF t
    <3> QED BY <3>2, <3>3
  <2>5. CASE c # b
    <3>1. req'[c] = req[c]
      BY <1>2, <2>5 DEF Becomes
    <3>2. req[c].pc # "marking"
      BY <1>4, <2>5 DEF HistoryInv, PcInv
    <3>3. ASSUME req[c].pc \in {"touching", "done"}, ~req[c].torn
          PROVE  Newer(c, p, db'.state[p.url], req') /\ Newer(c, p, disk.state[p.url], req')
      <4>1. Newer(c, p, db.state[p.url], req) /\ Newer(c, p, disk.state[p.url], req)
        BY <2>2, <3>3 DEF HistoryInv, NewestInv
      <4>2. CASE p.url # q.url
        BY <1>2, <2>2, <2>3, <4>1, <4>2
      <4>3. CASE p.url = q.url
        <5>1. Newer(c, p, s, req')
          BY <2>2, <4>1, <4>3 DEF s
        <5>2. CASE Stale(s, q)
          BY <1>7, <2>2, <4>1, <4>3, <5>1, <5>2 DEF t
        <5>3. CASE ~Stale(s, q)
          <6>1. t.checked >= p.ts
            BY <1>6, <1>8, <2>3, <5>1 DEF Newer
          <6>2. t.checked = p.ts => ~Alone(c, p, req')
            BY <1>7, <2>1, <2>5, <4>3, <5>3 DEF Alone
          <6> QED BY <2>2, <4>1, <4>3, <6>1, <6>2 DEF Newer, t
        <5> QED BY <5>2, <5>3
      <4> QED BY <4>2, <4>3
    <3> QED BY <3>1, <3>2, <3>3
  <2> QED BY <2>4, <2>5
<1> QED BY <1>11, <1>12, <1>13, <1>14, <1>15, <1>16, <1>18, <1>19 DEF HistoryInv

-----------------------------------------------------------------------------
(* Each action keeps the invariant: the rows that are written *)

LEMMA LeftSelf == \A q \in Probe : Left(q, q)
BY DEF Left

\* Request b writes row n of its resource u and goes to pc; what is left of the rows are
\* images of those there were.
Writes(b, u, pc, todo, n, f) ==
    /\ req[b].pc = "writing" /\ u \in req[b].todo
    /\ pc \in {"writing", "persisted"} /\ todo \subseteq req[b].todo
    /\ Becomes(b, pc, req[b].seen, todo, req[b].found, req[b].fresh, req[b].torn)
    /\ pc = "writing" => writer' = b /\ u \notin todo
    /\ pc = "persisted" => writer' = None
    /\ db'.state = db.state /\ db'.sealed = db.sealed
    /\ UNCHANGED <<disk, paid, attested, verified>>
    /\ n.batch = b /\ n.url = u /\ n.pay = req[b].seen[u] /\ n.trusted = FALSE
    /\ \A q \in db.probes \cup {n} : Left(f[q], q)
    /\ \A p \in db'.probes : \E q \in db.probes \cup {n} : p = f[q]

\* No other row of b is about that resource, and the rows of the others are what they were.
LEMMA WrittenKeeps ==
    ASSUME TypeInv, HistoryInv, NEW b \in Batch, NEW u, NEW pc, NEW todo, NEW n, NEW f,
           Writes(b, u, pc, todo, n, f)
    PROVE  HistoryInv'
<1> USE DEF Writes
<1>1. /\ b \notin paid /\ req[b].found = {} /\ req[b].fresh = {} /\ attested[b] = {}
      /\ writer = b /\ req[b].todo \subseteq Target[b]
  BY DEF HistoryInv, PcInv, Late
<1>2. /\ n.batch = b /\ n.url = u /\ n.pay = req[b].seen[u] /\ n.trusted = FALSE
      /\ DOMAIN req[b].seen = Target[b] /\ u \in Target[b]
  BY <1>1 DEF TypeInv, ReqType
<1>3. \A p \in db'.probes :
         \E q \in db.probes \cup {n} : p = f[q] /\ Left(p, q)
  OBVIOUS
<1>4. PcInv'
  BY <1>1, PcMoves DEF HistoryInv
<1>5. RowsInv'
  <2>1. \A c \in Batch : req[c].pc # "idle" => req'[c].pc # "idle"
    BY DEF Becomes
  <2>2. ASSUME NEW p \in db'.probes \cup disk'.probes
        PROVE  \/ \E q \in db.probes \cup disk.probes :
                     p.batch = q.batch /\ (p.trusted => q.trusted)
               \/ req'[p.batch].pc # "idle" /\ (p.trusted => p.batch \in paid')
    <3>1. CASE p \in disk.probes
      BY <3>1
    <3>2. CASE p \in db'.probes
      <4>1. PICK q \in db.probes \cup {n} : Left(p, q)
        BY <1>3, <3>2
      <4>2. CASE q = n
        <5>1. p.batch = b /\ p.trusted = FALSE
          BY <1>2, <4>1, <4>2 DEF Left
        <5> QED BY <5>1 DEF Becomes
      <4>3. CASE q \in db.probes
        BY <4>1, <4>3 DEF Left
      <4> QED BY <4>2, <4>3
    <3> QED BY <3>1, <3>2
  <2>3. paid \subseteq paid'
    OBVIOUS
  <2> QED BY <2>1, <2>2, <2>3, RowsMove DEF HistoryInv
<1>6. OwnInv'
  <2>1. ASSUME NEW q \in db.probes, q.batch = b
        PROVE  Own(q, db.probes, req[b]) /\ q.url # u
    <3>1. Own(q, db.probes, req[b])
      BY <2>1, NoneAssumption DEF HistoryInv, OwnInv, Active
    <3> QED BY <3>1 DEF Own
  <2> SUFFICES ASSUME NEW p \in db'.probes, p.batch # None, req'[p.batch].pc \in Active
               PROVE  Own(p, db'.probes, req'[p.batch])
    BY DEF OwnInv
  <2>2. PICK q \in db.probes \cup {n} : p = f[q] /\ Left(p, q)
    BY <1>3
  <2>3. p.batch = q.batch /\ p.url = q.url /\ p.pay = q.pay
    BY <2>2 DEF Left
  <2>4. CASE q.batch # b
    <3>1. q \in db.probes
      BY <1>2, <2>4
    <3>2. q.batch \in Batch
      BY <2>3, <3>1 DEF TypeInv, DbType, Database, Probe
    <3>3. req'[q.batch] = req[q.batch]
      BY <2>4, <3>2 DEF Becomes
    <3>4. Own(q, db.probes, req[q.batch])
      BY <2>3, <3>1, <3>3 DEF HistoryInv, OwnInv
    <3>5. ASSUME NEW x \in db'.probes, x.batch = p.batch, x.url = p.url PROVE x = p
      <4>1. PICK y \in db.probes \cup {n} : x = f[y] /\ Left(x, y)
        BY <1>3
      <4>2. y.batch = q.batch /\ y.url = q.url
        BY <2>3, <3>5, <4>1 DEF Left
      <4>3. y \in db.probes
        BY <1>2, <2>4, <4>2
      <4> QED BY <2>2, <3>4, <4>1, <4>2, <4>3 DEF Own
    <3> QED BY <2>3, <3>3, <3>4, <3>5 DEF Own
  <2>5. CASE q.batch = b
    <3>1. req'[b].seen = req[b].seen /\ req'[b].todo = todo /\ req'[b].pc = pc
      BY DEF Becomes
    <3>2. q.url \in Target[b] /\ q.pay = req[b].seen[q.url] /\ (pc = "writing" => q.url \notin todo)
      <4>1. CASE q = n
        BY <1>2, <4>1
      <4>2. CASE q \in db.probes
        BY <1>2, <2>1, <2>5, <4>2 DEF Own
      <4> QED BY <4>1, <4>2
    <3>3. ASSUME NEW x \in db'.probes, x.batch = p.batch, x.url = p.url PROVE x = p
      <4>1. PICK y \in db.probes \cup {n} : x = f[y] /\ Left(x, y)
        BY <1>3
      <4>2. y.batch = b /\ y.url = q.url
        BY <2>3, <2>5, <3>3, <4>1 DEF Left
      <4>3. y = q
        <5>1. CASE q = n
          BY <1>2, <2>1, <4>2, <5>1
        <5>2. CASE q \in db.probes
          <6>1. q.url # u /\ Own(q, db.probes, req[b])
            BY <2>1, <2>5, <5>2
          <6>2. y \in db.probes
            BY <1>2, <4>2, <6>1
          <6> QED BY <2>5, <4>2, <6>1, <6>2 DEF Own
        <5> QED BY <5>1, <5>2
      <4> QED BY <2>2, <4>1, <4>3
    <3> QED BY <1>2, <2>3, <2>5, <3>1, <3>2, <3>3 DEF Own
  <2> QED BY <2>4, <2>5
<1>7. FoundInv'
  BY FoundMoves DEF HistoryInv
<1>8. SealInv'
  <2>1. ASSUME NEW c \in Batch, attested[c] # {}
        PROVE  ContentOf(db'.probes, c) \subseteq ContentOf(db.probes, c)
    <3> SUFFICES ASSUME NEW p \in db'.probes, p.batch = c, p.observed
                 PROVE  \E q \in db.probes : /\ q.batch = c /\ q.observed /\ p.url = q.url
                                             /\ p.pay = q.pay /\ p.ts = q.ts
      BY DEF ContentOf
    <3>1. PICK q \in db.probes \cup {n} : Left(p, q)
      BY <1>3
    <3>2. q \in db.probes
      BY <1>1, <1>2, <2>1, <3>1 DEF Left
    <3> QED BY <3>1, <3>2 DEF Left
  <2> QED BY <2>1, SealMoves DEF HistoryInv
<1>9. StateInv'
  <2>1. Steady(paid, req, paid', req')
    BY <1>1, BecomesSteady
  <2> QED BY <2>1, StateMoves DEF HistoryInv
<1>10. FreshInv'
  BY <1>1, FreshMoves DEF HistoryInv
<1>11. NewestInv'
  BY <1>1, NewestMoves DEF HistoryInv
<1> QED BY <1>4, <1>5, <1>6, <1>7, <1>8, <1>9, <1>10, <1>11 DEF HistoryInv

LEMMA WriteRowKeeps ==
    ASSUME TypeInv, HistoryInv, NEW b \in Batch, WriteRow(b)
    PROVE  HistoryInv'
<1>1. req[b].todo \subseteq Target[b]
  BY DEF WriteRow, At, HistoryInv, PcInv
<1>2. PICK u \in req[b].todo :
         /\ Becomes(b, "writing", req[b].seen, req[b].todo \ {u}, req[b].found, req[b].fresh,
                    req[b].torn)
         /\ db'.state = db.state /\ db'.sealed = db.sealed
         /\ db'.probes = Pruned(db.probes \cup {NewProbe(b, u, TRUE)}, u)
  BY <1>1, WriteRowDoes
<1>3. req[b].pc = "writing" /\ UNCHANGED <<disk, writer, paid, attested, verified>>
  BY <1>1, WriteRowDoes
<1>4. writer = b
  BY <1>3 DEF HistoryInv, PcInv
<1>5. PICK n : /\ n = NewProbe(b, u, TRUE) /\ n \in Probe
               /\ n.batch = b /\ n.url = u /\ n.pay = req[b].seen[u] /\ n.trusted = FALSE
  <2>1. u \in Target[b]
    BY <1>1
  <2>2. /\ NewProbe(b, u, TRUE) \in Probe
        /\ NewProbe(b, u, TRUE).batch = b /\ NewProbe(b, u, TRUE).url = u
        /\ NewProbe(b, u, TRUE).pay = req[b].seen[u] /\ NewProbe(b, u, TRUE).trusted = FALSE
    BY <2>1, NewProbeType
  <2> QED BY <2>2
<1> DEFINE with == db.probes \cup {n}
           todo == req[b].todo \ {u}
<1>6. with \in SUBSET Probe
  <2>1. db \in Database
    BY DEF TypeInv, DbType
  <2> QED BY <1>5, <2>1 DEF Database
<1>7. db'.probes = Pruned(with, u)
  BY <1>2, <1>5
<1>8. PICK f : /\ \A q \in with : Left(f[q], q)
               /\ \A p \in Pruned(with, u) : \E q \in with : p = f[q]
  <2> HIDE DEF with
  <2> QED BY <1>6, PrunedLeft
<1>9. todo \in SUBSET req[b].todo /\ u \notin todo
  OBVIOUS
<1>10. Becomes(b, "writing", req[b].seen, todo, req[b].found, req[b].fresh, req[b].torn)
  BY <1>2
<1> HIDE DEF todo
<1>11. \A p \in db'.probes : \E q \in with : p = f[q]
  BY <1>7, <1>8
<1>12. Writes(b, u, "writing", todo, n, f)
  BY <1>2, <1>3, <1>4, <1>5, <1>8, <1>9, <1>10, <1>11 DEF Writes
<1> QED BY <1>12, WrittenKeeps

LEMMA PersistRaisesKeeps ==
    ASSUME TypeInv, HistoryInv, NEW b \in Batch, PersistRaises(b)
    PROVE  HistoryInv'
<1>1. req[b].todo \subseteq Target[b]
  BY DEF PersistRaises, At, HistoryInv, PcInv
<1>2. Becomes(b, "persisted", req[b].seen, req[b].todo, req[b].found, req[b].fresh, req[b].torn)
  BY <1>1, PersistRaisesDoes
<1>3. /\ req[b].pc = "writing" /\ writer' = None
      /\ db'.state = db.state /\ db'.sealed = db.sealed
      /\ UNCHANGED <<disk, paid, attested, verified>>
  BY <1>1, PersistRaisesDoes
<1>4. ASSUME NEW u \in req[b].todo, db'.probes = db.probes \cup {NewProbe(b, u, FALSE)}
      PROVE  HistoryInv'
  <2>1. PICK n : /\ n = NewProbe(b, u, FALSE) /\ n \in Probe
                 /\ n.batch = b /\ n.url = u /\ n.pay = req[b].seen[u] /\ n.trusted = FALSE
    <3>1. u \in Target[b]
      BY <1>1
    <3>2. /\ NewProbe(b, u, FALSE) \in Probe
          /\ NewProbe(b, u, FALSE).batch = b /\ NewProbe(b, u, FALSE).url = u
          /\ NewProbe(b, u, FALSE).pay = req[b].seen[u] /\ NewProbe(b, u, FALSE).trusted = FALSE
      BY <3>1, NewProbeType
    <3> QED BY <3>2
  <2> DEFINE with == db.probes \cup {n}
             f == [q \in with |-> q]
  <2>2. with \in SUBSET Probe
    <3>1. db \in Database
      BY DEF TypeInv, DbType
    <3> QED BY <2>1, <3>1 DEF Database
  <2>3. \A q \in with : Left(f[q], q)
    BY <2>2, LeftSelf
  <2>4. \A p \in db'.probes : \E q \in with : p = f[q]
    BY <1>4, <2>1
  <2> HIDE DEF f
  <2>5. Writes(b, u, "persisted", req[b].todo, n, f)
    BY <1>2, <1>3, <2>1, <2>3, <2>4 DEF Writes
  <2> QED BY <2>5, WrittenKeeps
<1>5. ASSUME db'.probes = db.probes
      PROVE  HistoryInv'
  <2>1. b \notin paid /\ req[b].found = {} /\ req[b].fresh = {} /\ writer = b
    BY <1>3 DEF HistoryInv, PcInv, Late
  <2>4. PcInv'
    BY <1>2, <1>3, <2>1, PcMoves DEF HistoryInv
  <2>5. RowsInv'
    <3>1. \A c \in Batch : req[c].pc # "idle" => req'[c].pc # "idle"
      BY <1>2 DEF Becomes
    <3> QED BY <1>3, <1>5, <3>1, RowsMove DEF HistoryInv
  <2>6. OwnInv'
    BY <1>2, <1>3, <1>5, OwnMoves DEF HistoryInv, Active
  <2>7. FoundInv'
    BY <1>2, FoundMoves DEF HistoryInv
  <2>8. SealInv'
    BY <1>3, <1>5, SealMoves DEF HistoryInv
  <2>9. StateInv'
    <3>1. Steady(paid, req, paid', req')
      BY <1>2, <1>3, <2>1, BecomesSteady
    <3> QED BY <1>3, <3>1, StateMoves DEF HistoryInv
  <2>10. FreshInv'
    BY <1>2, <1>3, FreshMoves DEF HistoryInv
  <2>11. NewestInv'
    BY <1>2, <1>3, NewestMoves DEF HistoryInv
  <2> QED BY <2>4, <2>5, <2>6, <2>7, <2>8, <2>9, <2>10, <2>11 DEF HistoryInv
<1> QED BY <1>1, <1>4, <1>5, PersistRaisesDoes

-----------------------------------------------------------------------------
(* Each action keeps the invariant: the hash, the clock, a crash *)

LEMMA AttestKeeps ==
    ASSUME TypeInv, HistoryInv, NEW b \in Batch, Attest(b)
    PROVE  HistoryInv'
<1>1. /\ writer = None /\ ContentOf(db.probes, b) # {}
      /\ attested'[b] = IF attested[b] = {} THEN ContentOf(db.probes, b) ELSE attested[b]
      /\ \A c \in Batch : c # b => attested'[c] = attested[c]
      /\ db'.probes = db.probes /\ db'.state = db.state /\ db'.sealed = db.sealed \cup {b}
      /\ disk' = db'
      /\ UNCHANGED <<writer, req, paid, verified>>
  BY AttestDoes
<1>2. Becomes(b, req[b].pc, req[b].seen, req[b].todo, req[b].found, req[b].fresh, req[b].torn)
  BY <1>1 DEF Becomes
<1>3. PcInv'
  <2>1. PICK q \in db.probes : q.batch = b
    BY <1>1 DEF ContentOf
  <2>2. req[b].pc # "idle" /\ req[b].pc # "writing"
    BY <1>1, <2>1, NoneAssumption DEF HistoryInv, RowsInv, PcInv
  <2>3. \A c \in Batch : attested'[c] # {} => req[c].pc \notin {"idle", "writing"}
    BY <1>1, <2>2 DEF HistoryInv, PcInv
  <2> QED BY <1>1, <2>3 DEF HistoryInv, PcInv
<1>4. RowsInv'
  BY <1>1 DEF HistoryInv, RowsInv
<1>5. OwnInv'
  BY <1>1 DEF HistoryInv, OwnInv
<1>6. FoundInv'
  BY <1>1 DEF HistoryInv, FoundInv
<1>7. SealInv'
  <2> SUFFICES ASSUME NEW c \in Batch, attested'[c] # {}
               PROVE  c \in db'.sealed /\ ContentOf(db.probes, c) \subseteq attested'[c]
    BY <1>1 DEF SealInv
  <2> QED BY <1>1 DEF HistoryInv, SealInv
<1>8. StateInv'
  <2>1. Steady(paid, req, paid', req')
    BY <1>1, SameSteady
  <2> QED BY <1>1, <2>1, StateMoves DEF HistoryInv
<1>9. FreshInv'
  BY <1>1, <1>2, FreshMoves DEF HistoryInv, PcInv
<1>10. NewestInv'
  BY <1>1, <1>2, NewestMoves DEF HistoryInv
<1> QED BY <1>3, <1>4, <1>5, <1>6, <1>7, <1>8, <1>9, <1>10 DEF HistoryInv

LEMMA SameKeeps ==
    ASSUME HistoryInv, UNCHANGED <<disk, db, writer, req, paid, attested, verified>>
    PROVE  HistoryInv'
<1>1. PcInv' /\ RowsInv' /\ OwnInv' /\ FoundInv'
  BY DEF HistoryInv, PcInv, RowsInv, OwnInv, FoundInv
<1>2. SealInv' /\ StateInv' /\ FreshInv' /\ NewestInv'
  BY DEF HistoryInv, SealInv, StateInv, FreshInv, NewestInv
<1> QED BY <1>1, <1>2 DEF HistoryInv

\* What a crash leaves is what was committed, and requests that have come to an end.
LEMMA CrashKeeps ==
    ASSUME TypeInv, HistoryInv, Crash
    PROVE  HistoryInv'
<1>1. /\ db' = disk /\ writer' = None /\ UNCHANGED <<disk, paid, attested, verified>>
  BY CrashDoes
<1>2. ASSUME NEW c \in Batch
      PROVE  \/ req[c].pc \in Ended \cup {"idle"} /\ req'[c] = req[c]
             \/ /\ req[c].pc \notin Ended \cup {"idle"}
                /\ req'[c].pc = "lost" /\ req'[c].found = req[c].found /\ req'[c].fresh = {}
                /\ c \in paid => req'[c].seen = req[c].seen
  BY CrashDoes
<1>3. \A c \in Batch : req'[c].found = req[c].found
  BY <1>2
<1>4. PcInv'
  <2> SUFFICES ASSUME NEW c \in Batch
               PROVE  /\ req'[c].pc \in {"writing", "marking"} => writer' = c
                      /\ req'[c].pc = "writing" => req'[c].todo \subseteq Target[c]
                      /\ c \in paid' => req'[c].pc \in Late \cup {"settled"}
                      /\ req'[c].pc \in {"settled", "marking", "touching", "done"} => c \in paid'
                      /\ req'[c].found # {} => c \in paid' /\ req'[c].pc \in Late
                      /\ attested'[c] # {} => req'[c].pc \notin {"idle", "writing"}
                      /\ req'[c].fresh # {} => req'[c].pc \in {"marking", "touching"}
    BY DEF PcInv
  <2>1. CASE req[c].pc \in Ended \cup {"idle"} /\ req'[c] = req[c]
    BY <1>1, <2>1 DEF HistoryInv, PcInv, Ended
  <2>2. CASE /\ req'[c].pc = "lost" /\ req'[c].found = req[c].found /\ req'[c].fresh = {}
    BY <1>1, <2>2 DEF HistoryInv, PcInv, Late
  <2> QED BY <1>2, <2>1, <2>2
<1>5. RowsInv'
  <2>1. \A c \in Batch : req[c].pc # "idle" => req'[c].pc # "idle"
    BY <1>2
  <2> QED BY <1>1, <2>1, RowsMove DEF HistoryInv
<1>6. OwnInv'
  <2>1. ASSUME NEW q \in db'.probes, q.batch # None PROVE req'[q.batch].pc \notin Active
    <3>1. q.batch \in Batch
      BY <1>1, <2>1 DEF TypeInv, DbType, Database, Probe
    <3> QED BY <1>2, <3>1 DEF Active, Ended
  <2> QED BY <2>1 DEF OwnInv
<1>7. FoundInv'
  <2> SUFFICES ASSUME NEW c \in Batch, NEW q \in req'[c].found
               PROVE  /\ q.url \in Target[c] /\ q.pay = req'[c].seen[q.url]
                      /\ \A p \in req'[c].found : p.url = q.url => p = q
    BY DEF FoundInv
  <2>1. q \in req[c].found /\ req'[c].found = req[c].found
    BY <1>3
  <2>2. c \in paid
    BY <2>1 DEF HistoryInv, PcInv
  <2>3. req'[c].seen = req[c].seen
    BY <1>2, <2>2
  <2> QED BY <2>1, <2>3 DEF HistoryInv, FoundInv
<1>8. SealInv'
  BY <1>1, SealMoves DEF HistoryInv
<1>9. StateInv'
  <2>1. Steady(paid, req, paid', req')
    <3>1. \A c \in paid : c \in Batch
      BY DEF TypeInv, WorldType
    <3>2. \A c \in paid : req'[c].seen = req[c].seen
      BY <1>2, <3>1
    <3>3. \A c \in paid : \A u : Past(c, u, req) => Past(c, u, req')
      BY <1>2, <3>1 DEF Past, Ended
    <3> QED BY <1>1, <1>3, <3>2, <3>3 DEF Steady
  <2> QED BY <1>1, <2>1, StateMoves DEF HistoryInv
<1>10. FreshInv'
  <2>1. \A c \in Batch : req'[c].pc \notin {"marking", "touching"}
    BY <1>2 DEF Ended
  <2> QED BY <1>1, <2>1 DEF HistoryInv, FreshInv
<1>11. NewestInv'
  <2> SUFFICES ASSUME NEW c \in Batch, NEW q \in req'[c].found
               PROVE  /\ req'[c].pc = "marking" /\ q.url \notin req'[c].todo =>
                            Newer(c, q, db'.state[q.url], req')
                      /\ req'[c].pc \in {"touching", "done"} /\ ~req'[c].torn =>
                            /\ Newer(c, q, db'.state[q.url], req')
                            /\ Newer(c, q, disk'.state[q.url], req')
    BY DEF NewestInv
  <2>1. req'[c].pc \notin {"marking", "touching"} /\ (req'[c].pc = "done" => req'[c] = req[c])
    BY <1>2 DEF Ended
  <2>2. q \in req[c].found /\ \A s : Newer(c, q, s, req) => Newer(c, q, s, req')
    BY <1>3, NewerSteady
  <2> QED BY <1>1, <2>1, <2>2 DEF HistoryInv, NewestInv
<1> QED BY <1>4, <1>5, <1>6, <1>7, <1>8, <1>9, <1>10, <1>11 DEF HistoryInv

-----------------------------------------------------------------------------
(* The invariant holds *)

LEMMA HistoryInit == Init => TypeInv /\ HistoryInv
<1> SUFFICES ASSUME Init PROVE TypeInv /\ HistoryInv
  OBVIOUS
<1> DEFINE old == {OldProbe(u) : u \in {v \in Url : Prior[v] # None}}
           states == [u \in Url |->
              LET at == IF Prior[u] = None THEN 0 ELSE 1
              IN  [last |-> Prior[u], pending |-> None,
                   changed |-> 0, checked |-> at, ok |-> at]]
<1>1. /\ clock = 1 /\ db = [probes |-> old, sealed |-> {}, serial |-> 0, state |-> states]
      /\ disk = db /\ writer = None /\ req = [b \in Batch |-> NewRequest(b)] /\ paid = {}
      /\ attested = [b \in Batch |-> {}] /\ verified = [u \in Url |-> 0]
  BY DEF Init
<1>2. 0 \in Time /\ 1 \in Time /\ (\A u \in Url : Prior[u] \in Seen) /\ None \in Seen
  BY BoundAssumption, PriorAssumption DEF Time, Seen
<1>3. \A q \in old : q \in Probe /\ q.ts # 0 /\ q.batch = None
  <2>1. \A u \in Url : OldProbe(u) \in Probe /\ OldProbe(u).ts # 0 /\ OldProbe(u).batch = None
    BY <1>2 DEF OldProbe, Probe
  <2> QED BY <2>1
<1>4. /\ states \in [Url -> UrlState]
      /\ \A u \in Url : /\ states[u].last = Prior[u] /\ states[u].pending = None
                        /\ states[u].checked = Known(u)
  BY <1>2 DEF UrlState, Known
<1> HIDE DEF old, states
<1>5. DbType(db) /\ db.probes = old /\ db.state = states
  BY <1>1, <1>3, <1>4 DEF DbType, Database
<1>6. ReqType
  BY <1>1, NewRequestType DEF ReqType
<1>7. WorldType
  BY <1>1, <1>2 DEF WorldType
<1>8. TypeInv
  BY <1>1, <1>5, <1>6, <1>7 DEF TypeInv
<1>9. \A b \in Batch : req[b].pc = "idle" /\ req[b].found = {} /\ req[b].fresh = {}
  BY <1>1, NewRequestType
<1>10. PcInv
  BY <1>1, <1>9 DEF PcInv
<1>11. RowsInv /\ OwnInv
  BY <1>1, <1>3, <1>5 DEF RowsInv, OwnInv
<1>12. FoundInv /\ SealInv /\ NewestInv
  BY <1>1, <1>9 DEF FoundInv, SealInv, NewestInv
<1>13. StateInv
  <2>1. ASSUME NEW u \in Url
        PROVE  Traced(states[u], u, paid, req) /\ Ahead(states[u], states[u], u, paid, req)
    <3>1. Known(u) \in Nat
      BY DEF Known
    <3> QED BY <1>4, <3>1 DEF Traced, Ahead
  <2> QED BY <1>1, <1>5, <2>1 DEF StateInv
<1>14. FreshInv
  BY <1>1, <1>9 DEF FreshInv
<1> QED BY <1>8, <1>10, <1>11, <1>12, <1>13, <1>14 DEF HistoryInv

LEMMA HistoryStep == TypeInv /\ HistoryInv /\ [Next]_vars => TypeInv' /\ HistoryInv'
<1> SUFFICES ASSUME TypeInv, HistoryInv, [Next]_vars PROVE TypeInv' /\ HistoryInv'
  OBVIOUS
<1>1. ASSUME NEW b \in Batch, WriteRow(b) \/ PersistRaises(b)
      PROVE  req[b].todo \subseteq Target[b]
  BY <1>1 DEF WriteRow, PersistRaises, At, HistoryInv, PcInv
<1>2. ASSUME NEW b \in Batch, RouteNeed(b) PROVE TypeInv' /\ HistoryInv'
  BY <1>2, RouteNeedDoes, RouteNeedKeeps
<1>3. ASSUME NEW b \in Batch, WriteRow(b) PROVE TypeInv' /\ HistoryInv'
  BY <1>1, <1>3, WriteRowDoes, WriteRowKeeps
<1>4. ASSUME NEW b \in Batch, SealBatch(b) PROVE TypeInv' /\ HistoryInv'
  BY <1>4, SealBatchDoes, SealBatchKeeps
<1>5. ASSUME NEW b \in Batch, PersistRaises(b) PROVE TypeInv' /\ HistoryInv'
  BY <1>1, <1>5, PersistRaisesDoes, PersistRaisesKeeps
<1>6. ASSUME NEW b \in Batch, Unpaid(b) PROVE TypeInv' /\ HistoryInv'
  BY <1>6, UnpaidDoes, UnpaidKeeps
<1>7. ASSUME NEW b \in Batch, Refuse(b) PROVE TypeInv' /\ HistoryInv'
  BY <1>7, RefuseDoes, RefuseKeeps
<1>8. ASSUME NEW b \in Batch, Settle(b) PROVE TypeInv' /\ HistoryInv'
  BY <1>8, SettleDoes, SettleKeeps
<1>9. ASSUME NEW b \in Batch, BeginMark(b) PROVE TypeInv' /\ HistoryInv'
  BY <1>9, BeginMarkDoes, BeginMarkKeeps
<1>10. ASSUME NEW b \in Batch, ApplyRow(b) PROVE TypeInv' /\ HistoryInv'
  BY <1>10, ApplyRowDoes, ApplyRowKeeps
<1>11. ASSUME NEW b \in Batch, CommitMark(b) PROVE TypeInv' /\ HistoryInv'
  BY <1>11, CommitMarkDoes, CommitMarkKeeps
<1>12. ASSUME NEW b \in Batch, MarkRaises(b) PROVE TypeInv' /\ HistoryInv'
  BY <1>12, MarkRaisesDoes, MarkRaisesKeeps
<1>13. ASSUME NEW b \in Batch, Touch(b) PROVE TypeInv' /\ HistoryInv'
  BY <1>13, TouchDoes, TouchKeeps
<1>14. ASSUME NEW b \in Batch, Attest(b) PROVE TypeInv' /\ HistoryInv'
  BY <1>14, AttestDoes, AttestKeeps
<1>15. CASE Tick
  BY <1>15, TickDoes, SameKeeps
<1>16. CASE Crash
  BY <1>16, CrashDoes, CrashKeeps
<1>17. CASE UNCHANGED vars
  <2>1. TypeInv'
    BY <1>17 DEF TypeInv, DbType, ReqType, WorldType, vars
  <2> QED BY <1>17, <2>1, SameKeeps DEF vars
<1> QED BY <1>2, <1>3, <1>4, <1>5, <1>6, <1>7, <1>8, <1>9, <1>10, <1>11, <1>12, <1>13, <1>14,
           <1>15, <1>16, <1>17 DEF Next, Request

\* The strengthened invariant of the observation history under its writers.
THEOREM HistoryHolds == Spec => [](TypeInv /\ HistoryInv)
<1>1. Init => TypeInv /\ HistoryInv
  BY HistoryInit
<1>2. (TypeInv /\ HistoryInv) /\ [Next]_vars => (TypeInv /\ HistoryInv)'
  BY HistoryStep
<1> QED BY <1>1, <1>2, PTL DEF Spec

-----------------------------------------------------------------------------
(* What the invariant says of the properties *)

\* What persist_route_batch wrote for a request that was never paid for moves nothing that
\* is trusted: every trusted row, established or pending payee, check and shadow clock goes
\* back to a request whose payment is known to be settled, on disk and in the open
\* transaction, whatever fails or crashes in between.
THEOREM NothingUnpaidIsTrusted == Spec => []UnpaidLeavesNoTrace
<1>1. TypeInv /\ HistoryInv => UnpaidLeavesNoTrace
  <2> SUFFICES ASSUME TypeInv, HistoryInv PROVE UnpaidLeavesNoTrace
    OBVIOUS
  <2>1. ASSUME NEW d \in {disk, db}, NEW u \in Url
        PROVE  /\ {d.state[u].last, d.state[u].pending} \ {None}
                     \subseteq {req[b].seen[u] : b \in Witnesses(u)} \cup {Prior[u]}
               /\ d.state[u].checked > (IF Prior[u] = None THEN 0 ELSE 1) => Witnesses(u) # {}
    <3>1. Traced(d.state[u], u, paid, req)
      BY <2>1 DEF HistoryInv, StateInv
    <3>2. \A c, pay : Sees(c, u, pay, paid, req) => c \in Witnesses(u) /\ req[c].seen[u] = pay
      BY DEF Sees, Witnesses
    <3>3. d.state[u].last \in {req[b].seen[u] : b \in Witnesses(u)} \cup {Prior[u], None}
      BY <3>1, <3>2 DEF Traced
    <3>4. d.state[u].pending \in {req[b].seen[u] : b \in Witnesses(u)} \cup {None}
      BY <3>1, <3>2 DEF Traced
    <3>5. d.state[u].checked > Known(u) => Witnesses(u) # {}
      BY <3>1 DEF Traced, Witnesses
    <3> QED BY <3>3, <3>4, <3>5 DEF Known
  <2> QED BY <2>1 DEF UnpaidLeavesNoTrace, HistoryInv, RowsInv, FreshInv
<1> QED BY <1>1, HistoryHolds, PTL

\* mark_batch_settled: once a promotion is committed, the trusted state of each resource it
\* promoted is not older than the promoted observation, and knows its payee when nothing
\* newer came; an older observation that is settled late overwrites nothing.
THEOREM NewestObservationWins == Spec => []NewestTrustedWins
<1>1. HistoryInv => NewestTrustedWins
  BY DEF HistoryInv, NewestInv, Newer, Alone, NewestTrustedWins
<1> QED BY <1>1, HistoryHolds, PTL

\* attestation_for: a batch whose hash was published is sealed on disk, and its content is
\* only ever a part of what was hashed.
THEOREM HashedOnlyLoses == Spec => []SealedOnlyLoses
<1>1. HistoryInv => SealedOnlyLoses
  <2>1. \A b \in Batch : Content(b) = ContentOf(db.probes, b)
    BY DEF Content, ContentOf
  <2> QED BY <2>1 DEF HistoryInv, SealInv, SealedOnlyLoses
<1> QED BY <1>1, HistoryHolds, PTL

\* Only finitely many requests have been paid for so far.
LEMMA PaidFinite == Spec => []IsFiniteSet(paid)
<1>1. Init => IsFiniteSet(paid)
  BY FS_EmptySet DEF Init
<1>2. IsFiniteSet(paid) /\ [Next]_vars => IsFiniteSet(paid)'
  <2> SUFFICES ASSUME IsFiniteSet(paid), [Next]_vars PROVE IsFiniteSet(paid')
    OBVIOUS
  <2>1. paid' = paid \/ \E b \in Batch : paid' = paid \cup {b}
    BY DEF Next, Request, vars, Tick, Crash, RouteNeed, WriteRow, SealBatch, PersistRaises, Unpaid,
           Refuse, Settle, BeginMark, ApplyRow, CommitMark, MarkRaises, Touch, Attest
  <2>2. ASSUME NEW b \in Batch, paid' = paid \cup {b} PROVE IsFiniteSet(paid')
    BY <2>2, FS_AddElement
  <2> QED BY <2>1, <2>2
<1> QED BY <1>1, <1>2, PTL DEF Spec

\* The database changes on disk only by a commit of what the connection sees.
LEMMA DiskMoves ==
    ASSUME TypeInv, HistoryInv, [Next]_vars
    PROVE  disk'.state = disk.state \/ disk'.state = db.state
<1>1. ASSUME NEW b \in Batch, SealBatch(b) PROVE disk'.state = db.state
  BY <1>1, SealBatchDoes
<1>2. ASSUME NEW b \in Batch, BeginMark(b) PROVE disk'.state = disk.state \/ disk'.state = db.state
  BY <1>2, BeginMarkDoes
<1>3. ASSUME NEW b \in Batch, CommitMark(b) PROVE disk'.state = db.state
  BY <1>3, CommitMarkDoes
<1>4. ASSUME NEW b \in Batch, Attest(b) PROVE disk'.state = db.state
  BY <1>4, AttestDoes
<1>5. ASSUME NEW b \in Batch,
             \/ RouteNeed(b) \/ WriteRow(b) \/ PersistRaises(b) \/ Unpaid(b) \/ Refuse(b)
             \/ Settle(b) \/ ApplyRow(b) \/ MarkRaises(b) \/ Touch(b)
      PROVE  disk' = disk
  BY <1>5 DEF RouteNeed, WriteRow, PersistRaises, Unpaid, Refuse, Settle, ApplyRow, MarkRaises,
              Touch
<1>6. CASE Tick \/ Crash \/ UNCHANGED vars
  BY <1>6 DEF Tick, Crash, vars
<1> QED BY <1>1, <1>2, <1>3, <1>4, <1>5, <1>6 DEF Next, Request

\* _apply_trusted_url_state: the committed payee of a resource is replaced only when two
\* different paid requests have seen the new one.
THEOREM PayeeChangesOnSecondSight == Spec => PayeeNeedsTwoPayments
<1> DEFINE Twice ==
        \A u \in Url :
           LET new == disk'.state[u].last
           IN  disk.state[u].last \notin {None, new} =>
                  Cardinality({b \in Witnesses(u) : req[b].seen[u] = new}) >= 2
<1>1. TypeInv /\ HistoryInv /\ IsFiniteSet(paid) /\ [Next]_vars => [Twice]_vars
  <2> SUFFICES ASSUME TypeInv, HistoryInv, IsFiniteSet(paid), [Next]_vars,
                      NEW u \in Url, disk.state[u].last \notin {None, disk'.state[u].last}
               PROVE  Cardinality({b \in Witnesses(u) : req[b].seen[u] = disk'.state[u].last}) >= 2
    OBVIOUS
  <2> DEFINE new == disk'.state[u].last
             saw == {b \in Witnesses(u) : req[b].seen[u] = new}
  <2>1. new = db.state[u].last
    BY DiskMoves
  <2>2. TwoSaw(u, new, paid, req)
    BY <2>1 DEF HistoryInv, StateInv, Ahead
  <2> HIDE DEF new
  <2>3. PICK b, c \in saw : b # c
    BY <2>2 DEF TwoSaw, Sees, Witnesses
  <2>4. saw \subseteq paid
    BY DEF Witnesses
  <2> HIDE DEF saw
  <2>5. IsFiniteSet(saw)
    BY <2>4, FS_Subset
  <2>6. IsFiniteSet({b, c}) /\ Cardinality({b, c}) = 2
    <3>1. IsFiniteSet({b}) /\ Cardinality({b}) = 1
      BY FS_Singleton
    <3>2. /\ IsFiniteSet({b} \cup {c})
          /\ Cardinality({b} \cup {c}) = Cardinality({b}) + 1
      BY <2>3, <3>1, FS_AddElement
    <3>3. {b} \cup {c} = {b, c}
      OBVIOUS
    <3> QED BY <3>1, <3>2, <3>3
  <2>7. Cardinality({b, c}) <= Cardinality(saw)
    <3>1. {b, c} \subseteq saw
      BY <2>3
    <3> QED BY <2>5, <3>1, FS_Subset
  <2>8. Cardinality(saw) \in Nat
    BY <2>5, FS_CardinalityType
  <2> QED BY <2>6, <2>7, <2>8 DEF saw, new
<1> QED BY <1>1, HistoryHolds, PaidFinite, PTL DEF Spec, PayeeNeedsTwoPayments
=============================================================================
