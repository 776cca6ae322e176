---------------------------- MODULE AnchorWorker ----------------------------
(***************************************************************************)
(* The router's side of an anchor up to the point where the controller of  *)
(* AutoAnchor takes over: the worker of live402/pq/worker.py, which asks   *)
(* the signer for the newest tree, keeps the signed transaction, and, on   *)
(* TestNet, sends and confirms it tick by tick.  On MainNet the exchange   *)
(* with the signer is that of canary.authorize.                            *)
(*                                                                         *)
(* The log grows and publishes its notes meanwhile, the network's round    *)
(* and fee move, replies are lost, wrong or those of an earlier request,   *)
(* and the process may die after any step.                                 *)
(***************************************************************************)
EXTENDS AnchorTxn

CONSTANTS
    MaxSize,    \* bound: leaves in the log
    MaxDials,   \* bound: requests to the signer
    MaxRound,   \* bound: the network's rounds
    MaxTime,    \* bound: the clock
    PerByte     \* fees per byte the network may ask for

ASSUME BoundAssumption ==
    {MaxSize, MaxDials, MaxRound, MaxTime} \subseteq Nat \ {0} /\ PerByte \subseteq Nat

Tree == 1..MaxSize

VARIABLES
    net,        \* the configured network, fixed at boot
    size,       \* leaves in the log
    notes,      \* trees whose signed note is published
    latest,     \* the tree of the note saved last, or 0
    params,     \* what the network asks for now
    clock,
    job,        \* what the worker is doing: nothing, asking, or about to send
    dials,      \* requests made, which numbers them
    replies,    \* what the signer has written
    rows,       \* authorized_anchors: Tree -> row
    confirmed,  \* the tree of last_confirmed, or 0
    posted,     \* <<tree, transaction>> the worker handed to algod
    pool,       \* transactions algod took
    chain       \* those a block contains

log == <<size, notes, latest>>
world == <<net, params, clock>>
signer == <<dials, replies>>
outside == <<posted, pool, chain>>
vars == <<log, world, job, signer, rows, confirmed, outside>>

Idle == [stage |-> "idle"]
NoRow == [txn |-> None]

Init ==
    /\ net \in Network
    /\ size = 1 /\ notes = {} /\ latest = 0
    /\ params \in [last: {1}, min: {BaseMin}, perByte: PerByte]
    /\ clock = 0
    /\ job = Idle /\ dials = 0 /\ replies = {}
    /\ rows = [t \in Tree |-> NoRow]
    /\ confirmed = 0
    /\ posted = {} /\ pool = {} /\ chain = {}

Authorized == {t \in Tree : rows[t] # NoRow}

\* in_flight_authorized: trees signed for that no confirmed anchor covers.
InFlight == {t \in Authorized : t > confirmed}

-----------------------------------------------------------------------------
(* The log and the network.                                                *)

Append ==
    /\ size < MaxSize
    /\ size' = size + 1
    /\ UNCHANGED <<notes, latest, world, job, signer, rows, confirmed, outside>>

\* issue() signs after it appended, and another receipt may come in between.
Publish ==
    /\ \E t \in 1..size \ notes : notes' = notes \cup {t} /\ latest' = t
    /\ UNCHANGED <<size, world, job, signer, rows, confirmed, outside>>

\* Bound: on TestNet, where no policy is frozen, the fee stands still.
RoundPasses ==
    /\ params.last < MaxRound
    /\ \E f \in IF net = "mainnet" THEN PerByte ELSE {params.perByte} :
           params' = [params EXCEPT !.last = @ + 1, !.perByte = f]
    /\ UNCHANGED <<net, clock, log, job, signer, rows, confirmed, outside>>

\* Only a MainNet snapshot is ever too old.
ClockTick ==
    /\ net = "mainnet"
    /\ clock < MaxTime
    /\ clock' = clock + 1
    /\ UNCHANGED <<net, params, log, job, signer, rows, confirmed, outside>>

-----------------------------------------------------------------------------
(* Asking the signer.                                                      *)

\* Faulty: the worker asks for the newest tree whatever is under way.
NextTreeAnyway == IF size > confirmed THEN {size} ELSE {}

\* should_build: the newest tree, unless an older one is still under way.
NextTree == IF size > confirmed /\ InFlight = {} THEN {size} ELSE {}

\* checkpoint_at, or failing that the note saved last.
NoteFor(t) == IF t \in notes THEN t ELSE latest

\* build_request: the code covers every field, the policy included.
RequestOf(t, note, policy) ==
    [stage |-> "dial", id |-> dials + 1, size |-> t, note |-> note, policy |-> policy]

Ask(t, note, policy) ==
    /\ dials < MaxDials
    /\ dials' = dials + 1
    /\ job' = RequestOf(t, note, policy)
    /\ UNCHANGED <<log, world, replies, rows, confirmed, outside>>

\* maybe_submit: no note at all, no request.
DialTestnet ==
    /\ net = "testnet" /\ job = Idle
    /\ \E t \in NextTree : NoteFor(t) # 0 /\ Ask(t, NoteFor(t), None)

\* authorize: the note of the newest tree and a snapshot of the network.
DialMainnet ==
    /\ net = "mainnet" /\ job = Idle
    /\ size \in notes /\ latest = size /\ size \notin Authorized
    /\ RequiredFee(params) # None
    /\ Ask(size, size, PolicyOf(params, clock))

\* What the signer signs: MainNet what the policy says, TestNet what it sees.
Signs ==
    IF job.policy = None THEN Payment("testnet", job.size, params)
    ELSE [Payment("mainnet", job.size, ParamsOf(job.policy)) EXCEPT !.fee = job.policy.fee]

\* A transaction with one field wrong.
Spoiled(txn) ==
    {[txn EXCEPT !.kind = k] : k \in Kind \ {txn.kind}}
        \cup {[txn EXCEPT !.net = n] : n \in Network \ {txn.net}}
        \cup {[txn EXCEPT !.size = @ + 1], [txn EXCEPT !.root = "other"],
              [txn EXCEPT !.fee = @ + 1], [txn EXCEPT !.fv = @ + 1]}

\* A signer that keeps the contract, external, answers the request.
Answer ==
    /\ job.stage = "dial"
    /\ IF job.policy = None THEN RequiredFee(params) # None
       ELSE ObservedAllows(job.policy, params, clock)
    /\ replies' = replies \cup {[id |-> job.id, size |-> job.size, root |-> "ours",
                                 txn |-> Signs, mac |-> TRUE, sound |-> TRUE]}
    /\ UNCHANGED <<log, world, job, dials, rows, confirmed, outside>>

\* One that does not: a wrong transaction, or a reply it did not authenticate.
AnswerWrongly ==
    /\ job.stage = "dial"
    /\ Signs.fee # None
    /\ \A r \in replies : r.sound
    /\ LET good == [id |-> job.id, size |-> job.size, root |-> "ours",
                    txn |-> Signs, mac |-> TRUE, sound |-> FALSE]
       IN \E bad \in {[good EXCEPT !.root = "other"], [good EXCEPT !.mac = FALSE]}
                        \cup {[good EXCEPT !.txn = t] : t \in Spoiled(Signs)} :
              replies' = replies \cup {bad}
    /\ UNCHANGED <<log, world, job, dials, rows, confirmed, outside>>

\* save_authorized_checkpoint; answers is history: the request it was for.
RowOf(j, reply) ==
    [txn |-> reply.txn, note |-> j.note, policy |-> j.policy, id |-> j.id,
     answers |-> reply.id, submitted |-> FALSE]

\* Any reply the peer ever wrote may arrive; one that is refused ends the tick.
Receive ==
    /\ job.stage = "dial"
    /\ \E r \in replies :
           IF Accepts(job, r)
           THEN /\ rows' = [rows EXCEPT ![job.size] = RowOf(job, r)]
                /\ job' = IF net = "testnet" THEN [stage |-> "send", size |-> job.size] ELSE Idle
           ELSE job' = Idle /\ UNCHANGED rows
    /\ UNCHANGED <<log, world, signer, confirmed, outside>>

\* The dial times out, the signer refuses, or the process dies and restarts.
GiveUp ==
    /\ job # Idle
    /\ job' = Idle
    /\ UNCHANGED <<log, world, signer, rows, confirmed, outside>>

-----------------------------------------------------------------------------
(* Sending and confirming, on TestNet.                                     *)

\* _recover_authorized: a later tick sends what is stored, never asks again.
\* A row signed under another note is a conflict, and the tick does nothing.
Recover ==
    /\ net = "testnet" /\ job = Idle
    /\ \E t \in InFlight :
           /\ rows[t].note = IF t \in notes THEN t ELSE rows[t].note
           /\ ~rows[t].submitted
           /\ job' = [stage |-> "send", size |-> t]
    /\ UNCHANGED <<log, world, signer, rows, confirmed, outside>>

\* algod takes a live transaction it has not got, or the request is lost.
Taken(txn) ==
    IF txn \in pool \/ params.last \notin txn.fv..txn.lv THEN {FALSE} ELSE BOOLEAN

\* _maybe_broadcast: only an answer with a txid is recorded on the row.
Send ==
    /\ job.stage = "send"
    /\ LET txn == rows[job.size].txn IN
       IF ValidSigned(txn, "testnet", job.size, None)
       THEN /\ posted' = posted \cup {<<job.size, txn>>}
            /\ \E took \in Taken(txn), heard \in BOOLEAN :
                   /\ pool' = IF took THEN pool \cup {txn} ELSE pool
                   /\ rows' = IF took /\ heard
                              THEN [rows EXCEPT ![job.size].submitted = TRUE] ELSE rows
       ELSE UNCHANGED <<posted, pool, rows>>
    /\ job' = Idle
    /\ UNCHANGED <<log, world, signer, confirmed, chain>>

Include ==
    /\ \E txn \in pool \ chain : params.last <= txn.lv /\ chain' = chain \cup {txn}
    /\ UNCHANGED <<log, world, job, signer, rows, confirmed, posted, pool>>

\* fetch_testnet_txn: the indexer's object, or algod's of a pending one.
Fetched(txn) == IF txn \in pool THEN {Decoded(txn, txn \in chain)} ELSE {}

\* confirm_testnet_anchor, of the row saved last.
Confirm ==
    /\ net = "testnet" /\ job = Idle
    /\ \E t \in {u \in InFlight : u = Max(Authorized)} :
           /\ rows[t].submitted
           /\ \E got \in Fetched(rows[t].txn) : Verified(got, rows[t].txn)
           /\ confirmed' = t
    /\ UNCHANGED <<log, world, job, signer, rows, outside>>

Next ==
    \/ Append \/ Publish \/ RoundPasses \/ ClockTick
    \/ DialTestnet \/ DialMainnet \/ Answer \/ AnswerWrongly \/ Receive \/ GiveUp
    \/ Recover \/ Send \/ Include \/ Confirm

Spec == Init /\ [][Next]_vars

\* The tick loop keeps running, and the provider answers it in the end.
LiveSpec == Spec /\ WF_vars(Confirm) /\ WF_vars(Send)

-----------------------------------------------------------------------------
(* What a MainNet row holds is the very answer to the request the router   *)
(* recorded, at the fee and window that request froze, however many        *)
(* requests, late replies and wrong ones there were; and on TestNet algod  *)
(* is only ever handed the anchor of the tree the row is for.              *)
AnchorsAsAsked ==
    /\ net = "mainnet" => \A t \in Authorized :
          LET row == rows[t] IN
          /\ row.answers = row.id
          /\ row.txn = Payment("mainnet", t, ParamsOf(row.policy))
          /\ row.txn.fee = row.policy.fee
    /\ \A p \in posted : /\ net = "testnet"
                         /\ Anchors(p[2], "testnet", p[1])
                         /\ p[2].fee <= MaxFee

(* The router and a signer that keeps the contract never disagree: its     *)
(* answer to the request the router waits for is one the router takes,     *)
(* although each derives the fee and the window for itself and the network *)
(* has moved in between.                                                   *)
SoundAnswerTaken ==
    job.stage = "dial" => \A r \in replies :
        r.sound /\ r.id = job.id => Accepts(job, r)

(* One anchor at a time: a newer tree waits until the older one is         *)
(* confirmed, so confirmed anchors are a chain of extensions.              *)
OneInFlight == net = "testnet" => Cardinality(InFlight) <= 1

(* A transaction the worker knows algod took, and that a block contains,   *)
(* is recorded as the confirmed anchor: nothing the worker does in between *)
(* makes it forget.                                                        *)
SubmittedIsConfirmed ==
    \A t \in Tree : (rows[t].txn # None /\ rows[t].txn \in chain /\ rows[t].submitted)
                        ~> (confirmed >= t)
=============================================================================
