----------------------------- MODULE AnchorStore -----------------------------
(***************************************************************************)
(* The tables of live402/pq/store.py that carry a MainNet anchor from the  *)
(* signer to the chain: authorized_anchors with the pointer to its last    *)
(* row, and confirmed_anchors with the pointer to the newest one.  Their   *)
(* two save functions read the row first and write it in a statement of    *)
(* its own: another process may write in between.                          *)
(*                                                                         *)
(* A signed transaction is identified by the request it answers; so is its *)
(* txid, which is computed from the transaction.                           *)
(***************************************************************************)
EXTENDS Naturals, FiniteSetsExt

CONSTANTS
    Tree,       \* tree sizes that can be anchored
    Serial,     \* tells apart the requests for one tree
    MaxTime,    \* bound: the clock stops here
    Fee,        \* canonical fees a policy snapshot can ask for
    None        \* no row, no txid

ASSUME TreeAssumption == Tree \subseteq Nat \ {0}
ASSUME TimeAssumption == MaxTime \in Nat \ {0}
ASSUME FeeAssumption == Fee \subseteq Nat \ {0}

Time == 1..MaxTime
Request == [serial: Serial, at: Time, fee: Fee]
SendState == {"AUTHORIZED", "SEND_ATTEMPTED", "SUBMITTED", "CONFIRMED"}
AuthRow == [signed: Request, state: SendState, expected: Request \cup {None},
            attempted: Nat]

ASSUME NoneAssumption == None \notin Request /\ None \notin AuthRow

VARIABLES
    clock,      \* wall-clock time, the same for every process
    auth,       \* authorized_anchors: Tree -> row
    lastAuth,   \* last_authorized_checkpoint: the tree of the last save, or 0
    anchors,    \* confirmed_anchors: Tree -> txid
    confirmed,  \* last_confirmed_checkpoint: tree size and txid
    posts,      \* Tree -> how often a transaction for it was sent to algod
    wire,       \* <<tree, txid>> of every transaction that reached the network
    chain       \* those among them that a block contains

tables == <<auth, lastAuth, anchors, confirmed>>
network == <<posts, wire, chain>>

StoreInit ==
    /\ clock = 1
    /\ auth = [t \in Tree |-> None]
    /\ lastAuth = 0
    /\ anchors = [t \in Tree |-> None]
    /\ posts = [t \in Tree |-> 0]
    /\ wire = {}
    /\ chain = {}

Rank == [s \in SendState |->
            CASE s = "AUTHORIZED" -> 0 [] s = "SEND_ATTEMPTED" -> 1
              [] s = "SUBMITTED" -> 2  [] s = "CONFIRMED" -> 3]

Latched(row) == row # None /\ Rank[row.state] >= 1

Exists(f) == {t \in Tree : f[t] # None}

\* last_authorized_checkpoint: the row of the last save, or the largest one.
LastAuthorized == IF lastAuth \in Exists(auth) THEN lastAuth
                  ELSE IF Exists(auth) = {} THEN 0 ELSE Max(Exists(auth))

\* What save_authorized_checkpoint decides from the row it has read.
SaveVerdict(seen, new) ==
    IF seen = None THEN "insert"
    ELSE IF Rank[new.state] < Rank[seen.state] THEN "refuse"
    ELSE IF Latched(seen) /\ None \notin {seen.expected, new.expected}
               /\ seen.expected # new.expected THEN "refuse"
    ELSE IF seen.signed = new.signed THEN "update"
    ELSE IF Latched(seen) THEN "refuse" ELSE "keep"

\* The UPDATE sets only what it was given, in whatever row is there now.
Updated(row, new) ==
    IF row = None THEN None
    ELSE [row EXCEPT !.state = new.state,
                     !.expected = IF new.expected = None THEN @ ELSE new.expected,
                     !.attempted = IF new.attempted = 0 THEN @ ELSE new.attempted]

\* Its write, of row new for tree t, after it read seen.
SaveAuthorized(t, seen, new) ==
    /\ CASE SaveVerdict(seen, new) = "insert" -> auth' = [auth EXCEPT ![t] = new]
         [] SaveVerdict(seen, new) = "update" -> auth' = [auth EXCEPT ![t] = Updated(@, new)]
         [] OTHER -> UNCHANGED auth
    /\ lastAuth' = IF SaveVerdict(seen, new) \in {"insert", "update"} THEN t ELSE lastAuth

\* The row it returns.
Saved(t, seen, new) ==
    LET now == CASE SaveVerdict(seen, new) = "insert" -> new
                 [] SaveVerdict(seen, new) = "update" -> Updated(auth[t], new)
                 [] OTHER -> seen
    IN  IF now = None THEN seen ELSE now

\* What save_confirmed_checkpoint decides from the pointer and row it has read.
ConfirmVerdict(last, row, t, txid) ==
    CASE t < last.size -> "conflict"
      [] t = last.size -> IF txid = last.txid THEN "same" ELSE "conflict"
      [] row # None    -> IF txid = row THEN "same" ELSE "conflict"
      [] OTHER         -> "insert"

\* Its write; the primary key refuses a row that is there by now.
SaveConfirmed(t, txid) ==
    IF anchors[t] = None
    THEN /\ anchors' = [anchors EXCEPT ![t] = txid]
         /\ confirmed' = [size |-> t, txid |-> txid]
    ELSE UNCHANGED <<anchors, confirmed>>

\* algod takes the transaction, or the request is lost on the way.
Post(t, txid) ==
    /\ posts' = [posts EXCEPT ![t] = @ + 1]
    /\ wire' \in {wire, wire \cup {<<t, txid>>}}
    /\ UNCHANGED chain

\* Faulty: a transaction the provider has, but no block, counts as confirmed.
FoundPending(t, txid) == <<t, txid>> \in wire

\* fetch_confirmed_txn and verify_fetched_anchor find the transaction.
Found(t, txid) == <<t, txid>> \in chain

\* A block takes a transaction from the pool, or never does.
Include ==
    /\ \E tx \in wire \ chain : chain' = chain \cup {tx}
    /\ UNCHANGED <<clock, tables, posts, wire>>

ClockTick ==
    /\ clock < MaxTime
    /\ clock' = clock + 1
    /\ UNCHANGED <<tables, network>>

StoreTypeOK ==
    /\ clock \in Time
    /\ auth \in [Tree -> AuthRow \cup {None}]
    /\ lastAuth \in Tree \cup {0}
    /\ anchors \in [Tree -> Request \cup {None}]
    /\ confirmed \in [size: Nat, txid: Request \cup {None}]
    /\ posts \in [Tree -> Nat]
    /\ wire \subseteq Tree \X Request
    /\ chain \subseteq wire
=============================================================================
