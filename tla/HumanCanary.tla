---------------------------- MODULE HumanCanary ----------------------------
(***************************************************************************)
(* The MainNet canary a human runs by hand: scripts/pq_mainnet_canary.py   *)
(* and live402/pq/canary.py, on the tables of AnchorStore.                 *)
(*                                                                         *)
(* Each command (discard, prepare, go, in this order) is a run of the      *)
(* script.  It may die at any commit, and be run again at any time.  While *)
(* it runs, and between two runs, the server appends to the log.           *)
(***************************************************************************)
EXTENDS AnchorStore

CONSTANTS
    Operator,       \* shells in which the script runs; also the serials of requests
    SnapshotMaxAge, \* how long a fee policy snapshot may be sent
    MaxDials        \* bound: requests put before the signer

ASSUME OperatorAssumption == Serial = Operator
ASSUME CanaryAgeAssumption == {SnapshotMaxAge, MaxDials} \subseteq Nat

VARIABLES
    tree,   \* size of the log, checkpoint signed
    run,    \* Operator -> what its run of the script is doing
    dials   \* requests put before the signer so far

vars == <<clock, tables, network, tree, run, dials>>

Command == {"discard", "prepare", "go"}
NoRun == [pc |-> "idle", todo |-> {}, size |-> 0, req |-> None, row |-> None, seen |-> None]

Init ==
    /\ StoreInit
    /\ confirmed = [size |-> 0, txid |-> None]
    /\ tree \in Tree
    /\ run = [o \in Operator |-> NoRun]
    /\ dials = 0

At(o, pc) == run[o].pc = pc
Hold(o, r) == run' = [run EXCEPT ![o] = r]
Goto(o, pc) == Hold(o, [run[o] EXCEPT !.pc = pc])
Exit(o) == Hold(o, NoRun)
Done(o, command) == Hold(o, [run[o] EXCEPT !.pc = "next", !.todo = @ \ {command},
                                           !.row = None, !.seen = None])
Quiet == UNCHANGED <<clock, tables, network, tree, dials>>

Start(o) ==
    /\ At(o, "idle")
    /\ \E todo \in (SUBSET Command) \ {{}} :
          Hold(o, [NoRun EXCEPT !.pc = "next", !.todo = todo])
    /\ Quiet

-----------------------------------------------------------------------------
(* --discard-authorized *)

\* Faulty: what was sent can be discarded too.
AnyDiscardable(row) == row # None

Discardable(row) == row # None /\ ~Latched(row)

Discard(o) ==
    LET t == LastAuthorized
    IN  /\ At(o, "next") /\ "discard" \in run[o].todo
        /\ \/ t = 0 /\ Done(o, "discard")
           \/ t # 0 /\ ~Discardable(auth[t]) /\ Exit(o)
           \/ /\ t # 0 /\ Discardable(auth[t])
              /\ Hold(o, [run[o] EXCEPT !.pc = "discard", !.size = t, !.seen = auth[t]])
        /\ Quiet

\* discard_authorized_checkpoint: deletes whatever is there by now.
Delete(o) ==
    LET t == run[o].size
    IN  /\ At(o, "discard")
        /\ auth' = [auth EXCEPT ![t] = None]
        /\ lastAuth' = IF lastAuth = t THEN 0 ELSE lastAuth
        /\ Done(o, "discard")
        /\ UNCHANGED <<clock, anchors, confirmed, network, tree, dials>>

-----------------------------------------------------------------------------
(* --prepare *)

Todo(o, command) ==
    /\ At(o, "next")
    /\ CASE command = "prepare" -> run[o].todo \cap {"discard", "prepare"} = {"prepare"}
         [] command = "go"      -> run[o].todo = {"go"}

\* authorize, for the checkpoint of now.
Authorize(o) ==
    LET row == auth[tree]
        usable == Latched(row) \/ clock <= row.signed.at + SnapshotMaxAge
    IN  /\ Todo(o, "prepare")
        /\ \/ /\ row = None
              /\ \E fee \in Fee :
                    Hold(o, [run[o] EXCEPT !.pc = "dial", !.size = tree,
                                !.req = [serial |-> o, at |-> clock, fee |-> fee]])
           \/ row # None /\ usable /\ Done(o, "prepare")
           \/ row # None /\ ~usable /\ Exit(o)
        /\ Quiet

Dial(o) ==
    /\ At(o, "dial")
    /\ dials < MaxDials
    /\ dials' = dials + 1
    /\ \/ Exit(o)
       \/ Hold(o, [run[o] EXCEPT !.pc = "persist", !.seen = auth[run[o].size]])
    /\ UNCHANGED <<clock, tables, network, tree>>

Persist(o) ==
    LET r   == run[o]
        new == [signed |-> r.req, state |-> "AUTHORIZED", expected |-> None, attempted |-> 0]
    IN  /\ At(o, "persist")
        /\ SaveAuthorized(r.size, r.seen, new)
        /\ IF SaveVerdict(r.seen, new) = "refuse" THEN Exit(o) ELSE Done(o, "prepare")
        /\ UNCHANGED <<clock, anchors, confirmed, network, tree, dials>>

-----------------------------------------------------------------------------
(* --go *)

\* Faulty: only an answered POST is polled, an ambiguous one is sent again.
PolledIfAnswered(row) == row.state = "SUBMITTED"

PolledOnly(row) == row.state \in {"SEND_ATTEMPTED", "SUBMITTED"}

\* send_persisted and send_durable, up to the latch.
Go(o) ==
    LET t == LastAuthorized
        row == auth[t]
        at(pc) == Hold(o, [run[o] EXCEPT !.pc = pc, !.size = t, !.row = row])
    IN  /\ Todo(o, "go")
        /\ \/ t = 0 /\ Exit(o)
           \/ t # 0 /\ row.state = "CONFIRMED" /\ Exit(o)
           \/ t # 0 /\ PolledOnly(row) /\ at("poll")
           \/ /\ t # 0 /\ row.state # "CONFIRMED" /\ ~PolledOnly(row)
              /\ IF clock > row.signed.at + SnapshotMaxAge THEN Exit(o) ELSE at("latch")
        /\ Quiet

\* mark_send_attempted, mark_submitted and the save of poll_expected: each
\* reads the row ...
Read(o) ==
    /\ run[o].pc \in {"latch", "answered", "found"}
    /\ Hold(o, [run[o] EXCEPT !.seen = auth[run[o].size],
                   !.pc = CASE @ = "latch" -> "marksent" [] @ = "answered" -> "marksub"
                            [] @ = "found" -> "markconf"])
    /\ Quiet

\* ... and writes it.
Write(o, new, next) ==
    LET r == run[o]
        saved == Saved(r.size, r.seen, new)
    IN  /\ SaveAuthorized(r.size, r.seen, new)
        /\ IF SaveVerdict(r.seen, new) = "refuse" \/ saved.signed # r.row.signed THEN Exit(o)
           ELSE Hold(o, [r EXCEPT !.pc = next, !.row = saved, !.seen = None])
        /\ UNCHANGED <<clock, anchors, confirmed, network, tree, dials>>

MarkAttempted(o) ==
    At(o, "marksent") /\ Write(o, [run[o].row EXCEPT !.state = "SEND_ATTEMPTED",
                                      !.expected = run[o].row.signed, !.attempted = clock], "post")
MarkSubmitted(o) ==
    At(o, "marksub") /\ Write(o, [run[o].row EXCEPT !.state = "SUBMITTED"], "poll")
MarkConfirmed(o) ==
    At(o, "markconf") /\ Write(o, [run[o].row EXCEPT !.state = "CONFIRMED"], "pointer")

PostOnce(o) ==
    /\ At(o, "post")
    /\ Post(run[o].size, run[o].row.signed)
    /\ Exit(o) \/ Goto(o, "answered")
    /\ UNCHANGED <<clock, tables, tree, dials>>

Poll(o) ==
    /\ At(o, "poll")
    /\ \/ Found(run[o].size, run[o].row.expected) /\ Goto(o, "found")
       \/ Exit(o)
    /\ Quiet

\* save_confirmed_checkpoint.
ReadPointer(o) ==
    LET r == run[o]
    IN  /\ At(o, "pointer")
        /\ IF ConfirmVerdict(confirmed, anchors[r.size], r.size, r.row.expected) = "insert"
           THEN Goto(o, "advance") ELSE Exit(o)
        /\ Quiet

AdvancePointer(o) ==
    /\ At(o, "advance")
    /\ SaveConfirmed(run[o].size, run[o].row.expected)
    /\ Exit(o)
    /\ UNCHANGED <<clock, auth, lastAuth, network, tree, dials>>

\* The run is killed, or a statement raises.
Die(o) == run[o].pc # "idle" /\ Exit(o) /\ Quiet

Grow ==
    /\ tree + 1 \in Tree
    /\ tree' = tree + 1
    /\ UNCHANGED <<clock, tables, network, run, dials>>

Next ==
    \/ (ClockTick \/ Include) /\ UNCHANGED <<tree, run, dials>>
    \/ Grow
    \/ \E o \in Operator :
          \/ Start(o) \/ Discard(o) \/ Delete(o) \/ Authorize(o) \/ Dial(o) \/ Persist(o)
          \/ Go(o) \/ Read(o) \/ MarkAttempted(o) \/ PostOnce(o) \/ MarkSubmitted(o)
          \/ Poll(o) \/ MarkConfirmed(o) \/ ReadPointer(o) \/ AdvancePointer(o) \/ Die(o)

Spec == Init /\ [][Next]_vars

-----------------------------------------------------------------------------
(* Properties *)

\* One operator never posts for a tree twice, however often a run dies and the
\* commands are given again (send_durable: after SEND_ATTEMPTED, poll only).
OnePostPerTree == \A t \in Tree : posts[t] <= 1

\* With one operator a latched row keeps its transaction and its txid and only
\* moves forward (save_authorized_checkpoint, discard_authorized_checkpoint).
LatchedForever ==
    [][\A t \in Tree : Latched(auth[t]) =>
          /\ auth'[t] # None
          /\ Rank[auth'[t].state] >= Rank[auth[t].state]
          /\ auth'[t].signed = auth[t].signed
          /\ auth'[t].expected = auth[t].expected]_vars

=============================================================================
