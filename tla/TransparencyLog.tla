-------------------------- MODULE TransparencyLog --------------------------
(***************************************************************************)
(* The append-only log behind a paid route: live402/pq/store.py (leaves,   *)
(* tree hashes, tiles, entry bundles, checkpoints) and the request path of *)
(* live402/pq/receipt.py that appends a route decision, publishes it,      *)
(* signs a checkpoint and returns a receipt.                               *)
(*                                                                         *)
(* Requests run in threads of one router.  Every call into the store holds *)
(* its lock, so a call is one step, except append, which commits the leaf  *)
(* before it publishes: a crash can fall between.  issue() holds no lock   *)
(* across its calls, so the calls of two requests interleave.              *)
(*                                                                         *)
(* The threads share one connection and a call that raises does not roll   *)
(* it back: `log` is what the connection reads, `disk` what is committed.  *)
(* Rows a failed call left are read by every later call, committed by the  *)
(* next commit, whosever it is, and lost in a crash, or when an automation *)
(* call finds the transaction open at its BEGIN IMMEDIATE and rolls back,  *)
(* or when SQLite itself gives the transaction up.                         *)
(*                                                                         *)
(* Bodies are the requests themselves: each event carries a salt and a     *)
(* nonce of its own.                                                       *)
(***************************************************************************)
EXTENDS Naturals, Sequences, FiniteSets, Merkle

CONSTANTS
  Request,     \* paid route calls that reach attach_to_route
  Bound,       \* those with require_route_binding: a v4 event
  OldBody,     \* bodies of leaves logged before the run
  OldSizes,    \* how many of them there may be
  TileWidth,   \* hashes in a full tile, a power of two (256 in the code)
  MaxCrashes,  \* bound: process deaths
  None

ASSUME RequestAssumption == Bound \subseteq Request /\ None \notin Request
\* A log that was there before: every body carries a salt and a nonce of its own.
ASSUME OldAssumption ==
  /\ Len(OldBody) \in Nat /\ OldBody = [i \in 1..Len(OldBody) |-> OldBody[i]]
  /\ OldSizes \subseteq 0..Len(OldBody)
  /\ \A i, j \in DOMAIN OldBody : OldBody[i] = OldBody[j] => i = j
  /\ \A i \in DOMAIN OldBody : OldBody[i] \notin Request
ASSUME TileAssumption == TileWidth \in Nat \ {0, 1}
\* A power of two: the largest one below its double.
ASSUME PowerAssumption == Split(2 * TileWidth) = TileWidth

VARIABLES
  log,      \* the tables as the process's connection reads them
  disk,     \* the tables as they are committed
  signer,   \* the Ed25519 log key is loaded
  up,       \* the router runs
  crashes,
  lock,     \* the request whose append is between commit and publish
  at,       \* step of each request in attach_to_route
  rec,      \* what append returned to it: [idx, size]
  signed,   \* the note issue() built for it
  refused,  \* requests whose issue() raised ReceiptError
  reply,    \* pq_trust.transparency of its response
  jobs      \* anchor identities frozen for the Falcon signer, oldest first

local  == <<lock, at, rec, signed, refused, reply>>
vars   == <<log, disk, signer, up, crashes, local, jobs>>

Empty == [x \in {} |-> None]
Note(size, root) == [size |-> size, root |-> root]

\* The tables: leaves from index 1 here and 0 in the code; ranges is tree_hashes;
\* tiles by <<level, n, width>>; bundles by <<n, width>>; notes is checkpoints, by
\* size; latest is meta 'checkpoint', served at /pq/log/checkpoint.
Tables(leaves, ranges, tiles, bundles, notes, latest) ==
  [leaves |-> leaves, ranges |-> ranges, tiles |-> tiles, bundles |-> bundles,
   notes |-> notes, latest |-> latest]

Size(t) == Len(t.leaves)
Hashes(t, s) == [i \in 1..s |-> LeafHash(t.leaves[i])]
IndexOf(body) == CHOOSE i \in 1..Size(log) : log.leaves[i] = body

Unavailable == [status |-> "unavailable"]
Logged(i)   == [status |-> "logged_uncheckpointed", index |-> i]
Pending(i, path, note) ==
  [status |-> "pending", index |-> i, path |-> path, checkpoint |-> note]

Steps == {"idle", "append", "publish", "republish", "sign", "save", "prove", "done"}

----------------------------------------------------------------------------
(* Tiles and entry bundles (live402/pq/tiles.py). *)

\* TILE_WIDTH ** level: the leaves below one entry of a tile of level l.
Span(l) ==
  LET span[k \in 0..l] == IF k = 0 THEN 1 ELSE TileWidth * span[k - 1]
  IN  span[l]

\* Faulty: a partial tile is not required.
FullTilesOnly(s) ==
  UNION { {<<l, n, TileWidth>> : n \in 0..((s \div Span(l + 1)) - 1)} : l \in 0..s }

\* Tiles a checkpoint of size s rests on, one level per power of TileWidth.
TilesRequired(s) ==
  UNION { LET full == s \div (Span(l) * TileWidth)
              part == (s \div Span(l)) % TileWidth
          IN  {<<l, n, TileWidth>> : n \in 0..(full - 1)}
                \cup {<<l, full, w>> : w \in {part} \ {0}}
        : l \in {l \in 0..s : Span(l) <= s} }

BundlesRequired(s) ==
  {<<n, TileWidth>> : n \in 0..((s \div TileWidth) - 1)}
    \cup {<<s \div TileWidth, w>> : w \in {s % TileWidth} \ {0}}

\* Faulty: the last entry covers all that is left of the tree.
TileHashesToEnd(hashes, l, n, w) ==
  [i \in 1..w |-> LET lo == (n * TileWidth + i - 1) * Span(l)
                      hi == IF i = w THEN Len(hashes) ELSE lo + Span(l)
                  IN  RootOf(SubSeq(hashes, lo + 1, hi))]

\* Entry i of a tile is the root of the full subtree it covers.
TileHashes(hashes, l, n, w) ==
  [i \in 1..w |-> LET lo == (n * TileWidth + i - 1) * Span(l)
                  IN  RootOf(SubSeq(hashes, lo + 1, lo + Span(l)))]

Bundle(t, n, w) == SubSeq(t.leaves, n * TileWidth + 1, n * TileWidth + w)

\* The rows _publish_unlocked writes for size s, replacing rows of equal key.
TileRows(t, s) ==
  [x \in TilesRequired(s) |-> TileHashes(Hashes(t, s), x[1], x[2], x[3])]
BundleRows(t, s) == [b \in BundlesRequired(s) |-> Bundle(t, b[1], b[2])]

Published(t, s) ==
  [t EXCEPT !.tiles = Written(TileRows(t, s), t.tiles),
            !.bundles = Written(BundleRows(t, s), t.bundles)]

\* The first rows of a publication: bundles in their order, then tiles level by level.
Firsts(keys) ==
  {{}} \cup {{k \in keys : k[1] < last[1] \/ (k[1] = last[1] /\ k[2] <= last[2])} : last \in keys}
PartlyPublished(t, s) ==
  {[t EXCEPT !.bundles = Written(Restrict(BundleRows(t, s), B), t.bundles)] :
      B \in Firsts(BundlesRequired(s))}
  \cup
  {[Published(t, s) EXCEPT !.tiles = Written(Restrict(TileRows(t, s), T), t.tiles)] :
      T \in Firsts(TilesRequired(s))}

\* _ready_unlocked
Ready(t, s) ==
  /\ s <= Size(t)
  /\ BundlesRequired(s) \subseteq DOMAIN t.bundles
  /\ TilesRequired(s) \subseteq DOMAIN t.tiles

----------------------------------------------------------------------------
(* attach_to_route, append_event and issue. *)

\* The store's lock is free, or the caller's own.
Free(r) == up /\ lock \in {None, r}

Answer(r, response) ==
  /\ at' = [at EXCEPT ![r] = "done"]
  /\ reply' = [reply EXCEPT ![r] = response]

Goto(r, step) == at' = [at EXCEPT ![r] = step] /\ UNCHANGED reply

\* A call ends in a commit, which takes along whatever a failed call left.
Commit(t) == log' = t /\ disk' = t

\* A call raises: the connection reads t from here on, and nothing is committed.
Abandon(r, t) ==
  /\ log' = t
  /\ Answer(r, Unavailable)
  /\ lock' = None
  /\ UNCHANGED <<disk, signer, up, crashes, rec, signed, refused, jobs>>

\* ReceiptError: a v4 event is never appended twice, a v3 one is.
Refuse(r) ==
  /\ IF r \in Bound THEN Answer(r, Unavailable) ELSE Goto(r, "append")
  /\ refused' = refused \cup {r}
  /\ UNCHANGED signed

\* The event is built, or the log is off or the evidence is refused.
Begin(r) ==
  /\ up /\ at[r] = "idle"
  /\ \/ Goto(r, "append")
     \/ Answer(r, Unavailable)
  /\ UNCHANGED <<log, disk, signer, up, crashes, lock, rec, signed, refused, jobs>>

InLog(r) == \E i \in 1..Size(log) : log.leaves[i] = r

\* The leaf and the hashes K that incremental_root has stored for it.
WithLeaf(t, r, K) ==
  LET s == Size(t) + 1
      u == [t EXCEPT !.leaves = Append(t.leaves, r)]
  IN  [u EXCEPT !.ranges = Stored(t.ranges, Hashes(u, s), K)]

\* All incremental_root stores, if the cache lacks no leaf but the new one.
Spine(t) == {<<Size(t), Size(t) + 1>>} \cup Missing(t.ranges, <<0, Size(t) + 1>>)

\* store.append up to its first commit; a leaf hash already present returns its row,
\* and the size of now.
AppendLeaf(r) ==
  /\ Free(r) /\ at[r] = "append"
  /\ IF InLog(r)
     THEN /\ rec' = [rec EXCEPT ![r] = [idx |-> IndexOf(r), size |-> Size(log)]]
          /\ Goto(r, "republish")
          /\ UNCHANGED <<log, disk, lock>>
     ELSE /\ Spine(log) \in Storable(log.ranges, Size(log) + 1)
          /\ Commit(WithLeaf(log, r, Spine(log)))
          /\ rec' = [rec EXCEPT ![r] = [idx |-> Size(log) + 1, size |-> Size(log) + 1]]
          /\ lock' = r
          /\ Goto(r, "publish")
  /\ UNCHANGED <<signer, up, crashes, signed, refused, jobs>>

\* append raises once its leaf is inserted: at a row, at the commit, or because the
\* cache lacks a leaf of before.
AppendFails(r) ==
  /\ Free(r) /\ at[r] = "append"
  /\ ~InLog(r)
  /\ \E t \in {disk} \cup {WithLeaf(log, r, K) : K \in Storable(log.ranges, Size(log) + 1)} :
       Abandon(r, t)

\* The publish_up_to inside append, still under append's lock.
PublishLeaf(r) ==
  /\ Free(r) /\ at[r] = "publish"
  /\ Commit(Published(log, rec[r].size))
  /\ lock' = None
  /\ Goto(r, "republish")
  /\ UNCHANGED <<signer, up, crashes, rec, signed, refused, jobs>>

\* append_event reads the leaf back and publishes again.  Without a log key,
\* or once issue() was refused, the answer is an unsigned leaf.
Republish(r) ==
  /\ Free(r) /\ at[r] = "republish"
  /\ Commit(Published(log, rec[r].size))
  /\ IF signer /\ r \notin refused THEN Goto(r, "sign") ELSE Answer(r, Logged(rec[r].idx))
  /\ UNCHANGED <<signer, up, crashes, lock, rec, signed, refused, jobs>>

\* Either publication raises at a row or at its commit.
PublishFails(r) ==
  /\ Free(r) /\ at[r] \in {"publish", "republish"}
  /\ \E t \in {disk} \cup PartlyPublished(log, rec[r].size) : Abandon(r, t)

\* Faulty: root() of the log as it is now.
RootNow(size) == RangeHash(log.ranges, Hashes(log, Size(log)), <<0, Size(log)>>)

\* The root issue() signs for the size its append returned.
RootFor(size) == RangeHash(log.ranges, Hashes(log, Size(log)), <<0, size>>)

\* issue() checks readiness and signs the root of the appended size.  Its ranges
\* are cached since the append, so root() stores none.
Sign(r) ==
  /\ Free(r) /\ at[r] = "sign"
  /\ IF Ready(log, rec[r].size)
     THEN /\ signed' = [signed EXCEPT ![r] = Note(rec[r].size, RootFor(rec[r].size))]
          /\ Goto(r, "save")
          /\ UNCHANGED refused
     ELSE Refuse(r)
  /\ UNCHANGED <<log, disk, signer, up, crashes, lock, rec, jobs>>

SizedNote(t, note) == [t EXCEPT !.notes = Written(Row(note.size, note), t.notes)]
Checkpointed(t, note) == [SizedNote(t, note) EXCEPT !.latest = note]

\* Faulty: an error of the two writes or of their commit is swallowed.
SaveUnchecked(r) ==
  /\ Free(r) /\ at[r] = "save"
  /\ IF Ready(log, signed[r].size)
     THEN /\ log' = Checkpointed(log, signed[r])
          /\ disk' \in {disk, log'}
          /\ Goto(r, "prove")
     ELSE Answer(r, Unavailable) /\ UNCHANGED <<log, disk>>
  /\ UNCHANGED <<signer, up, crashes, lock, rec, signed, refused, jobs>>

\* save_checkpoint writes the sized row and the latest one in one commit.
Save(r) ==
  /\ Free(r) /\ at[r] = "save"
  /\ IF Ready(log, signed[r].size)
     THEN Commit(Checkpointed(log, signed[r])) /\ Goto(r, "prove")
     ELSE Answer(r, Unavailable) /\ UNCHANGED <<log, disk>>
  /\ UNCHANGED <<signer, up, crashes, lock, rec, signed, refused, jobs>>

SaveFails(r) ==
  /\ Free(r) /\ at[r] = "save" /\ Ready(log, signed[r].size)
  /\ \E t \in {disk, SizedNote(log, signed[r]), Checkpointed(log, signed[r])} : Abandon(r, t)

\* Faulty: the path is read for the current size and not verified.
ProveNow(r) ==
  /\ Free(r) /\ at[r] = "prove"
  /\ Answer(r, Pending(rec[r].idx,
                       InclusionPath(log.ranges, Hashes(log, Size(log)), rec[r].idx - 1, Size(log)),
                       signed[r]))
  /\ UNCHANGED <<log, disk, signer, up, crashes, lock, rec, signed, refused, jobs>>

\* The inclusion path is read for the signed size and verified before it is
\* returned; it too is in the cache.
Prove(r) ==
  /\ Free(r) /\ at[r] = "prove"
  /\ LET i    == rec[r].idx
         s    == rec[r].size
         path == InclusionPath(log.ranges, Hashes(log, Size(log)), i - 1, s)
     IN  IF VerifyInclusion(i - 1, LeafHash(r), path, signed[r].root, s)
         THEN Answer(r, Pending(i, path, signed[r])) /\ UNCHANGED <<signed, refused>>
         ELSE Refuse(r)
  /\ UNCHANGED <<log, disk, signer, up, crashes, lock, rec, jobs>>

\* A call raises before it writes anything: response "unavailable".  An append
\* that failed to publish has committed its leaf all the same.
Fail(r) ==
  /\ Free(r) /\ at[r] \notin {"idle", "done"}
  /\ Abandon(r, log)

----------------------------------------------------------------------------
(* The process, its other users of the connection, and the anchor controller. *)

\* A commit that has nothing to do with the log (meta_set, the anchor tables).
OtherCommit ==
  /\ up /\ lock = None /\ log # disk
  /\ Commit(log)
  /\ UNCHANGED <<signer, up, crashes, local, jobs>>

\* An automation call raises at BEGIN IMMEDIATE, a transaction being open, and
\* rolls it back.
OtherRollback ==
  /\ up /\ lock = None /\ log # disk
  /\ Commit(disk)
  /\ UNCHANGED <<signer, up, crashes, local, jobs>>

\* root() of the log as it is, for the monitor or the controller: mth_range reads
\* the leaves it lacks and stores what it visits, without a commit.
ReadRoot ==
  LET K == Missing(log.ranges, <<0, Size(log)>>)
  IN  /\ up /\ lock = None /\ Size(log) > 0 /\ K # {}
      /\ log' = [log EXCEPT !.ranges = Stored(log.ranges, Hashes(log, Size(log)), K)]
      /\ UNCHANGED <<disk, signer, up, crashes, local, jobs>>

\* A death loses every request in progress, and what is not committed.
Crash ==
  /\ up /\ crashes < MaxCrashes
  /\ crashes' = crashes + 1
  /\ up' = FALSE
  /\ lock' = None
  /\ at' = [r \in Request |-> IF at[r] = "idle" THEN "idle" ELSE "done"]
  /\ log' = disk
  /\ UNCHANGED <<disk, signer, rec, signed, refused, reply, jobs>>

\* The next process may have no log key.  _connect publishes the current size
\* when it is not ready and swallows a failure to do so.
Restart ==
  /\ ~up
  /\ up' = TRUE
  /\ signer' \in BOOLEAN
  /\ IF Size(log) > 0 /\ ~Ready(log, Size(log))
     THEN \/ Commit(Published(log, Size(log)))
          \/ log' \in PartlyPublished(log, Size(log)) /\ UNCHANGED disk
     ELSE UNCHANGED <<log, disk>>
  /\ UNCHANGED <<crashes, local, jobs>>

Anchored == IF jobs = << >> THEN 0 ELSE Last(jobs).size

\* The size a proof of consistency starts from: the last anchor, or the size
\* before while nothing is anchored.
Floor(size) == IF Anchored = 0 THEN size - 1 ELSE Anchored

\* The checkpoint an automatic job carries: the sized row, never the latest.
JobNote(size) == IF size \in DOMAIN log.notes THEN log.notes[size] ELSE None

\* tick freezes a job: size read first, then root, sized checkpoint and proof
\* of consistency with the anchor before it.  The log may grow in between, so
\* size is any size the log has had.  The job is a row of a transaction of its own,
\* begun when none is open: what was read before its commit is gone again.
Freeze ==
  /\ up /\ lock = None
  /\ \E size \in (Anchored + 1)..Size(log) :
       /\ JobNote(size) # None
       /\ jobs' = Append(jobs,
            [size |-> size, root |-> RootFor(size), checkpoint |-> JobNote(size),
             path |-> ConsistencyPath(log.ranges, Hashes(log, Size(log)), Floor(size), size)])
  /\ Commit(disk)
  /\ UNCHANGED <<signer, up, crashes, local>>

----------------------------------------------------------------------------
\* A log of n leaves, each appended, published and signed in its turn.
Built(n) ==
  LET leaves == SubSeq(OldBody, 1, n)
      hs     == [i \in 1..n |-> LeafHash(OldBody[i])]
      root   == [s \in 1..n |-> Note(s, RangeHash(Empty, hs, <<0, s>>))]
  IN  Tables(leaves,
             [q \in UNION {Missing(Empty, <<0, s>>) : s \in 1..n} |-> RangeHash(Empty, hs, q)],
             [x \in UNION {TilesRequired(s) : s \in 0..n} |-> TileHashes(hs, x[1], x[2], x[3])],
             [b \in UNION {BundlesRequired(s) : s \in 0..n}
                |-> SubSeq(OldBody, b[1] * TileWidth + 1, b[1] * TileWidth + b[2])],
             root,
             IF n = 0 THEN None ELSE root[n])

Init ==
  /\ \E n \in OldSizes : log = Built(n)
  /\ disk = log
  /\ signer \in BOOLEAN
  /\ up = TRUE
  /\ crashes = 0
  /\ lock = None
  /\ at = [r \in Request |-> "idle"]
  /\ rec = [r \in Request |-> None]
  /\ signed = [r \in Request |-> None]
  /\ refused = {}
  /\ reply = [r \in Request |-> None]
  /\ jobs = << >>

Attach(r) ==
  \/ Begin(r) \/ AppendLeaf(r) \/ PublishLeaf(r) \/ Republish(r)
  \/ Sign(r) \/ Save(r) \/ Prove(r)
  \/ AppendFails(r) \/ PublishFails(r) \/ SaveFails(r) \/ Fail(r)

Process == Crash \/ Restart \/ OtherCommit \/ OtherRollback \/ ReadRoot \/ Freeze

Next == (\E r \in Request : Attach(r)) \/ Process

Spec == Init /\ [][Next]_vars

----------------------------------------------------------------------------
(* Properties. *)

Bodies == Request \cup {OldBody[i] : i \in DOMAIN OldBody}

\* Entry j of level l as a reader of the tiles of size s finds it: in a full
\* tile, or in the partial one whose width is what s leaves over.
TileWidthAt(l, n, s) ==
  LET rest == (s \div Span(l)) - n * TileWidth
  IN  IF rest >= TileWidth THEN TileWidth ELSE rest

TileEntry(l, j, s) ==
  LET n == j \div TileWidth
  IN  log.tiles[<<l, n, TileWidthAt(l, n, s)>>][(j % TileWidth) + 1]

BundleEntry(j, s) ==
  LET n == j \div TileWidth
  IN  log.bundles[<<n, TileWidthAt(0, n, s)>>][(j % TileWidth) + 1]

\* Every checkpoint that can be read, committed or not, can be rebuilt from the files
\* that can be read: the leaf tiles give its root, the entry bundles give the leaf
\* tiles, and an entry of a higher tile is the root of the full tile below it
\* (store.py: "Never checkpoint a size whose tiles/bundles are missing").
CheckpointsRebuild ==
  \A s \in DOMAIN log.notes :
    /\ BundlesRequired(s) \subseteq DOMAIN log.bundles
    /\ \A l \in 0..s : \A j \in 0..((s \div Span(l)) - 1) :
         /\ <<l, j \div TileWidth, TileWidthAt(l, j \div TileWidth, s)>> \in DOMAIN log.tiles
         /\ IF l = 0 THEN TileEntry(0, j, s) = LeafHash(BundleEntry(j, s))
            ELSE TileEntry(l, j, s) = RootOf(log.tiles[<<l - 1, j, TileWidth>>])
    /\ log.notes[s] = Note(s, RootOf([j \in 1..s |-> TileEntry(0, j - 1, s)]))

\* What is readable under one name twice reads the same, and what is on disk stays.
Stays(table) ==
  /\ \A k \in DOMAIN log[table] \cap DOMAIN log'[table] : log'[table][k] = log[table][k]
  /\ \A k \in DOMAIN disk[table] : k \in DOMAIN log'[table] /\ log'[table][k] = disk[table][k]

\* Whatever can be read under a name rests on leaves that are on disk, which only
\* grow: a file or note that was lost comes back the same.
Durable ==
  LET hs == Hashes(disk, Size(disk))
  IN  /\ \A x \in DOMAIN log.tiles :
           /\ (x[2] * TileWidth + x[3]) * Span(x[1]) <= Size(disk)
           /\ log.tiles[x] = TileHashes(hs, x[1], x[2], x[3])
      /\ \A b \in DOMAIN log.bundles :
           /\ b[1] * TileWidth + b[2] <= Size(disk)
           /\ log.bundles[b] = Bundle(disk, b[1], b[2])
      /\ \A s \in DOMAIN log.notes :
           s <= Size(disk) /\ log.notes[s] = Note(s, RangeHash(Empty, hs, <<0, s>>))

\* A tile or bundle, served as immutable for a year, never reads otherwise, and a
\* signed size is never signed with another root (http.handle, save_checkpoint):
\* not after a failed call left it uncommitted, nor when a crash or a rollback took
\* it and it is written again.
PublishedIsImmutable ==
  [][/\ IsPrefix(disk.leaves, disk'.leaves)
     /\ Stays("tiles") /\ Stays("bundles") /\ Stays("notes")
     /\ Durable']_vars

\* The log is append-only to a verifier: of any two checkpoints that can be read,
\* by whichever requests and across crashes, the later extends the earlier; and what
\* is sent to be anchored is the root of the frozen size, under the signed
\* checkpoint of that very size, with a proof that it extends the anchor before it
\* (store.consistency_proof, canary._automation_checkpoint_identity).
ConsistentHistory ==
  LET hs(s) == Hashes(log, s)
  IN  /\ \A m, n \in DOMAIN log.notes : m <= n =>
           VerifyConsistency(m, n, log.notes[m].root, log.notes[n].root,
                             ConsistencyPath(log.ranges, hs(Size(log)), m, n))
      /\ \A k \in DOMAIN jobs :
           /\ jobs[k].checkpoint = Note(jobs[k].size, jobs[k].root)
           /\ LET old == IF k > 1 THEN jobs[k - 1]
                         ELSE Note(jobs[1].size - 1, RootOf(hs(jobs[1].size - 1)))
              IN  VerifyConsistency(old.size, jobs[k].size, old.root, jobs[k].root, jobs[k].path)

\* The answer says what is on disk, whatever failed calls left and lost: "pending"
\* carries a receipt that verifies for the request's own leaf under a saved
\* checkpoint, "logged_uncheckpointed" the index of its durable leaf.  No event is
\* logged twice (receipt.py, module docstring and attach_to_route).
AnswersHold ==
  /\ \A i, j \in DOMAIN log.leaves : log.leaves[i] = log.leaves[j] => i = j
  /\ \A r \in Request : reply[r] # None /\ reply[r] # Unavailable =>
       /\ reply[r].index \in 1..Size(disk) /\ disk.leaves[reply[r].index] = r
       /\ reply[r].status = "pending" =>
            LET note == reply[r].checkpoint
            IN  /\ note.size \in DOMAIN disk.notes /\ disk.notes[note.size] = note
                /\ VerifyInclusion(reply[r].index - 1, LeafHash(r), reply[r].path, note.root, note.size)

=============================================================================
