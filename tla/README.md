# A TLA+ verification project for 402Signal

402Signal is a payment-gated router. A client sends `POST /route`; the server
discovers candidate x402 endpoints, probes them, picks a winner, and settles the
client's payment only when it has one. Every paid route may leave a
commitment in an append-only Merkle log, whose checkpoints are anchored on Algorand
with a Falcon key. The service is one Python process (`live402/server.py`, a
`ThreadingHTTPServer`) on one machine with one volume: one thread per request, a
catalog trickle thread, an anchor worker thread, and several sqlite files. Operators
run scripts against the same files.

The specifications here model what is stateful and hard to test in it: the
interleavings of request threads, what a crash leaves on disk, lost answers of the
facilitator, of the signer and of the chain, and the arithmetic of trees, tiles,
budgets and windows.

## 1. Inventory

| component | source | state | operations | what is hard | what makes it correct |
|---|---|---|---|---|---|
| paid route | `route.py` | none of its own | verify, probe, settle, attach the log's trust block | a settle call whose answer is lost | nobody is told something about the money that is not so |
| replay guard | `replay.py` | `_inflight`, `_completed`, `settle_ledger` on disk, one sqlite connection per process | `begin`, `wait_result`, `finish`, `durable_ready` | crashes between ledger, memory and money; two processes; a statement that fails and leaves a transaction open | an authorization is sent to be settled at most once |
| facilitator | external, through `facilitator.py` | the money | verify, settle | acts late, answers late or never | (environment) |
| transparency log | `pq/store.py`, `merkle.py`, `tiles.py`, `checkpoint.py` | leaves, tree hashes, tiles, entry bundles, checkpoints by size, the latest checkpoint | `append`, `publish_up_to`, `save_checkpoint`, `root`, proofs | commit and publish are two commits; sizes at powers of the tile width | whatever is signed can be rebuilt from what is published, for ever, and extends what was signed before |
| receipts | `pq/receipt.py` | none | `attach_to_route`, `append_event`, `issue` | no lock across the calls: other requests append in between; any call may raise | an answer says what holds |
| log reads | `pq/http.py` | none | tiles, bundles, checkpoints | served as immutable for a year | a published file never changes |
| automatic anchors | `pq/auto_anchor.py`, `canary.py`, `algo_anchor.py`, `store.py` | `anchor_automation_jobs`, `anchor_automation_sends`, `authorized_anchors`, `confirmed_anchors`, the signer, the chain | `tick`: reconcile, freeze, sign, reserve, post once, poll, confirm | death at any commit, lost POST, late confirmation, fee windows, another process | one POST per tree, within the budgets, and a record of everything sent |
| human canary | `pq/canary.py`, `scripts/pq_mainnet_canary.py` | `authorized_anchors`, `confirmed_anchors` | `discard`, `prepare`, `go` | run again after a death; the log grows meanwhile | after the latch nothing is rebuilt or sent again |
| anchor worker | `pq/worker.py` | the authorized row, the confirmed anchor, process lock, counters | `maybe_submit`, send, confirm, tick by tick | lost POST, restart between any two steps, a newer tree meanwhile | what was sent is recorded as confirmed, one anchor at a time |
| signer clients | `pq/signer_client.py`, `signer_mainnet.py`, checks in `algo_anchor.py` | none | authenticated request and answer, canonical payment | answers lost, late or for another request; two derivations of one fee and window | what is authorized is what was asked, and a sound answer is taken |
| probe | `probe.py` | global and per-host semaphores with eviction, in-flight counters | acquire, release, probe, tranches, early stop | answers in any order, some past the deadline | work is bounded and a miss says what happened |
| selection | `select.py`, `policy.py`, `economics.py`, `reputation.py` | none | compile, filter, score, compare, pick the option | partial orders, several notions of one price | what is served fits what was asked, by one and the same evidence |
| observation history | `history.py` | observations, batches, trusted state per URL, pending payee | record, seal, promote, prune | settlement and promotion are two commits; late settlement of older data | trust only from paid or own probes, newest wins |
| shadow catalog | `shadow.py`, `catalog.py` | rows, claims by source, sweeps, refresh queue | upsert, sweep, retire, refresh, write through | sweeps of several sources interleave with failures; priority over sweeps | a sweep misses nothing, what is still listed stays, sweeps come round |
| server | `server.py`, `http_body.py`, `mcp.py` | rate windows, handler semaphore | accept, dispatch, limit, release | threads that fail, silent clients, a full table | no slot is lost, a budget holds however it is spent |
| payments | `payment.py` | none | advertise, read, match, rewrite a payload | one field in several places and two versions | what is settled is what was advertised |
| proof-carrying route | `route_binding.py`, `pq/route_v4.py`, `sdk/route-guard/index.mjs` | none | bind, sign, verify twice | built before the charge, checked after it in another language; sellers change | whoever is charged can verify, and pays what was routed |
| discovery, hydration, pages | `hydrate.py`, `pulse.py`, `discover.py`, `rails.py`, ... | caches with a time to live | fetch, render | | |

**How they interact.** `server` calls `route.handle_route`, which asks `replay.begin`
whether this request owns the authorization. The owner matches the payment (`payment`),
verifies with the facilitator, calls the engine (catalog, hydrate, probe, select, history),
binds the quote if the client asked for that, settles,
calls `receipt.attach_to_route` and gives the outcome to `replay.finish`. The worker
thread calls `auto_anchor.tick`, which reads the log through `store` and shares
`authorized_anchors` and `confirmed_anchors` with the human canary. `http` and
`transparency` only read.

`PROJECT.json` lists the components with what is modelled of each ("components")
and what can go wrong where ("hazards"), with the properties that would catch it.

## 2. Modules

| module | models | lines of |
|---|---|---|
| `PaidOnce` | the promise of the paid route, abstractly | |
| `PaidRoute` | paid route, replay guard, facilitator | `route.py`, `replay.py`, `facilitator.py` |
| `PaidRouteProofs` | theorems about `PaidRoute` | |
| `Merkle` | RFC 9162 trees, proofs and their verification, the subtree cache | `pq/merkle.py` |
| `TransparencyLog` | log, receipts, what the anchor controller freezes; extends `Merkle` | `pq/store.py`, `receipt.py`, `tiles.py`, `checkpoint.py`, `canary.py` |
| `AnchorStore` | anchor tables, clock, transactions on the wire and in the chain | `pq/store.py`, `algo_anchor.py` |
| `AutoAnchor` | the controller; extends `AnchorStore` | `pq/auto_anchor.py`, `canary.py`, `store.py` |
| `AutoAnchorProofs` | theorems about `AutoAnchor` | |
| `HumanCanary` | the operator's script; extends `AnchorStore` | `pq/canary.py`, the script |
| `RouteHistory` | observation history under the requests that write it, the choice of a winner and its payee gate | `history.py`, `probe.py`, `select.py`, `route.py` |
| `Catalog` | shadow catalog, trickle thread, write-through of requests | `shadow.py`, `catalog.py` |
| `Reputation` | score and confidence of a seller | `reputation.py` |
| `Selection` | constraints, objectives, choice of a winner and of its option; extends `Reputation` | `select.py`, `economics.py`, `payment.py` |
| `RouteEngine` | one request from the need to the gate before the charge; extends `Selection` | `probe.py`, `route.py`, `policy.py`, `select.py`, `history.py` |
| `AnchorTxn` | fee, window, policy, reply and transaction of an anchor | `pq/algo_anchor.py`, `signer_mainnet.py`, `signer_client.py` |
| `AnchorWorker` | the worker and its exchange with the signer; extends `AnchorTxn` | `pq/worker.py`, `canary.py`, `store.py` |
| `FrontDoor` | handler slots, limiters, the reading of one request | `server.py`, `http_body.py`, `mcp.py` |
| `Payment` | what is advertised, matched and forwarded | `payment.py` |
| `Purchase` | one proof-carrying purchase, router and buyer; extends `Payment` | `route_binding.py`, `route.py`, `facilitator.py`, `pq/route_v4.py`, `sdk/route-guard/index.mjs` |
| `TransparencyLogProofs`, `RouteHistoryProofs`, `HumanCanaryProofs`, `AnchorWorkerProofs` | theorems about the module of that name | |
| `MarketProofs` | theorems about `Catalog` and about `Purchase` | |
| `RequestProofs` | theorems about `FrontDoor` and about `RouteEngine` with `Selection` | |
| `MC*` | instances for TLC: definitions for constants, symmetry | |

Operators that a comment marks `Faulty:`, or that only such operators use, are not
part of a specification. Each is a mutated form of the definition next to it (a
dropped guard, a wrong bound, a swapped order) and serves to show that a property
notices it: "mutants" of `PROJECT.json` pairs every checked property with one.

### 2.1 PaidRoute

A `Proc` is an interpreter: its lock, its dictionaries and its one sqlite
connection. A `Req` is a thread in one of them. `ledger` is the file. Steps under
`replay._lock` are one action for the threads of the process, but each sqlite statement is
an action of its own, because another process may write in between; `conn` carries
the transaction a failed statement leaves open (Python's `sqlite3` begins one before
the first write), with the snapshot its reads are pinned to.

`Begin*`, `NotInMemory`, `ReserveRun` and `ReserveRefused` are `replay.begin` branch by branch; the
`Execute` actions are `_paid_execute` from verify to the trust block, where the settle call
splits into sending (`SettlePost`), not sending (`SettleUnsent`) and the answers it
can give; `FinishMemory` and `FinishLedger` are `replay.finish`; `WaitEnds` is
`wait_result` with its timeout. `Forget` is the expiry of the response cache, `Crash` a
process death, `Resolve` the facilitator's decision, at any time after the send and
whether or not anybody still waits.

Fingerprints are model values: two payloads are the same authorization exactly when
`canonical_fingerprint` says so. `legacy` holds rows of the previous fingerprint
version, which the code refuses to run beside unless the cutover is acknowledged. That version
hashed the whole payload wrapper (`replay.py:239`), so such a row is found only by a request whose wrapper is the
one of then (`exact`); the same authorization in another wrapper misses it. After the acknowledgement such a request
is an authorization of its own to the guard and is sent to the facilitator. What the operator acknowledges is
`payto-rotated-or-legacy-authorizations-expired`, and `Expired` takes that at its word: the facilitator refuses the
authorization of a version-1 row, and the caller is told "not settled". So at most one settlement of a version-1
authorization after the cutover rests on that acknowledgement being true, and `OneDefiniteAnswer` and `PaidOnce` say
nothing of an expired authorization, whose old outcome a caller with another wrapper is not told.

### 2.2 Merkle and TransparencyLog

Hashes are terms of a free algebra: `LeafHash` and the inner node are injective with
disjoint images, which is collision resistance. Everything computed from them
(roots, inclusion and consistency paths, the client's verification, tile contents)
follows the code. Bodies are the requests themselves, since every event carries a fresh
salt and nonce. The subtree cache (`tree_hashes`) is a variable, and the operators that read
it use the cached hash where there is one, so that a cache filled wrongly shows.

Each call into the store holds an `RLock`; `append`
commits the leaf before it publishes and is two steps, with the lock held across. All threads share one connection, and
no call of the log rolls back: a leaf, a tile, a bundle or a note that a failed call wrote stays in the open transaction. So the
tables exist twice: `log` is what the connection reads, `disk` what is committed. `AppendFails`, `PublishFails` and `SaveFails`
leave any first part of their writes (a leaf with some of its tree hashes, the first bundles and tiles, one
or both rows of a checkpoint), or none of the transaction, where sqlite itself gives it up; `Fail` raises before any write.
Every later call reads what was left, any commit takes it along (`Commit`; `OtherCommit` is one that has nothing to do with the
log, such as `meta_set`), and a crash loses it, or an automation call, which finds the transaction open at its `BEGIN
IMMEDIATE` and rolls it back (`OtherRollback`). A leaf committed without its tree hashes makes later appends raise `missing leaf
hash` until somebody reads `root()` of the current size, which computes them (`ReadRoot`). A death loses all threads,
`Restart` repairs what `_connect` repairs, or fails to, and may come back without a log
key. `Freeze` is the part of the controller's tick that reads size, root, checkpoint and
consistency path in separate calls: it may take any size the log has had.
`issue()`'s fallback after a `ReceiptError` (`Refuse`, and the second append of a v3
event, which finds its leaf) needs a log that is not ready right after its own publication was committed, or a path that does
not verify. Neither happens, as the proof shows on its way; both are kept as the branches the code has.

### 2.3 AnchorStore, AutoAnchor and HumanCanary

Every commit is an action. A tick keeps what it has read in `ctl[c]`, including the row
that `save_authorized_checkpoint` reads before it writes, and judges time by the
clock it read when it began. A transaction is its request (serial, time,
fee): the controller computes the same txid the network will. `wire` holds what was posted,
`chain` what was mined; `Include` moves one to the other within its validity window or
never. `posts` counts calls of the submit function for a tree; a gate that refuses inside it counts
as a POST that is lost. `Die` is a death or an uncaught exception, sqlite errors
included. Tree 1 is anchored before the run by the human canary, as the controller
demands.

Triggers, retry delays, kill flags and the worker's back-off only delay or end a
tick, and a tick here may start, or not start, at any time; they are left out. The monthly
ceiling is one more fee window: `FeeWindows` is a set. Pruning is part of
`set_automatic_send_status` in the code and of `SetSend` here. `HALTED` is not final across processes: another
process in the middle of a send may still write its status over it.

`HumanCanary` runs any subset of discard, prepare and go, in the script's order, any
number of times, with a death possible at every commit and the log growing.

### 2.4 RouteHistory

`db` is the database as the process sees it, `disk` as it is committed. All writers share
one sqlite connection under `history._lock` (`writer`), and a statement that raises
(`PersistRaises`, `MarkRaises`) is swallowed without a rollback: `db` and `disk` differ
until the next writer commits what was left, or a death throws it away. A `Batch` is
the request with that batch id. `RouteNeed` is the probing and the choice of a winner up to
taking the lock; nothing it reads before is written by others. `WriteRow`, one
resource each, includes the pruning that ends `_write_probe_row`. `Refuse` and
`Settle` are the payee gate of `_billable_winner` and the settlement; `BeginMark`,
`ApplyRow`, `CommitMark` and `Touch` are `mark_batch_settled`, whose batch may have been
pruned in part or whole.

`accept_payTo_change` is chosen where it first matters. Row ids are drawn in the order of the
clock, so the newest rows are those of the highest ids; `ts` has seconds, and two
observations of one second are not ordered by the code (`ts <`), nor by the properties. Time
0 stands for NULL; `Prior` is what an earlier request established. Of a resource's
state the payee, pending payee and the clocks of checks are kept; the price and
schema clocks follow the same staleness test and feed nothing else. A probe's
observations are one flag: kept or capped.

### 2.5 Catalog

`db` and `disk` are as in `RouteHistory`, and for the same reason. `Turn` is the decision of
`trickle_once`: the refresh queue if it has anything due, otherwise a page of a cold sweep, otherwise
nothing. `RefreshSearch` and `RefreshUpsert` are `_refresh_url_claims`, one search and one commit per
source; `BeginSweep`, `FetchPage` and `IngestPage` are `ingest_one_page`, which reads the
cursor, fetches without the lock and commits rows, cursor and, with the last page, the
retirements. Each may fail (`BeginSweepRaises`, `FetchFails`, `IngestRaises`, with any part of the
statements applied). `Search`, `WriteThrough` and `TouchSearched` are a request in
`query_for_need`. Clocks are ages in turns of the trickle loop, cut where the code no longer
distinguishes them, so the model has no horizon; as an age no longer tells which of two overdue sources was swept
before the other, `place` keeps their order (`next_cold_source`). `listing` is upstream; `calm`, which is no column, records whose
listing stood still since its sweep began, without which nothing can be promised of it. Each copy has its own, because a
death that takes back `begin_sweep` goes back to the sweep before, which may have met another listing.

The scoring of hits, full-text search and the quota of outbound searches are left out. Rows
that only the local index finds join the hits of one source, as in the code.

### 2.6 Reputation, Selection and RouteEngine

`Reputation` and `Selection` are operators without state over the record of one probe: the
constraints a result passes (`Passes`), what it may be paid with (`Eligible`), the orders of
each objective (`CmpCheapest`, ...), the cut of `_cheapest_comparable_subset`, `PickWinner`,
`Picked` (`pick_selected_payment`), `EnoughEvidence`. Filters (`Only`), the bisection of `sorted()` (`Place`) and the options of a
challenge (`Observed`) are recursive functions, which a proof can unfold. Rates and scores are in per cent, prices
in units of USDC or of an unknown token.

`RouteEngine` is one request. `Discover` ranks a page and reorders its head by history;
`NextTranche`, `ProbeLands` and `TrancheDone` are the tranches with answers in any order, of which
those past the deadline may be lost; `Decide` chooses winner or miss; `Commit` writes the batch
and reads the winner's history back, `Gate` is `_billable_winner` over what is then known.
`DirectProbe` and `DirectDecide` are the request for one URL. `late` is the deadline, `moved`
others' settlements, which change the evidence at any step. A seller answers GET and POST as
its kind says. Slots, pinned addresses and fixtures appear as the replies "timeout" and "ssrf";
hydration has already happened to a page; an exception inside a worker is the miss it is turned into. The caps of tenure
and usage inside the score are taken as applied. `lowest_total_cost` has no winner whatever is probed and is
not among the requests.

### 2.7 AnchorTxn and AnchorWorker

`AnchorTxn` says what one anchor transaction must be (`Payment`: fee and window from a
snapshot or from the policy a request froze), which reply counts as authentic, which signed
transaction is valid, and what a fetched one proves. `AnchorWorker` runs it: on TestNet
`maybe_submit`, `Send` and `Confirm` tick by tick, on MainNet the exchange that `canary.authorize`
has with the signer (`DialMainnet`), whose row is then the business of `AutoAnchor`. `Answer` is a
signer that keeps the contract, `AnswerWrongly` one that does not or a reply of an earlier
request; `Receive` takes any reply there is, `GiveUp` none, `Recover` is a restart. Rounds
and fees move. The counters of `ops_state`, the back-off and the service-level clock are
left out; broadcasting is switched on.

### 2.8 FrontDoor

A connection is away, starting, reading its head, reading its body, at work, ending, or being told
503. `Accept` takes a slot before the thread exists, `StartFails` gives it back, `Release`
is the `finally` of the thread. `hits` is the ordered dictionary of each limiter, with
`_prune_key`, `_evict` and `allow` as the code has them, eviction order included; `started` is a
history of what was let in. `Kinds` says for each path which limiter it is charged to and
when: an `/mcp` call is charged once its body shows what it is. The server answers in HTTP/1.0
(`protocol_version` is not set), so a connection carries one request. A client sends, falls
silent, or drips: `Drip` is a receive that brings too little and renews the timeout of the socket, which is
per receive (`server.py:415`). A body's deadline is looked at between two reads only (`http_body.py:119`), so it does not
cut a drip off inside one; what ends it is that bytes are bounded (`Pieces` receives before a head or a body is complete).

### 2.9 Payment and Purchase

A payload is three layers of fields (top level, accepted object, nested), each with few values
that the code tells apart: an address in two spellings, a canonical amount and the same number
not as a string. `MatchAccept` and `Forwarded` follow `match_accept` and
`normalize_payload_for_facilitator`. Of the rails two stand for three.

`Purchase` follows one purchase: `Post`, `Verify`, `Probe`, `Bind` (`route_binding.build`, before
the charge), `Settle`, `Attach`, then the buyer's `Pay`, which reads a fresh challenge of the
seller and checks the answer as `index.mjs` does; in between time passes and the
answer may be replaced (`Differ`): by an unsigned one, by one that shows another binding beside the signed one, or by a
genuine signed answer of before, for this request or another, over any quote and any call. `VerifyRoute` (Python) and `Guard` (JavaScript)
are written each after its own source. The guard parses the whole response strictly (`index.mjs:423`: no integer beyond
2^53 - 1, no key twice, no lone surrogate, 24 levels), which `build` and `verify_route` do not: `safe`, chosen by `Probe`,
says whether the seller's data leaves a response it can read. `Forwarded` leaves an `accepted.currency` as the client sent it.
`maxTimeoutSeconds` is not modelled. Digests are the envelopes they digest, a signature is
a flag; both clocks are one.

## 3. Runs

| run | question | bounds | states |
|---|---|---|---|
| `paid_route` | answers, owners and rows stay consistent; implements `PaidOnce` | 2 processes, 3 requests, 1 authorization, 1 failed statement, 1 crash | 1.9 M |
| `paid_route_live` | cutover from every older ledger with the same or another wrapper, scopes, every request answered | 2 processes, 2 requests, 2 URLs, 1 fault, 1 crash | 425 k |
| `auto_anchor` | budgets, confirmation, every job ends | 1 controller, 2 trees, fees 2 and 3 under 2 per send and 3 per window, 4 instants, 1 bad answer, 1 death, fairness | 168 k |
| `auto_anchor_pair` | two processes on one database | 2 controllers, 1 tree, 4 instants, send rows deleted after 1, 1 death | 3.7 M |
| `human_canary` | one POST per tree, immutable latch | 1 operator, 2 trees, 3 dials, 4 instants | 170 k |
| `transparency_log` | checkpoints, tiles, history, answers, frozen jobs | 2 requests, logs of 0 and 3 leaves, any call half done, 2 crashes | 244 k |
| `route_history` | trust stems from payments, newest first; hashed batches only lose rows | 2 requests, 2 resources, 2 payees, caps 2 and 3, 1 fault | 4.7 M |
| `catalog` | sweeps miss nothing, retire nothing still listed, and come round | 2 resources, 2 sources, pages of 2, any 2 events | 207 k |
| `route_engine` | what is served fits, a miss is true | 3 candidates, tranches of 2 and 1, 9 kinds of seller, 3 pages, 10 requests | 1.2 M |
| `anchor_worker` | authorized as asked, sent is confirmed, one in flight | 2 trees, 2 dials, 3 rounds, 3 fees per byte, 2 instants | 1.3 M |
| `front_door` | slots, shared budgets, eviction, silent clients | 3 connections, 1 slot, 3 clients, tables of 2, 2 pieces | 113 k |
| `purchase` | what is settled was advertised, what is charged can be verified, what is paid was routed | every payload within two fields of a good one, 3 requests, 7 challenges, any earlier signed answer, 2 ticks of life | 34 k |

**Why the bounds are enough.** Two processes and three requests give the guard an owner, a
waiter in the same process and a rival in another one; one authorization is the
contended case, and different ones share nothing but the connection. One failed statement and one
crash reach every half-written state; `MaxFaults` and `MaxCrashes` count them.
`Tree = {2, 3}` gives the controller a tree to
supersede. A send may cost 2 (`FeeCap`) and a window of two ticks holds 3, so a fee of 3 is refused by itself and a second
fee of 2 by the window; `HourlyMax = 1` refuses a second send in an hour. `Retention = 2` with `MaxTime = 4` lets records be
pruned within the run, and the fee window is as long as the retention, the tightest case the assumption allows.
In `auto_anchor_pair`, `Retention = 1` and four instants let the row of a finished send be deleted while the other
process is in a tick; the job's row is never deleted. A gate that forgets the latch is caught there through a deletion only. `TileWidth = 2`
stands for 256: sizes 0 to 6 then cover full and partial tiles on three levels,
which the real width reaches at 65536 leaves. Two requests are one that fails half way and one that reads, commits or
publishes over what it left, twice over, since a crash may come between. One of them carries a v4 event (`Bound`).
In `route_history`, `u1` has an established payee and
`u2` none; both requests probe both, so either may hold the older observation and the
second sight of the new payee. A cap of 2 rows per resource and 3 in all, against five written,
evicts established, tentative and hashed rows; two seconds tell older from newer.
In `catalog` each clock has its threshold and one age beyond; one source clamps its page to less
than was asked for, so that an offset by the wrong step skips a row; two events (`MaxEvents`: changes upstream,
requests, probes, failures, crashes) are enough for a failure inside a sweep while the other source changes.
In `route_engine` a second tranche exists, so answers of the first can decide before the third candidate
is asked; the ten requests cover each objective that can have a winner, a lock on the rails, each kind of bound and
a direct URL. `anchor_worker` has a tree under way and a newer one, and a second dial for a late reply to meet.
`front_door` has no horizon: hits are ages up to the window and any number of requests may be sent; one slot against three
connections and two table places against three clients make both run out, and two pieces let a head and a body drip. In `purchase` a good payload with any one or two
fields changed, removed or moved shows each field that is read in one place and sent from another; the
seller's replies are pairs of header and body, at the probe and again at the payment.
Deadlock is not checked where the bounds (requests used up, clock at its end) stop
the system.

**Fairness.** `PaidRoute`: weak fairness of each thread. A thread
that can take a step takes one: Python schedules every runnable thread, every wait has a timeout, and so
has every network call. A crashed process does not have to come back.
`AutoAnchor`: weak fairness of the clock and of each controller's tick (the
worker loops for ever and a tick ends), and strong fairness of `PollFound`: asked again and again, a
provider in the end shows a transaction that is in a block. The liveness properties
speak of sends whose validity window ends inside `MaxTime`. `TransparencyLog`, `HumanCanary`,
`RouteHistory` and `Purchase` state safety only: a request may stop at any step, and neither an operator nor a buyer need come back.
`Catalog`: weak fairness of the trickle thread, which loops for ever. `RouteEngine` has only finite
behaviours, and its run checks for deadlock that each ends in an answer. `AnchorWorker`: weak fairness of `Send` and of `Confirm`: the loop keeps ticking, and a
provider asked again and again answers in the end. `FrontDoor`: weak fairness of each thread's
steps and of time; nothing is asked of clients.

### Properties

*PaidRoute.* `SettledAtMostOnce`: one settlement per authorization, also across the
cutover of fingerprints and under another wrapper. `OneDefiniteAnswer`: no two callers hear different ones.
`OneGuardedOwner`: an executing request is alone among all processes and stands
on a durable row. `OutcomeStaysInScope`: no
outcome for another URL. `EveryRequestAnswered`. `ImplementsPaidOnce`: refinement, with
`phase` from `money` and from what was said: sent once, and what was said about the money stays true.

*TransparencyLog.* `CheckpointsRebuild`: from published files alone a reader gets the
signed root, level by level. `PublishedIsImmutable`: what is readable under a name, committed or left by a failed call, rests on
committed leaves and never reads otherwise; what a crash takes comes back the same. `ConsistentHistory`: any two
checkpoints extend each other, and what is anchored is under the signed checkpoint of that very size and
extends the previous anchor. `AnswersHold`: the index and the checkpoint told are on disk, the receipt verifies, no event is logged twice.

*AutoAnchor.* `OnePostPerTree`, `BudgetKept` (over all that was ever reserved, whatever was pruned since),
`ConfirmedOnChain`, `JobsEnd` (nothing stays unsigned, latched or unrecorded).

*HumanCanary.* `OnePostPerTree`, `LatchedForever`.

*RouteHistory.* `UnpaidLeavesNoTrace`: what is trusted goes back to a paid request, on disk and in the open
transaction. `PayeeNeedsTwoPayments`: an established payee gives way only to one that two paid
requests saw. `NewestTrustedWins`: promotions in any order end in the newest observation, and
none is lost. `SealedOnlyLoses`: a batch whose hash is out gains and alters no row.

*Catalog.* `SweepCovers`: a sweep that ends has seen all its source lists. `ListedElsewhereStays`: the end
of one source's sweep retires nothing another one lists and swept in time. `SweepsComeRound`: as long
as every active row can be found somewhere, no source waits for ever.

*RouteEngine.* `ServedFits`: option, payee, rail, price, bounds and history of what is charged for agree with each
other and with the request, at the time of the gate. `CheapestServed`: nothing probed and eligible was cheaper.
`MissIsTrue`: nothing usable was seen, and the reason given is the reason. `NoLeapfrog`: history
never moves a candidate before a substantially better match.

*AnchorWorker.* `AnchorsAsAsked`: what is authorized answers the recorded request at its frozen fee, and what is
sent is the anchor of its tree. `SoundAnswerTaken`: router and signer never disagree about the one
canonical payment. `OneInFlight`, `SubmittedIsConfirmed`.

*FrontDoor.* `SlotsConserved`, `SlotComesBack`, `WindowKept` (one budget whichever path spends it),
`LiveForgottenOnlyWhenFull`.

*Purchase.* `PaidForOffered`: what is forwarded is an advertised accept and what the client signed (rail, address, amount, token, and
the version if the top level names one), and every field the router rewrites agrees with it in every copy. `ChargedCanVerify`: until it
expires, a charged answer passes `verify_route`, and passes the buyer's guard too if the guard can read the response.
`PaysWhatWasRouted`: whatever is put in place of the answer, what is paid was routed, signed, for this request, and is not expired.

### Met while modelling

Where the code and its documents, or the code and what one would expect, part. The models do
what the code does, so the properties above are the ones that hold all the same.

* `handle_route` returns a cached or awaited outcome without looking at the presenting request's
  `require_transparency` (`route.py:610`), so it may hand out the unlogged 200 of another request; the docstring of
  `_transparency_ok` (`route.py:369`) says that is never success. In `PaidRoute` a strict and a
  lenient request on one authorization do it in any order.
* `canary.authorize` looks only at the row of the current tree (`canary.py:405`). After a lost POST and one
  more leaf, `prepare` asks the signer for another transaction, which the module's docstring
  (`canary.py:23`) rules out. The automatic controller does hold back.
* `issue()` saves its checkpoint in a call of its own (`store.py:743`). A appends leaf 1, B leaf 2, B saves size 2,
  A saves size 1: the latest checkpoint (`/pq/log/checkpoint`) is the smaller one until the next route is
  logged. Receipts and consistency are not affected.
* `route_need` picks the winner before any result carries `payTo_pending` (`probe.py:2657`), so the filter in
  `pick_winner` (`select.py:1056`) never applies; the gate then refuses, and the request ends unbilled although
  it probed a stable candidate. As nothing settles, the next one fails the same way.
* An active row that every source has dropped is due at each turn of the trickle loop, because a
  refresh that finds nothing changes nothing (`catalog.py:1364`); the queue is then never empty, no sweep is
  taken, and only a sweep would retire the row. `README.md:190` promises a cadence of sweeps. Hence `Findable`
  in `SweepsComeRound`.
* `merge_constraints` overlays the body on the compiled wording key by key (`policy.py:244`): "under 500ms" compiles
  to `max_probe_latency_ms` and its alias, and the first outranks a `max_latency_ms` of 200 in the body, against
  "Structured body keys win" (`policy.py:223`).
* `_recent` (`reputation.py:369`) does not read the dates that history writes, so a dated change never costs stability.
* A payee that a seller names first and another that it names in the picked option are refused
  by the gate; `cheapest` with a lock on the networks compares prices off those networks too;
  `EnoughEvidence` may stop a search with unmet constraints and candidates unprobed; `fastest_settlement` reads the first
  option only. Probes that found no slot count as probed (`discover.py:1244`).
* Against "never forward a conflicting value beside the canonical accepted object" (`payment.py:1620`), a
  `maxAmountRequired` at the top level beside an accepted object goes on as the client wrote it (`payment.py:1617`).
  Against "The router and the facilitator must classify the same payment payload." (`payment.py:1351`), a payload that names its
  version only inside the accepted object is matched as v1 and forwarded with version 2 at the top (`payment.py:1629`). `PaidForOffered`
  leaves these two fields out, as the code does.
* A seller's amount beyond 2^53 - 1, or another value the guard's strict parse refuses, passes `build` and `verify_route`: the buyer is
  charged for an answer its own guard does not read (`index.mjs:423`).
* The transparency store never rolls back (2.2): an event whose caller was told "unavailable" may be logged later by the commit of
  another request, and half an append can stop all later ones (`missing leaf hash`, `merkle.py:186`) until `root()` is read.
* The ledger rows of fingerprint version 1 are keyed by the payload wrapper (2.1), so after the cutover only the facilitator, not the
  guard, stands between such an authorization and a second settlement.
* On TestNet a POST whose answer is lost is sent again and refused as known, so the transaction is never confirmed and
  newer trees wait; a signed transaction that lapses blocks them too; and a request that fell back to the
  latest note conflicts for ever with the one for its size. `SubmittedIsConfirmed` therefore speaks of rows whose POST
  was answered.
* Eviction moves the live keys it passes to the recent end, so a limiter forgets in another order than least recently used
  (`server.py:113`); the second `_evict` of `allow` never runs.
* `next_cold_source` keeps choosing a source that fails; a page whose sweep could not begin stays in the old generation;
  a row listed by one source, claimed earlier by another that dropped it, may be retired and come back.
* A binding may expire while the charge settles, since `Ttl` may be one second; the fee stays charged, as documented.
* With two processes on one database, `save_authorized_checkpoint` reads a row and updates it in a
  later statement without testing it again, so a latched row may read `AUTHORIZED` afterwards.
  Production runs one writer, and `auto_anchor_pair` shows that no second POST follows.
* `attestation_for` seals a batch against later writes, but the caps still delete from it, so
  the hash of an old batch can change or vanish. `SealedOnlyLoses` states what is left of the promise.
* Tentative rows count under the same caps as trusted ones and can evict them
  (the URL's trusted state itself is not touched).
* `persist_route_batch` and `mark_batch_settled` return on an exception and leave their transaction
  open. A batch that could not be written sets no payee flag, so its winner is billed.

## 4. Proofs

TLAPS proves the following, for every value of the constants the modules' assumptions admit: any number
of processes, threads, requests, trees, clients or buyers, and no bound on faults, crashes or lost
calls. Each component's proof has one inductive invariant (or one per theme), a lemma per group of actions that
shows that the step keeps it, and a theorem per property. Except where a hypothesis is named below, nothing is
assumed beyond the `ASSUME`s of the model.

**`PaidRouteProofs`.** `TypeCorrect`, `GuardHolds` (`OneGuardedOwner`), `AtMostOneSettlement`. The inductive
invariant is `TypeInv`, the types with what each step relies on (which fields a thread at `pc` has,
what a connection's view may hold), together with `OneGuardedOwner`: whoever is between reservation and ledger is
the only one, the row it reserved is on disk, and `attempts` is 0 until that owner sends. `SettledAtMostOnce`
alone is not inductive: a state with an unsent authorization and two owners
satisfies it and leads to a second settlement.
`OneAnswer` (`OneDefiniteAnswer`) and `AnswerInScope` (`OutcomeStaysInScope`) rest on `StoryInv`: every place that can
speak of an authorization (a caller that was answered, a flight in memory, a cached response, a committed row, a row in
an open transaction) holds, if it says anything definite, what the owner was told, and the scope it was told under. The property speaks only of
callers, and a row that said something else would reach one in the next step. `RouteKeepsPromise` is the
refinement of `PaidOnce`, initial state and step by step, from the same invariant.

**`RouteHistoryProofs`.** `HistoryHolds` is the inductive invariant, `TypeInv /\ HistoryInv`; from it follow
`NothingUnpaidIsTrusted`, `NewestObservationWins` and `HashedOnlyLoses`, and, as an action property,
`PayeeChangesOnSecondSight`. The properties look at what is committed. The invariant has
to say the same of the open transaction (a later writer may commit it), of the request in the middle
of its rows (which of them it wrote, and that none is newer than its clock), and of sealed batches whose rows the caps have
partly deleted; and it has to tell what a promotion has applied from what it has still to apply.

**`AutoAnchorProofs`.** `TypeCorrect`. `AtMostOnePost` (`OnePostPerTree`): a tree
without a send row has never been posted; one with a row was posted at
most once; a tick at the POST holds the reservation of a tree not yet posted; two ticks at the
POST hold different trees. That a tree once reserved is not reserved again has two reasons. With one controller, the latch
that a reservation leaves in `authorized_anchors` and the job it belongs to outlive the send row, whatever is deleted (`LatchInv`);
with several, the send row itself stays as long as no record is old enough to be deleted (`KeptInv`). The hypothesis is
`NoStaleTick`: one of the two. Several controllers and deletion together are only model-checked, with two
processes on one tree (`auto_anchor_pair`). `OnlyMinedConfirmed` (`ConfirmedOnChain`): what a tick carries from the provider's
answer to the commit is in the chain, and the chain never forgets (`TraceInv`). `WithinBudget` (`BudgetKept`): the sum over
every reservation ever made in a window is the sum over the rows left (`SpendInv`), because a deleted row is older than any window
that the clock can still open. That is where the hypothesis `NoStaleTick` comes from: a tick counts by the clock it read
when it began, so with a second process deleting meanwhile it might count too little; the theorem is for one
controller, or for several while nothing is deleted.

**`HumanCanaryProofs`.** `OneOperatorPostsOnce` (`OnePostPerTree`) and `LatchIsForever` (`LatchedForever`), under
`OneOperator`, that two runs of the script do not interleave. `CanaryInv` ties what the script holds in its variables to
the row it came from, and the posts of a tree to the latch of its row: none while the row can still be discarded or signed anew.

**`AnchorWorkerProofs`.** `StoredAsAsked`, `SoundNeverRefused`, `OneAnchorAtATime`. `AnchorInv` says of every
reply under way which request it answers, and of every stored row and POST that it is the canonical payment of a
recorded request; late and repeated replies make the property alone fail to be inductive. That no honest
answer is refused needs the arithmetic of fees and windows on both sides, for any rounds and any fee per byte.

**`RequestProofs`, on `FrontDoor`.** `NoSlotLost` (`SlotsConserved`): the holders of a slot are counted with the permits. `BudgetsHold`
(`WindowKept`): `BudgetInv` says that each table is a dictionary of at most `MaxKeys` keys and that the history of what a client was let in
is, as long as it has live hits and was not evicted, what its entry holds; the lemmas on the way say what pruning, eviction and `allow` do to an arbitrary table.
`ForgetsOnlyWhenFull` is the action property `LiveForgottenOnlyWhenFull`. The filter of live hits is a recursive function, so that
its value can be reasoned about for ages of any length.

**`RequestProofs`, on `RouteEngine`.** `ServedAsAsked` (`ServedFits`), `CheapestIsServed` (`CheapestServed`), `MissesAreTrue`
(`MissIsTrue`) and `HistoryKeepsOrder` (`NoLeapfrog`), for any catalogs, sellers and requests, any number of candidates, and tranches, ceilings
and caps of any size. Most of it is about operators. `Sorted` is Python's binary insertion sort under comparators that are not
transitive, so nothing can be said of the order in general; `SortedBy` shows that it is a permutation, and that it rises by any value
per candidate with which the comparator agrees (`Agrees`) wherever the bisection asks. Among candidates that all have a price in USDC,
`_cmp_cheapest` agrees with the least price seen (`ComparableIs` says why all have one), so the first is of the least price, and
`CheapestOption` that its option is too. Other lemmas on the way: a page arranged by
keys that differ in their last entry keeps every listing (`ArrangedKeeps`), a cluster never reaches below `CloseScore` (`OpensIs`), an unmet
constraint is named exactly when a payable result does not pass (`UnmetIsNotPassing`).
The invariant is `AskedInv /\ SearchInv /\ AnswerInv`. `SearchInv`: every result tells of its seller what the seller's challenge says
(`Told`); each candidate given to a tranche is in flight, has landed or is collected, unless the deadline cut a tranche off; the tranche under
way fits under the ceiling. Without the second, a search whose index has run past the shortlist could call itself complete with answers
missing; without the third, the ceiling could be passed when a tranche lands. `AnswerInv`: between the choice and the gate the winner may
get new evidence from history, but stays told truly, with its row among those compared; a miss that was true when it was written
stays so. The assumptions are on the data: scores and counts are integers, amounts natural numbers, a valid accept has a known rail,
and no record is `None`.

**`MarketProofs`, on `Catalog`.** `SweepsMissNothing` (`SweepCovers`) and `ListedIsKept` (`ListedElsewhereStays`), for any finite set
of sources, any listings, limits and page sizes, and no bound on changes, failures and crashes. Both rest on `SweepInv`, which
`SweepsAreInOrder` shows to be inductive. It says of either copy of the catalog that each listing a sweep has passed is active
and of the sweep's generation (`PassedSoFar`), and of a page in hand that it leaves out nothing between the cursor and where it
will be (`PageInv`). Alone this is not inductive: another sweep that ended meanwhile could retire what this one has passed. `Swept`
excludes that: only the longest unswept source is ever under way, and it stays due until it is done, although the cursor,
the start and the end of a sweep are written by different commits. For a crash the file's copy must say
the same, and its sweeps must be at least as old as those of the connection. The proof found an error of the model: `calm` was one set for both
copies, which a crash did not take back with the catalog, so that `SweepCovers` was false beyond the two events of the
run (TLC then showed it in 22 steps, with one source and five events). It also asked for the queue of sources as a function (`place`),
not a sequence.

**`MarketProofs`, on `Purchase`.** `ForwardsOffered` (`PaidForOffered`) holds of every payload that the fields of `Payment` can form, not
only of those near a good one; `ChargedIsUsable` (`ChargedCanVerify`) shows that the two verifiers accept what `build` made;
`PaysRouted` (`PaysWhatWasRouted`) that an answer put in place of the router's gets no payment. `PurchaseInv` ties the binding,
the evidence and the buyer's own request together.

**`TransparencyLogProofs`.** `AnswersAreTrue` (`AnswersHold`), `FilesNeverChange` (`PublishedIsImmutable`),
`CheckpointsCanBeRebuilt` (`CheckpointsRebuild`) and `HistoryIsConsistent` (`ConsistentHistory`), for any
requests, tiles of any width that is a power of two and any log that was there before. `LogInv` says that the tables as the connection reads them and as they are committed are each good and the first extends the second
(`Sound(log, disk)`), and what each request may rely on. `Sound` has four parts. `LeavesInv`: the leaves are distinct.
`CacheInv`: every cached hash is the hash of its range of leaves, however many of the ranges of a failed append were stored.
`FilesInv`: a tile or bundle is a function of the leaves it covers, all of which are there, so that publishing it again
(late, for an older size, or at start) writes what it already holds. `NotesInv`: a note is the root of its size, whose files are there, so a
second checkpoint of a size is the first. Files and notes rest on leaves of `disk`, not only of `log`: a publication or a checkpoint
is for a size whose leaf is committed, so what a crash takes can only come back the same. `OwnInv`: what a thread carries from `append` to
`prove` is the place of its own committed leaf and a checkpoint that is saved, however many others append, fail or roll back in between.
Each action is one of three moves of the two tables (write and commit, write and leave, undo), and each move keeps `Sound`. What
else has to be shown is that the recursive tables (the split of a tree, the visits and hashes of the cached range, the span of a tile) are
defined at all, that a tile that is required fits under the size it is required for, and that inclusion paths verify at every place
(`InclusionVerifies`). `OldAssumption` says of the older log that its leaves are
distinct and not those of the requests; salt and nonce see to that.

`CheckpointsRebuild` and `ConsistentHistory` follow from the same invariant. The tree of a full tile is then the tree over its entries, level by
level, because a range that begins and ends on a tile splits on one: this is where the width must be a power of two. For
consistency, `ConsistencyVerifies` shows for all `m <= n` that the client's verification accepts what `PROOF(m, D[n])` yields. The
path is recursive over subtrees and the verifier runs over the bits of `m - 1` and `n - 1`, so the lemma says for each subtree on the way down in which
state the verifier is once it has consumed that subtree's part of the path (`OnTheWay`, `Reached`), by induction over the width of
the range (`TreeInduction`). `HistoryInv` then carries the anchored checkpoints: each is the signed one of its size, and the path frozen
with it is the path from its predecessor, though the log grew between the reads. The proof found that the model's table of consistency paths was
declared over all ranges, where its recursion has no solution (a range of one leaf splits into itself); it is now over the ranges
around the older size, which is all that `PROOF` visits.

Induction in all these proofs is by the least counterexample (`LeastNatural`, or the smallest bad subset in the lemmas on sums
of `AutoAnchorProofs`), since the provers cannot instantiate the library's induction theorems.

**Only model-checked.** Liveness, and what it takes from fairness: `EveryRequestAnswered`, `JobsEnd`, `SweepsComeRound`,
`SubmittedIsConfirmed`, `SlotComesBack`, and that each search ends in an answer. Each of the other
properties the runs check has a theorem.

## 5. Not modelled

Parsing and formatting (payment headers, JSON canonicalisation, note text, bundle
bytes, transactions), TLS, address pinning and HTTP itself; generated documents and
pages; hydration; the probe's semaphores (a semaphore just handed out still counts as released until it is
acquired, `probe.py:268`, so a full table may evict it and a host then has two); start-up identity checks; backup scripts. Two operators of the
one-shot script at once post the same bytes twice, of which the chain takes one: `HumanCanary` has one. Cryptography is ideal. sqlite is assumed to commit
atomically and to survive a process death. Durations appear only where a comparison
of times decides something.

## 6. Plan

Done: the paid route first, since it moves money; the anchor tables, which
spend it; the log both rest on; the history, which decides whom a
customer is sent to pay; then the catalog, the engine and its ranking, the anchor worker, the front door,
and the payment with the proof-carrying purchase; then the safety of all of these, proved. Left: the
probe's host slots, if their eviction changes.
