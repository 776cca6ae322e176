------------------------------ MODULE Catalog ------------------------------
(***************************************************************************)
(* The shadow catalog (live402/shadow.py) and its writers (catalog.py): the *)
(* trickle thread, which refreshes the rows of greatest value or else takes *)
(* one page of a cold sweep, and the requests, which write through what      *)
(* their searches returned.  Upstream catalogs change meanwhile.            *)
(*                                                                         *)
(* Clocks are kept as ages, up to the first age the code cannot tell from   *)
(* a greater one; one turn of the trickle loop is the unit of time.  Rows    *)
(* are written under shadow._lock on one connection, and a statement that   *)
(* raises is swallowed without a rollback, as in history.py.                *)
(***************************************************************************)
EXTENDS Integers, Sequences, FiniteSets, SequencesExt

CONSTANTS
    Url,
    Source,       \* upstream catalogs
    Terms,        \* what a listing claims: price and payee
    Nothing,      \* no source, no page, no request
    PageSize,     \* PAGE_SIZE, the limit asked for
    Clamp,        \* Source -> the limit it answers with
    Paginated,    \* sources whose answers carry "pagination"
    QueueLimit,   \* due_valued(3)
    HotRefresh, HotEligible, WarmEligible, ColdSweep, \* thresholds, in turns
    HighDemandMin,
    MaxEvents     \* bound: changes upstream, requests, probes, failures and crashes

ASSUME SourceAssumption == IsFiniteSet(Source) /\ Source # {} /\ Nothing \notin Source
ASSUME ClampAssumption == PageSize \in Nat /\ Clamp \in [Source -> 1 .. PageSize]
ASSUME BoundAssumption ==
    {HotRefresh, HotEligible, WarmEligible, ColdSweep, HighDemandMin, MaxEvents} \subseteq Nat
ASSUME QueueAssumption == QueueLimit \in Nat \ {0} /\ Paginated \subseteq Source

VARIABLES
    listing,  \* Source -> the listings upstream, in its order
    db,       \* the catalog as the connection sees it
    disk,     \* as committed
    trickle,  \* the trickle thread
    request,  \* a request that searches, or Nothing
    events

catalogVars == <<listing, db, disk, trickle, request, events>>

Listing == [url : Url, terms : Terms]
UrlsOf(s) == {listing[s][i].url : i \in DOMAIN listing[s]}

Old(threshold) == threshold + 1 \* older than the threshold, or NULL
Fresh == [fetched |-> 0, searched |-> Old(HotEligible), routed |-> Old(HotEligible),
          verified |-> Old(WarmEligible), changed |-> Old(WarmEligible)]
Row == [status : {"none", "active", "retired"},
        fetched : 0 .. Old(HotRefresh), searched : 0 .. Old(HotEligible),
        routed : 0 .. Old(HotEligible), verified : 0 .. Old(WarmEligible),
        changed : 0 .. Old(WarmEligible), probe : {"unknown", "ok", "failed"}]
\* A row of resource_sources with its accept_claims.  gen: the generation that saw the
\* row, as the code compares it: none, an earlier one, or the current one.
Claim == [gen : {"absent", "null", "old", "now"}, seen : 0 .. Old(ColdSweep), terms : SUBSET Terms]
\* never: the source has no row in source_state.
Sweep == [cursor : Nat, started : {"never", "no", "yes"}, done : 0 .. Old(ColdSweep)]

NoRow == [status |-> "none", fetched |-> Old(HotRefresh), searched |-> Old(HotEligible),
          routed |-> Old(HotEligible), verified |-> Old(WarmEligible),
          changed |-> Old(WarmEligible), probe |-> "unknown"]
NoClaim == [gen |-> "absent", seen |-> Old(ColdSweep), terms |-> {}]
Asleep == [pc |-> "sleep", todo |-> {}, source |-> Nothing, page |-> Nothing, got |-> {}]

\* The sources in a queue, the longest unswept first; at first in any one order.
Places == 1 .. Cardinality(Source)
Lined(p) == \A s, o \in Source : s # o => p[s] # p[o]

\* calm is no column: the sources whose listing has not changed since their sweep, as this
\* copy of the catalog has it, began.
CatalogInit ==
    /\ listing \in [Source -> {<<>>} \cup {<<l>> : l \in Listing}]
    /\ db = [row |-> [u \in Url |-> NoRow],
             claim |-> [s \in Source |-> [u \in Url |-> NoClaim]],
             sweep |-> [s \in Source |-> [cursor |-> 0, started |-> "never", done |-> Old(ColdSweep)]],
             place |-> CHOOSE p \in [Source -> Places] : Lined(p),
             calm |-> {}]
    /\ disk = db
    /\ trickle = Asleep
    /\ request = Nothing
    /\ events = 0

Commit(new) == db' = new /\ disk' = new

-----------------------------------------------------------------------------
(* What a writer does to the catalog. *)

Active(d) == {u \in Url : d.row[u].status = "active"}

\* _replace_claims writes an event when price, payee or rails of a source change.
Changed(d, s, u, terms) == d.claim[s][u].terms \notin {{}, terms}

\* _upsert_one.  A row that comes back is active again; only a sweep sets the generation.
Upserted(d, s, u, terms) ==
    [d.row[u] EXCEPT !.status = "active", !.fetched = 0,
                     !.changed = IF Changed(d, s, u, terms) THEN 0 ELSE @]
Claimed(claim, terms, gen) ==
    [gen |-> IF gen = "null" /\ claim.gen # "absent" THEN claim.gen ELSE gen,
     seen |-> 0, terms |-> terms]

\* upsert_items, one commit for all.
UpsertAll(d, s, items, gen) ==
    LET urls     == {l.url : l \in items}
        terms(u) == {l.terms : l \in {i \in items : i.url = u}}
    IN  [d EXCEPT
          !.row = [u \in Url |-> IF u \in urls THEN Upserted(d, s, u, terms(u)) ELSE @[u]],
          !.claim[s] = [u \in Url |-> IF u \in urls THEN Claimed(@[u], terms(u), gen) ELSE @[u]]]

\* Faulty: a sweep retires what its source dropped, listed elsewhere or not.
KeptByNone(d, s, u) == FALSE

KeptByOther(d, s, u) ==
    \E o \in Source \ {s} : d.claim[o][u].gen \in {"old", "now"} /\ d.claim[o][u].seen <= ColdSweep

\* _retire_unseen_unlocked
Unseen(d, s) ==
    {u \in Active(d) : d.claim[s][u].gen \in {"null", "old"} /\ ~KeptByOther(d, s, u)}

Retired(d, s) ==
    [d EXCEPT !.row = [u \in Url |-> IF u \in Unseen(d, s) THEN [@[u] EXCEPT !.status = "retired"]
                                     ELSE @[u]]]

\* begin_sweep
Begun(d, s) ==
    [d EXCEPT !.sweep[s] = [@ EXCEPT !.cursor = 0, !.started = "yes"],
              !.claim[s] = [u \in Url |-> IF @[u].gen = "now" THEN [@[u] EXCEPT !.gen = "old"]
                                          ELSE @[u]],
              !.calm = @ \cup {s}]

\* upsert_items raises: what was written stays in the open transaction.
PartOf(s, items) ==
    /\ \E part \in SUBSET items : db' = UpsertAll(db, s, part, "null")
    /\ UNCHANGED disk

-----------------------------------------------------------------------------
(* The queue of the trickle thread. *)

\* Faulty: the queue takes fresh rows too.
StaleOrNot(d) == Active(d)

Stale(d) == {u \in Active(d) : d.row[u].fetched > HotRefresh}

Searched(d) == {u \in Active(d) : d.row[u].searched <= HotEligible}

Disagreeing(d, u) ==
    /\ Cardinality({s \in Source : d.claim[s][u].terms # {}}) > 1
    /\ Cardinality(UNION {d.claim[s][u].terms : s \in Source}) > 1

\* _due_urls_for_reason, in the order of REFRESH_REASONS.  The three kinds of change are
\* one, and so are the capabilities; a reason scans QUEUE_SCAN rows, more than there are.
Due(d) ==
    << Stale(d) \cap Searched(d),
       {u \in Stale(d) : d.row[u].routed <= HotEligible},
       {u \in Stale(d) : Disagreeing(d, u)},
       {u \in Stale(d) : d.row[u].changed <= WarmEligible},
       {u \in Stale(d) : d.row[u].probe = "failed"},
       {u \in Stale(d) : d.row[u].verified > WarmEligible},
       IF Cardinality(Searched(d)) >= HighDemandMin THEN Stale(d) ELSE {} >>

\* The first QueueLimit rows.  Rows of one reason are ordered by clocks and names:
\* here by any order.
Valued(d) ==
    LET due  == Due(d)
        all  == UNION Range(due)
        size == IF Cardinality(all) < QueueLimit THEN Cardinality(all) ELSE QueueLimit
        rank == [u \in all |-> CHOOSE k \in DOMAIN due : u \in due[k] /\ \A j \in 1 .. k - 1 : u \notin due[j]]
    IN  {q \in SUBSET all : /\ Cardinality(q) = size
                            /\ \A u \in q, w \in all \ q : rank[u] <= rank[w]}

\* next_cold_source: a sweep under way first, then the longest unswept.
ColdSources(d) == {s \in Source : \/ d.sweep[s].started = "yes" /\ d.sweep[s].cursor > 0
                                  \/ d.sweep[s].done > ColdSweep}
NextCold(d) ==
    LET mid  == {s \in ColdSources(d) : d.sweep[s].started = "yes" /\ d.sweep[s].cursor > 0}
        pool == IF mid # {} THEN mid ELSE ColdSources(d)
    IN  IF pool = {} THEN Nothing ELSE CHOOSE s \in pool : \A o \in pool : d.place[s] <= d.place[o]

Older(age, threshold) == IF age > threshold THEN age ELSE age + 1
Aged(d) ==
    [row |-> [u \in Url |-> [d.row[u] EXCEPT
                 !.fetched = Older(@, HotRefresh), !.searched = Older(@, HotEligible),
                 !.routed = Older(@, HotEligible), !.verified = Older(@, WarmEligible),
                 !.changed = Older(@, WarmEligible)]],
     claim |-> [s \in Source |-> [u \in Url |->
                   [d.claim[s][u] EXCEPT !.seen = Older(@, ColdSweep)]]],
     sweep |-> [s \in Source |-> [d.sweep[s] EXCEPT !.done = Older(@, ColdSweep)]],
     place |-> d.place, calm |-> d.calm]

\* trickle_once after its sleep: the queue, else a source for one cold page, else nothing.
Turn ==
    /\ trickle.pc = "sleep"
    /\ LET now == Aged(db)
       IN /\ db' = now /\ disk' = Aged(disk)
          /\ \E q \in Valued(now) :
                trickle' = IF q # {} THEN [Asleep EXCEPT !.pc = "refresh", !.todo = q \X Source]
                           ELSE IF NextCold(now) = Nothing THEN Asleep
                           ELSE [Asleep EXCEPT !.pc = "cold", !.source = NextCold(now)]
    /\ UNCHANGED <<listing, request, events>>

\* What a search of s for u returns: some of what is listed, with u if it is.
Answers(s, u) ==
    LET all == {listing[s][i] : i \in DOMAIN listing[s]}
    IN  {got \in SUBSET all : u \in {l.url : l \in all} => u \in {l.url : l \in got}}

\* _refresh_url_claims asks each source for each row (here in any one order).
RefreshSearch ==
    /\ trickle.pc = "refresh"
    /\ LET p == CHOOSE x \in trickle.todo : TRUE
       IN \E got \in Answers(p[2], p[1]) :
             trickle' = [trickle EXCEPT !.pc = "answered", !.todo = @ \ {p}, !.source = p[2], !.got = got]
    /\ UNCHANGED <<listing, db, disk, request, events>>

RefreshUpsert ==
    /\ trickle.pc = "answered"
    /\ \/ Commit(UpsertAll(db, trickle.source, trickle.got, "null")) /\ UNCHANGED events
       \/ PartOf(trickle.source, trickle.got) /\ events < MaxEvents /\ events' = events + 1
    /\ trickle' = IF trickle.todo = {} THEN Asleep
                  ELSE [Asleep EXCEPT !.pc = "refresh", !.todo = trickle.todo]
    /\ UNCHANGED <<listing, request>>

-----------------------------------------------------------------------------
(* One page of a cold sweep: ingest_one_page. *)

BeginSweep ==
    /\ trickle.pc = "cold"
    /\ LET s == trickle.source
       IN IF db.sweep[s].started = "yes" THEN UNCHANGED <<db, disk>> ELSE Commit(Begun(db, s))
    /\ trickle' = [trickle EXCEPT !.pc = "fetch"]
    /\ UNCHANGED <<listing, request, events>>

\* begin_sweep raises and is ignored; a commit that raises leaves the transaction open.
BeginSweepRaises ==
    /\ trickle.pc = "cold" /\ db.sweep[trickle.source].started # "yes"
    /\ events < MaxEvents /\ events' = events + 1
    /\ db' \in {db, Begun(db, trickle.source)}
    /\ trickle' = [trickle EXCEPT !.pc = "fetch"]
    /\ UNCHANGED <<listing, disk, request>>

\* Faulty: the offset advances by the limit that was asked for.
StepAsked(s, items) == IF s \in Paginated THEN PageSize ELSE Len(items)

\* _step_offset: the limit upstream says it used, or the number of items.
StepOffset(s, items) == IF s \in Paginated THEN Clamp[s] ELSE Len(items)

\* parse_pagination and ingest_one_page.
IsLast(s, offset, items) ==
    \/ items = <<>>
    \/ IF s \in Paginated
       THEN offset + Len(items) >= Len(listing[s]) \/ offset + StepOffset(s, items) >= Len(listing[s])
       ELSE Len(items) < PageSize

FetchPage ==
    /\ trickle.pc = "fetch"
    /\ LET s      == trickle.source
           offset == db.sweep[s].cursor
           to     == offset + (IF s \in Paginated THEN Clamp[s] ELSE PageSize)
           items  == SubSeq(listing[s], offset + 1, IF to > Len(listing[s]) THEN Len(listing[s]) ELSE to)
       IN trickle' = [trickle EXCEPT !.pc = "ingest",
                         !.page = [items |-> ToSet(items), last |-> IsLast(s, offset, items),
                                   cursor |-> offset + StepOffset(s, items)]]
    /\ UNCHANGED <<listing, db, disk, request, events>>

\* fetch_failed
FetchFails ==
    /\ trickle.pc = "fetch"
    /\ events < MaxEvents /\ events' = events + 1
    /\ trickle' = Asleep
    /\ UNCHANGED <<listing, db, disk, request>>

Paged(d, s, cursor) ==
    [d EXCEPT !.sweep[s].cursor = cursor,
              !.sweep[s].started = IF @ = "never" THEN "yes" ELSE @]

\* s goes to the end of the queue.
Requeued(p, s) ==
    [o \in Source |-> IF o = s THEN Cardinality(Source) ELSE IF p[o] > p[s] THEN p[o] - 1 ELSE p[o]]

Completed(d, s) ==
    [d EXCEPT !.sweep[s] = [cursor |-> 0, started |-> "no", done |-> 0],
              !.place = Requeued(@, s)]

\* ingest_page: rows, cursor, and with the last page the retirements, in one commit.
IngestPage ==
    /\ trickle.pc = "ingest"
    /\ LET s    == trickle.source
           page == Paged(UpsertAll(db, s, trickle.page.items, "now"), s, trickle.page.cursor)
       IN Commit(IF trickle.page.last THEN Completed(Retired(page, s), s) ELSE page)
    /\ trickle' = Asleep
    /\ UNCHANGED <<listing, request, events>>

\* A statement raises: what was written stays in the open transaction.
IngestRaises ==
    /\ trickle.pc = "ingest"
    /\ events < MaxEvents /\ events' = events + 1
    /\ LET s    == trickle.source
           page == Paged(UpsertAll(db, s, trickle.page.items, "now"), s, trickle.page.cursor)
       IN db' \in {UpsertAll(db, s, part, "now") : part \in SUBSET trickle.page.items} \cup {page}
                   \cup (IF trickle.page.last
                         THEN {Retired(page, s), Completed(Retired(page, s), s)} ELSE {})
    /\ trickle' = Asleep
    /\ UNCHANGED <<listing, disk, request>>

-----------------------------------------------------------------------------
(* Requests, and what is outside. *)

\* query_for_need: every rail is searched, and the local index.  What only the index
\* has joins the hits of one of its sources, claims of all its sources included.
Search ==
    /\ request = Nothing
    /\ events < MaxEvents /\ events' = events + 1
    /\ \E found \in [Source -> SUBSET Listing], local \in SUBSET Active(db), rail \in Source :
          /\ \A s \in Source : found[s] \subseteq {listing[s][i] : i \in DOMAIN listing[s]}
          /\ \A u \in local : db.claim[rail][u].gen # "absent" /\ u \notin {l.url : l \in found[rail]}
          /\ request' = [todo |-> Source,
                hits |-> [found EXCEPT ![rail] = @ \cup
                  {l \in Listing : /\ l.url \in local
                                   /\ \E s \in Source : l.terms \in db.claim[s][l.url].terms}]]
    /\ UNCHANGED <<listing, db, disk, trickle>>

\* _write_through, one commit per rail (in any one order), then touch_searched.
WriteThrough ==
    /\ request # Nothing /\ request.todo # {}
    /\ LET s == CHOOSE x \in request.todo : TRUE
       IN /\ \/ Commit(UpsertAll(db, s, request.hits[s], "null")) /\ UNCHANGED events
             \/ PartOf(s, request.hits[s]) /\ events < MaxEvents /\ events' = events + 1
          /\ request' = [request EXCEPT !.todo = @ \ {s}]
    /\ UNCHANGED <<listing, trickle>>

TouchSearched ==
    /\ request # Nothing /\ request.todo = {}
    /\ LET urls == {l.url : l \in UNION {request.hits[s] : s \in Source}}
       IN Commit([db EXCEPT !.row = [u \in Url |-> IF u \in urls THEN [@[u] EXCEPT !.searched = 0] ELSE @[u]]])
    /\ request' = Nothing
    /\ UNCHANGED <<listing, trickle, events>>

\* mark_verified, and touch_routed when the resource was live.
Marked(row, ok) ==
    [row EXCEPT !.verified = 0, !.probe = IF ok THEN "ok" ELSE "failed", !.routed = IF ok THEN 0 ELSE @]
MarkVerified ==
    /\ events < MaxEvents /\ events' = events + 1
    /\ \E u \in Url, ok \in BOOLEAN :
          /\ db.row[u].status # "none"
          /\ Commit([db EXCEPT !.row[u] = Marked(@, ok)])
    /\ UNCHANGED <<listing, trickle, request>>

\* A seller is listed, delisted, or changes terms.  A resource is listed once.
Without(q, u) ==
    IF \E i \in DOMAIN q : q[i].url = u THEN RemoveAt(q, CHOOSE i \in DOMAIN q : q[i].url = u) ELSE q
ListingChanges ==
    /\ events < MaxEvents /\ events' = events + 1
    /\ \E s \in Source, l \in Listing :
          LET rest == Without(listing[s], l.url)
          IN /\ listing' \in {[listing EXCEPT ![s] = q] : q \in {rest, <<l>> \o rest, Append(rest, l)}}
             /\ db' = [db EXCEPT !.calm = @ \ {s}] /\ disk' = [disk EXCEPT !.calm = @ \ {s}]
    /\ UNCHANGED <<trickle, request>>

Crash ==
    /\ events < MaxEvents /\ events' = events + 1
    /\ db' = disk
    /\ trickle' = Asleep /\ request' = Nothing
    /\ UNCHANGED <<listing, disk>>

Trickle ==
    \/ Turn \/ RefreshSearch \/ RefreshUpsert
    \/ BeginSweep \/ BeginSweepRaises \/ FetchPage \/ FetchFails \/ IngestPage \/ IngestRaises

CatalogNext ==
    \/ Trickle
    \/ Search \/ WriteThrough \/ TouchSearched \/ MarkVerified
    \/ ListingChanges \/ Crash

CatalogSpec == CatalogInit /\ [][CatalogNext]_catalogVars /\ WF_catalogVars(Trickle)

-----------------------------------------------------------------------------
(* Properties. *)

\* A sweep that ends saw all its source lists, whatever limit the source answers with and
\* whatever failed on the way: no row it lists is left out or retired (_step_offset, the
\* generation of begin_sweep, and _retire_unseen_unlocked in one commit with the last page).
SweepEnds(s) ==
    /\ trickle.pc = "ingest" /\ trickle.source = s
    /\ db.sweep[s].done # 0 /\ db'.sweep[s].done = 0
SweepCovers == [][\A s \in db.calm : SweepEnds(s) => UrlsOf(s) \subseteq Active(db')]_catalogVars

\* What one source dropped stays, while another lists it and came past it in time: however
\* the sweeps interleave with failures, no row is retired that a sweep saw within ColdSweep
\* and would see again (the second query of _retire_unseen_unlocked).
SweptInTime(o, u) ==
    o \in db.calm /\ db.claim[o][u].gen \in {"old", "now"} /\ db.claim[o][u].seen <= ColdSweep
Retires(u) == u \in Active(db) /\ db'.row[u].status = "retired" /\ db' # disk \* not by a crash
ListedElsewhereStays ==
    [][\A u \in Url : Retires(u) => \A o \in Source : SweptInTime(o, u) => u \notin UrlsOf(o)]_catalogVars

\* As long as every active row is still listed somewhere, the refreshes of trickle_once
\* leave turns for the sweeps, and every source is swept again and again.
Findable == \A u \in Active(db) : \E s \in Source : u \in UrlsOf(s)
SweepsComeRound == \A s \in Source : []<>(~Findable \/ db.sweep[s].done = 0)

=============================================================================
