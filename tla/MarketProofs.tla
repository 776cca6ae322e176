---------------------------- MODULE MarketProofs ----------------------------
(***************************************************************************)
(* Proofs about the two ends of the market: Catalog, which keeps what      *)
(* sellers list, and Purchase, in which one of them is paid.               *)
(*                                                                         *)
(* Catalog, for any sources, listings and page sizes: a sweep that ends    *)
(* saw all its source lists, and no row is retired that another source     *)
(* lists and was swept for in time.                                        *)
(*                                                                         *)
(* Purchase, for every set of payloads, requests, challenges and calls:    *)
(* what the router forwards is what it offers and what the client signed;  *)
(* a buyer is charged only for a binding it can use; and it pays the       *)
(* seller only for what the router chose.                                  *)
(***************************************************************************)
EXTENDS Catalog, Purchase, SequenceTheorems, FiniteSetTheorems, WellFoundedInduction, TLAPS

\* A set of natural numbers that is not empty has a least element.
LEMMA LeastNatural ==
    ASSUME NEW T \in SUBSET Nat, T # {}
    PROVE  \E m \in T : \A n \in T : m <= n
<1> DEFINE R == OpToRel(<, Nat)
<1>1. IsWellFoundedOn(R, Nat)
  BY NatLessThanWellFounded
<1>2. \A x, y \in Nat : x < y => <<x, y>> \in R
  BY DEF OpToRel
<1> HIDE DEF R
<1>3. PICK x \in T : \A y \in T : <<y, x>> \notin R
  BY <1>1, WFMin
<1>4. ASSUME NEW y \in T PROVE x <= y
  <2>1. x \in Nat /\ y \in Nat /\ <<y, x>> \notin R
    BY <1>3
  <2>2. ~(y < x)
    BY <1>2, <2>1
  <2> QED BY <2>1, <2>2
<1> QED BY <1>4

-----------------------------------------------------------------------------
(* The invariant of Catalog *)

\* A copy of the catalog: the connection's, or the file's.
Copy == [row : [Url -> Row], claim : [Source -> [Url -> Claim]], sweep : [Source -> Sweep],
         place : [Source -> Places], calm : SUBSET Source]

\* Only the longest unswept source is ever under way, and it stays due until it is done.
First(d, s) == \A o \in Source : d.place[s] <= d.place[o]
Swept(d) ==
    /\ Lined(d.place)
    /\ \A s, o \in Source : d.place[s] < d.place[o] => d.sweep[o].done <= d.sweep[s].done
    /\ \A s \in Source : d.sweep[s].cursor > 0 => First(d, s) /\ d.sweep[s].done > ColdSweep

\* What a sweep has passed is active, and of this sweep's generation.
Passed(d, s, u) == d.row[u].status = "active" /\ d.claim[s][u].gen = "now"
PassedSoFar(d) ==
    \A s \in d.calm : \A i \in DOMAIN listing[s] :
        i <= d.sweep[s].cursor => Passed(d, s, listing[s][i].url)

CopyInv(d) == d \in Copy /\ Swept(d) /\ PassedSoFar(d)

Page == [items : SUBSET Listing, last : BOOLEAN, cursor : Nat]

\* The page in hand leaves out nothing between the cursor and where it will be.
PageInv ==
    LET s == trickle.source
    IN  s \in db.calm => \A i \in DOMAIN listing[s] :
            i > db.sweep[s].cursor /\ (i <= trickle.page.cursor \/ trickle.page.last)
                => listing[s][i] \in trickle.page.items

TrickleInv ==
    /\ trickle \in [pc : {"sleep", "refresh", "answered", "cold", "fetch", "ingest"},
                    todo : SUBSET (Url \X Source), source : Source \cup {Nothing},
                    page : Page \cup {Nothing}, got : SUBSET Listing]
    /\ trickle.pc \in {"answered", "cold", "fetch", "ingest"} => trickle.source \in Source
    /\ trickle.pc = "refresh" => trickle.todo # {}
    /\ trickle.pc \in {"cold", "fetch", "ingest"} =>
          First(db, trickle.source) /\ db.sweep[trickle.source].done > ColdSweep
    /\ trickle.pc = "ingest" => trickle.page \in Page /\ PageInv

RequestInv ==
    request # Nothing => request \in [todo : SUBSET Source, hits : [Source -> SUBSET Listing]]

\* What is written and not yet committed is at most newer.
StoreInv ==
    /\ listing \in [Source -> Seq(Listing)]
    /\ CopyInv(db) /\ CopyInv(disk)
    /\ \A s \in Source : db.sweep[s].done <= disk.sweep[s].done

SweepInv == StoreInv /\ TrickleInv /\ RequestInv

-----------------------------------------------------------------------------
(* The operators of Catalog *)

\* The ages of one clock keep their order.
LEMMA OlderKeeps ==
    ASSUME NEW t \in Nat, NEW a \in 0 .. Old(t), NEW b \in 0 .. Old(t)
    PROVE  /\ Older(a, t) \in 0 .. Old(t)
           /\ a <= b => Older(a, t) <= Older(b, t)
           /\ a > t => Older(a, t) > t
BY DEF Older, Old

\* A source that is least in the queue is alone there.
LEMMA FirstIsOne ==
    ASSUME NEW d \in Copy, Lined(d.place), NEW s \in Source, NEW o \in Source,
           First(d, s), First(d, o)
    PROVE  s = o
<1>1. d.place[s] \in Int /\ d.place[o] \in Int
  BY SourceAssumption, FS_CardinalityType DEF Copy, Places
<1>2. d.place[s] <= d.place[o] /\ d.place[o] <= d.place[s]
  BY DEF First
<1> QED BY <1>1, <1>2 DEF Lined

LEMMA CatalogBounds ==
    /\ HotRefresh \in Nat /\ HotEligible \in Nat /\ WarmEligible \in Nat /\ ColdSweep \in Nat
    /\ PageSize \in Nat /\ \A s \in Source : Clamp[s] \in 1 .. PageSize
    /\ Cardinality(Source) \in Nat
BY BoundAssumption, ClampAssumption, SourceAssumption, FS_CardinalityType

\* What is listed has an address.
LEMMA ListedUrls ==
    ASSUME listing \in [Source -> Seq(Listing)], NEW s \in Source, NEW i \in DOMAIN listing[s]
    PROVE  listing[s][i] \in Listing /\ listing[s][i].url \in Url
<1>1. listing[s] \in Seq(Listing)
  OBVIOUS
<1>2. listing[s][i] \in Listing
  BY <1>1, ElementOfSeq
<1> QED BY <1>2 DEF Listing

\* _upsert_one and _upsert_source
LEMMA UpsertAllFields ==
    ASSUME NEW d \in Copy, NEW s \in Source, NEW items \in SUBSET Listing, NEW gen \in {"now", "null"}
    PROVE  LET e == UpsertAll(d, s, items, gen)
           IN  /\ e \in Copy
               /\ e.sweep = d.sweep /\ e.place = d.place /\ e.calm = d.calm
               /\ \A o \in Source : o # s => e.claim[o] = d.claim[o]
               /\ \A u \in Url : /\ d.row[u].status = "active" => e.row[u].status = "active"
                                 /\ e.row[u].status = "retired" => d.row[u].status = "retired"
                                 /\ d.claim[s][u].gen = "now" => e.claim[s][u].gen = "now"
               /\ \A l \in items : /\ e.row[l.url].status = "active"
                                   /\ gen = "now" => e.claim[s][l.url].gen = "now"
<1> DEFINE urls     == {l.url : l \in items}
           terms(u) == {l.terms : l \in {i \in items : i.url = u}}
           rows     == [u \in Url |-> IF u \in urls THEN Upserted(d, s, u, terms(u)) ELSE d.row[u]]
           claims   == [u \in Url |-> IF u \in urls THEN Claimed(d.claim[s][u], terms(u), gen)
                                      ELSE d.claim[s][u]]
           e        == UpsertAll(d, s, items, gen)
<1>1. e = [d EXCEPT !.row = rows, !.claim[s] = claims]
  BY DEF UpsertAll
<1>2. \A u : terms(u) \subseteq Terms
  BY DEF Listing
<1>3. \A u \in Url : /\ Upserted(d, s, u, terms(u)) \in Row
                     /\ Upserted(d, s, u, terms(u)).status = "active"
  <2> SUFFICES ASSUME NEW u \in Url
               PROVE  /\ Upserted(d, s, u, terms(u)) \in Row
                      /\ Upserted(d, s, u, terms(u)).status = "active"
    OBVIOUS
  <2>1. d.row[u] \in Row
    BY DEF Copy
  <2>2. 0 \in 0 .. Old(HotRefresh) /\ 0 \in 0 .. Old(WarmEligible)
    BY CatalogBounds DEF Old
  <2> DEFINE changed == Changed(d, s, u, terms(u))
  <2>3. Upserted(d, s, u, terms(u)) =
            [d.row[u] EXCEPT !.status = "active", !.fetched = 0, !.changed = IF changed THEN 0 ELSE @]
    BY DEF Upserted
  <2> HIDE DEF changed
  <2> QED BY <2>1, <2>2, <2>3 DEF Row
<1>4. \A u \in Url : /\ Claimed(d.claim[s][u], terms(u), gen) \in Claim
                     /\ (gen = "now" \/ d.claim[s][u].gen = "now") =>
                           Claimed(d.claim[s][u], terms(u), gen).gen = "now"
  <2> SUFFICES ASSUME NEW u \in Url
               PROVE  /\ Claimed(d.claim[s][u], terms(u), gen) \in Claim
                      /\ (gen = "now" \/ d.claim[s][u].gen = "now") =>
                            Claimed(d.claim[s][u], terms(u), gen).gen = "now"
    OBVIOUS
  <2>1. d.claim[s][u] \in Claim
    BY DEF Copy
  <2> QED BY <1>2, <2>1, BoundAssumption DEF Claimed, Claim, Old
<1>5. rows \in [Url -> Row] /\ claims \in [Url -> Claim]
  BY <1>3, <1>4 DEF Copy
<1>6. e = [row |-> rows, claim |-> [d.claim EXCEPT ![s] = claims], sweep |-> d.sweep,
           place |-> d.place, calm |-> d.calm]
  BY <1>1 DEF Copy
<1>7. urls \subseteq Url
  BY DEF Listing
<1>8. \A u \in Url : rows[u].status = IF u \in urls THEN "active" ELSE d.row[u].status
  BY <1>3
<1>9. e.row = rows /\ e.claim = [d.claim EXCEPT ![s] = claims]
  BY <1>6
<1>10. e.claim[s] = claims
  BY <1>9 DEF Copy
<1>11. e \in Copy
  <2>1. [d.claim EXCEPT ![s] = claims] \in [Source -> [Url -> Claim]]
    BY <1>5 DEF Copy
  <2>2. /\ d.sweep \in [Source -> Sweep] /\ d.place \in [Source -> Places]
        /\ d.calm \in SUBSET Source
    BY DEF Copy
  <2> HIDE DEF rows, claims, e
  <2> QED BY <1>5, <1>6, <2>1, <2>2 DEF Copy
<1>12. \A u \in Url : /\ d.claim[s][u].gen = "now" => claims[u].gen = "now"
                      /\ u \in urls /\ gen = "now" => claims[u].gen = "now"
  BY <1>4
<1> HIDE DEF rows, claims, e
<1>13. \A o \in Source : o # s => e.claim[o] = d.claim[o]
  BY <1>9 DEF Copy
<1>14. e.sweep = d.sweep /\ e.place = d.place /\ e.calm = d.calm
  BY <1>6
<1>15. \A l \in items : l.url \in urls
  OBVIOUS
<1>16. \A u \in Url : /\ d.row[u].status = "active" => e.row[u].status = "active"
                      /\ e.row[u].status = "retired" => d.row[u].status = "retired"
                      /\ d.claim[s][u].gen = "now" => e.claim[s][u].gen = "now"
  BY <1>8, <1>9, <1>10, <1>12
<1>17. \A l \in items : /\ e.row[l.url].status = "active"
                        /\ gen = "now" => e.claim[s][l.url].gen = "now"
  BY <1>7, <1>8, <1>9, <1>10, <1>12, <1>15
<1> QED BY <1>11, <1>13, <1>14, <1>16, <1>17 DEF e

\* Writing through what a search returned disturbs no sweep.
LEMMA UpsertAllKeeps ==
    ASSUME NEW d, CopyInv(d), listing \in [Source -> Seq(Listing)],
           NEW s \in Source, NEW items \in SUBSET Listing, NEW gen \in {"now", "null"}
    PROVE  CopyInv(UpsertAll(d, s, items, gen))
<1> DEFINE e == UpsertAll(d, s, items, gen)
<1>1. d \in Copy /\ Swept(d) /\ PassedSoFar(d)
  BY DEF CopyInv
<1>2. /\ e \in Copy /\ e.sweep = d.sweep /\ e.place = d.place /\ e.calm = d.calm
      /\ \A o \in Source : o # s => e.claim[o] = d.claim[o]
      /\ \A u \in Url : /\ d.row[u].status = "active" => e.row[u].status = "active"
                        /\ d.claim[s][u].gen = "now" => e.claim[s][u].gen = "now"
  BY <1>1, UpsertAllFields
<1> HIDE DEF e
<1>3. Swept(e)
  BY <1>1, <1>2 DEF Swept, First
<1>4. \A o \in Source, u \in Url : Passed(d, o, u) => Passed(e, o, u)
  BY <1>2 DEF Passed
<1>5. d.calm \subseteq Source
  BY <1>1 DEF Copy
<1>6. \A o \in Source : \A i \in DOMAIN listing[o] : listing[o][i].url \in Url
  BY ListedUrls
<1>7. PassedSoFar(e)
  BY <1>1, <1>2, <1>4, <1>5, <1>6 DEF PassedSoFar
<1> QED BY <1>2, <1>3, <1>7 DEF CopyInv, e

\* One more turn of the trickle loop.
LEMMA AgedKeeps ==
    ASSUME NEW d, CopyInv(d), listing \in [Source -> Seq(Listing)]
    PROVE  /\ CopyInv(Aged(d))
           /\ Aged(d).place = d.place
           /\ \A u \in Url : Aged(d).row[u].status = d.row[u].status
           /\ \A s \in Source : /\ Aged(d).sweep[s].cursor = d.sweep[s].cursor
                                /\ Aged(d).sweep[s].done = Older(d.sweep[s].done, ColdSweep)
<1> DEFINE a == Aged(d)
<1>1. d \in Copy /\ Swept(d) /\ PassedSoFar(d)
  BY DEF CopyInv
<1>2. a.place = d.place /\ a.calm = d.calm
  BY DEF Aged
<1>3. /\ a.row \in [Url -> Row]
      /\ \A u \in Url : a.row[u].status = d.row[u].status
  <2> DEFINE older(u) == [d.row[u] EXCEPT
                 !.fetched = Older(@, HotRefresh), !.searched = Older(@, HotEligible),
                 !.routed = Older(@, HotEligible), !.verified = Older(@, WarmEligible),
                 !.changed = Older(@, WarmEligible)]
  <2>1. a.row = [u \in Url |-> older(u)]
    BY DEF Aged
  <2>2. ASSUME NEW u \in Url PROVE older(u) \in Row /\ older(u).status = d.row[u].status
    <3>1. d.row[u] \in Row
      BY <1>1 DEF Copy
    <3>2. /\ Older(d.row[u].fetched, HotRefresh) \in 0 .. Old(HotRefresh)
          /\ Older(d.row[u].searched, HotEligible) \in 0 .. Old(HotEligible)
          /\ Older(d.row[u].routed, HotEligible) \in 0 .. Old(HotEligible)
          /\ Older(d.row[u].verified, WarmEligible) \in 0 .. Old(WarmEligible)
          /\ Older(d.row[u].changed, WarmEligible) \in 0 .. Old(WarmEligible)
      BY <3>1, OlderKeeps, CatalogBounds DEF Row
    <3> QED BY <3>1, <3>2 DEF Row
  <2> HIDE DEF older
  <2> QED BY <2>1, <2>2
<1>4. /\ a.claim \in [Source -> [Url -> Claim]]
      /\ \A s \in Source, u \in Url : a.claim[s][u].gen = d.claim[s][u].gen
  <2> DEFINE older(s, u) == [d.claim[s][u] EXCEPT !.seen = Older(@, ColdSweep)]
  <2>1. a.claim = [s \in Source |-> [u \in Url |-> older(s, u)]]
    BY DEF Aged
  <2>2. ASSUME NEW s \in Source, NEW u \in Url
        PROVE  older(s, u) \in Claim /\ older(s, u).gen = d.claim[s][u].gen
    <3>1. d.claim[s][u] \in Claim
      BY <1>1 DEF Copy
    <3>2. Older(d.claim[s][u].seen, ColdSweep) \in 0 .. Old(ColdSweep)
      BY <3>1, OlderKeeps, CatalogBounds DEF Claim
    <3> QED BY <3>1, <3>2 DEF Claim
  <2> HIDE DEF older, a
  <2>3. \A s \in Source, u \in Url : a.claim[s][u] = older(s, u)
    BY <2>1
  <2>4. [s \in Source |-> [u \in Url |-> older(s, u)]] \in [Source -> [Url -> Claim]]
    BY <2>2
  <2> QED BY <2>1, <2>2, <2>3, <2>4
<1>5. /\ a.sweep \in [Source -> Sweep]
      /\ \A s \in Source : /\ a.sweep[s].cursor = d.sweep[s].cursor
                           /\ a.sweep[s].done = Older(d.sweep[s].done, ColdSweep)
                           /\ d.sweep[s].done \in 0 .. Old(ColdSweep)
  <2>1. a.sweep = [s \in Source |-> [d.sweep[s] EXCEPT !.done = Older(@, ColdSweep)]]
    BY DEF Aged
  <2>2. ASSUME NEW s \in Source
        PROVE  /\ [d.sweep[s] EXCEPT !.done = Older(@, ColdSweep)] \in Sweep
               /\ [d.sweep[s] EXCEPT !.done = Older(@, ColdSweep)].cursor = d.sweep[s].cursor
               /\ [d.sweep[s] EXCEPT !.done = Older(@, ColdSweep)].done
                      = Older(d.sweep[s].done, ColdSweep)
               /\ d.sweep[s].done \in 0 .. Old(ColdSweep)
    <3>1. d.sweep[s] \in Sweep
      BY <1>1 DEF Copy
    <3>2. Older(d.sweep[s].done, ColdSweep) \in 0 .. Old(ColdSweep)
      BY <3>1, OlderKeeps, CatalogBounds DEF Sweep
    <3> QED BY <3>1, <3>2 DEF Sweep
  <2> QED BY <2>1, <2>2
<1>6. a \in Copy
  <2>1. a = [row |-> a.row, claim |-> a.claim, sweep |-> a.sweep, place |-> a.place, calm |-> a.calm]
    BY DEF Aged
  <2>2. d.place \in [Source -> Places] /\ d.calm \in SUBSET Source
    BY <1>1 DEF Copy
  <2> HIDE DEF a
  <2> QED BY <1>2, <1>3, <1>4, <1>5, <2>1, <2>2 DEF Copy
<1> HIDE DEF a
<1>7. Swept(a)
  <2>1. Lined(a.place)
    BY <1>1, <1>2 DEF Swept
  <2>2. \A s, o \in Source : a.place[s] < a.place[o] => a.sweep[o].done <= a.sweep[s].done
    BY <1>1, <1>2, <1>5, OlderKeeps, CatalogBounds DEF Swept
  <2>3. \A s \in Source : a.sweep[s].cursor > 0 => First(a, s) /\ a.sweep[s].done > ColdSweep
    BY <1>1, <1>2, <1>5, OlderKeeps, CatalogBounds DEF Swept, First
  <2> QED BY <2>1, <2>2, <2>3 DEF Swept
<1>8. PassedSoFar(a)
  <2> SUFFICES ASSUME NEW s \in a.calm, NEW i \in DOMAIN listing[s], i <= a.sweep[s].cursor
               PROVE  Passed(a, s, listing[s][i].url)
    BY DEF PassedSoFar
  <2>1. s \in d.calm /\ s \in Source
    BY <1>1, <1>2 DEF Copy
  <2>2. listing[s][i].url \in Url
    BY <2>1, ListedUrls
  <2>3. Passed(d, s, listing[s][i].url)
    BY <1>1, <1>5, <2>1 DEF PassedSoFar
  <2> QED BY <1>3, <1>4, <2>1, <2>2, <2>3 DEF Passed
<1> QED BY <1>2, <1>3, <1>5, <1>6, <1>7, <1>8 DEF CopyInv, a

\* begin_sweep: the cursor is back at the start, where nothing has been passed.
LEMMA BegunKeeps ==
    ASSUME NEW d, CopyInv(d), listing \in [Source -> Seq(Listing)], NEW s \in Source
    PROVE  /\ CopyInv(Begun(d, s))
           /\ Begun(d, s).place = d.place
           /\ Begun(d, s).row = d.row
           /\ \A o \in Source : Begun(d, s).sweep[o].done = d.sweep[o].done
<1> DEFINE e == Begun(d, s)
           claims == [u \in Url |-> IF d.claim[s][u].gen = "now"
                                    THEN [d.claim[s][u] EXCEPT !.gen = "old"] ELSE d.claim[s][u]]
           begun == [d.sweep[s] EXCEPT !.cursor = 0, !.started = "yes"]
<1>1. d \in Copy /\ Swept(d) /\ PassedSoFar(d)
  BY DEF CopyInv
<1>0. e = [d EXCEPT !.sweep[s] = begun, !.claim[s] = claims, !.calm = @ \cup {s}]
  BY DEF Begun
<1>2. e = [row |-> d.row, claim |-> [d.claim EXCEPT ![s] = claims],
           sweep |-> [d.sweep EXCEPT ![s] = begun],
           place |-> d.place, calm |-> d.calm \cup {s}]
  <2> HIDE DEF claims, begun, e
  <2> QED BY <1>0, <1>1 DEF Copy
<1>3. claims \in [Url -> Claim]
  <2>1. \A u \in Url : d.claim[s][u] \in Claim
    BY <1>1 DEF Copy
  <2> QED BY <2>1 DEF Claim
<1> HIDE DEF claims
<1>4. d.sweep[s] \in Sweep
  BY <1>1 DEF Copy
<1>5. begun \in Sweep
  BY <1>4 DEF Sweep
<1>6. /\ d.row \in [Url -> Row] /\ d.claim \in [Source -> [Url -> Claim]]
      /\ d.sweep \in [Source -> Sweep] /\ d.place \in [Source -> Places]
      /\ d.calm \in SUBSET Source
  BY <1>1 DEF Copy
<1>7. e \in Copy
  <2>1. [d.claim EXCEPT ![s] = claims] \in [Source -> [Url -> Claim]]
    BY <1>3, <1>6
  <2>2. [d.sweep EXCEPT ![s] = begun] \in [Source -> Sweep]
    BY <1>5, <1>6
  <2> HIDE DEF e
  <2> QED BY <1>2, <1>6, <2>1, <2>2 DEF Copy
<1>8. /\ e.row = d.row /\ e.place = d.place /\ e.calm = d.calm \cup {s}
      /\ e.sweep[s].cursor = 0 /\ e.sweep[s].done = d.sweep[s].done
      /\ \A o \in Source : o # s => e.sweep[o] = d.sweep[o] /\ e.claim[o] = d.claim[o]
  <2> HIDE DEF e
  <2> QED BY <1>2, <1>4, <1>6 DEF Sweep
<1> HIDE DEF e
<1>9. Swept(e)
  <2>1. \A o \in Source : First(d, o) => First(e, o)
    BY <1>8 DEF First
  <2>2. \A o \in Source : e.sweep[o].done = d.sweep[o].done
    BY <1>8
  <2>3. \A o \in Source : e.sweep[o].cursor > 0 => e.sweep[o] = d.sweep[o]
    BY <1>8
  <2> QED BY <1>1, <1>8, <2>1, <2>2, <2>3 DEF Swept
<1>10. PassedSoFar(e)
  <2> SUFFICES ASSUME NEW o \in e.calm, NEW i \in DOMAIN listing[o], i <= e.sweep[o].cursor
               PROVE  Passed(e, o, listing[o][i].url)
    BY DEF PassedSoFar
  <2>1. o \in Source /\ i \in 1 .. Len(listing[o])
    BY <1>6, <1>8
  <2>2. o # s
    BY <1>8, <2>1
  <2>3. Passed(d, o, listing[o][i].url)
    BY <1>1, <1>8, <2>1, <2>2 DEF PassedSoFar
  <2> QED BY <1>8, <2>1, <2>2, <2>3 DEF Passed
<1>11. \A o \in Source : e.sweep[o].done = d.sweep[o].done
  BY <1>8
<1> QED BY <1>7, <1>8, <1>9, <1>10, <1>11 DEF CopyInv, e

\* A change of rows that leaves what is active so, and no more.
LEMMA RowsKeep ==
    ASSUME NEW d, CopyInv(d), listing \in [Source -> Seq(Listing)], NEW rows \in [Url -> Row],
           \A u \in Url : d.row[u].status = "active" => rows[u].status = "active"
    PROVE  CopyInv([d EXCEPT !.row = rows])
<1> DEFINE e == [d EXCEPT !.row = rows]
<1>1. d \in Copy /\ Swept(d) /\ PassedSoFar(d)
  BY DEF CopyInv
<1>2. /\ e \in Copy /\ e.row = rows /\ e.claim = d.claim /\ e.sweep = d.sweep
      /\ e.place = d.place /\ e.calm = d.calm
  BY <1>1 DEF Copy
<1> HIDE DEF e
<1>3. Swept(e)
  BY <1>1, <1>2 DEF Swept, First
<1>4. \A s \in d.calm : \A i \in DOMAIN listing[s] : listing[s][i].url \in Url
  BY <1>1, ListedUrls DEF Copy
<1>5. PassedSoFar(e)
  BY <1>1, <1>2, <1>4 DEF PassedSoFar, Passed
<1> QED BY <1>2, <1>3, <1>5 DEF CopyInv, e

\* The cursor of the source whose turn it is advances over what the page held.
LEMMA PagedKeeps ==
    ASSUME NEW d, CopyInv(d), listing \in [Source -> Seq(Listing)], NEW s \in Source, NEW c \in Nat,
           First(d, s), d.sweep[s].done > ColdSweep,
           s \in d.calm => \A i \in DOMAIN listing[s] : i <= c => Passed(d, s, listing[s][i].url)
    PROVE  /\ CopyInv(Paged(d, s, c))
           /\ Paged(d, s, c).row = d.row /\ Paged(d, s, c).claim = d.claim
           /\ Paged(d, s, c).place = d.place /\ Paged(d, s, c).calm = d.calm
           /\ \A o \in Source : Paged(d, s, c).sweep[o].done = d.sweep[o].done
<1> DEFINE e == Paged(d, s, c)
           paged == [d.sweep[s] EXCEPT !.cursor = c,
                                       !.started = IF @ = "never" THEN "yes" ELSE @]
<1>1. d \in Copy /\ Swept(d) /\ PassedSoFar(d)
  BY DEF CopyInv
<1>2. d.sweep[s] \in Sweep
  BY <1>1 DEF Copy
<1>3. paged \in Sweep /\ paged.cursor = c /\ paged.done = d.sweep[s].done
  BY <1>2 DEF Sweep
<1>4. e = [d EXCEPT !.sweep = [d.sweep EXCEPT ![s] = paged]]
  BY <1>1, <1>2 DEF Paged, Copy, Sweep
<1> HIDE DEF paged, e
<1>5. /\ e.row = d.row /\ e.claim = d.claim /\ e.place = d.place /\ e.calm = d.calm
      /\ e.sweep = [d.sweep EXCEPT ![s] = paged]
      /\ e \in Copy
  <2>1. [d.sweep EXCEPT ![s] = paged] \in [Source -> Sweep]
    BY <1>1, <1>3 DEF Copy
  <2> QED BY <1>1, <1>4, <2>1 DEF Copy
<1>6. /\ e.sweep[s].cursor = c /\ e.sweep[s].done = d.sweep[s].done
      /\ \A o \in Source : o # s => e.sweep[o] = d.sweep[o]
  BY <1>1, <1>3, <1>5 DEF Copy
<1>7. Swept(e)
  <2>1. \A o \in Source : First(d, o) => First(e, o)
    BY <1>5 DEF First
  <2>2. \A o \in Source : e.sweep[o].done = d.sweep[o].done
    BY <1>6
  <2>3. \A o \in Source : e.sweep[o].cursor > 0 => First(e, o) /\ e.sweep[o].done > ColdSweep
    BY <1>1, <1>6, <2>1, <2>2 DEF Swept
  <2> QED BY <1>1, <1>5, <2>2, <2>3 DEF Swept
<1>8. PassedSoFar(e)
  <2> SUFFICES ASSUME NEW o \in e.calm, NEW i \in DOMAIN listing[o], i <= e.sweep[o].cursor
               PROVE  Passed(e, o, listing[o][i].url)
    BY DEF PassedSoFar
  <2>1. o \in Source
    BY <1>1, <1>5 DEF Copy
  <2>2. CASE o = s
    BY <1>5, <1>6, <2>2 DEF Passed
  <2>3. CASE o # s
    BY <1>1, <1>5, <1>6, <2>1, <2>3 DEF PassedSoFar, Passed
  <2> QED BY <2>2, <2>3
<1>9. \A o \in Source : e.sweep[o].done = d.sweep[o].done
  BY <1>6
<1> QED BY <1>5, <1>7, <1>8, <1>9 DEF CopyInv, e

\* _retire_unseen_unlocked: what the generation saw stays.
LEMMA RetiredKeeps ==
    ASSUME NEW d, CopyInv(d), listing \in [Source -> Seq(Listing)], NEW s \in Source, First(d, s)
    PROVE  /\ CopyInv(Retired(d, s))
           /\ Retired(d, s).place = d.place /\ Retired(d, s).sweep = d.sweep
           /\ Retired(d, s).calm = d.calm
           /\ \A u \in Url : Passed(d, s, u) => Retired(d, s).row[u].status = "active"
           /\ \A u \in Url : /\ d.row[u].status = "active"
                             /\ Retired(d, s).row[u].status = "retired"
                             => u \in Unseen(d, s)
<1> DEFINE e == Retired(d, s)
           rows == [u \in Url |-> IF u \in Unseen(d, s) THEN [d.row[u] EXCEPT !.status = "retired"]
                                  ELSE d.row[u]]
<1>1. d \in Copy /\ Swept(d) /\ PassedSoFar(d)
  BY DEF CopyInv
<1>2. /\ rows \in [Url -> Row]
      /\ \A u \in Url : rows[u].status = IF u \in Unseen(d, s) THEN "retired" ELSE d.row[u].status
  <2>1. \A u \in Url : d.row[u] \in Row
    BY <1>1 DEF Copy
  <2>2. \A u \in Url : /\ [d.row[u] EXCEPT !.status = "retired"] \in Row
                       /\ [d.row[u] EXCEPT !.status = "retired"].status = "retired"
    BY <2>1 DEF Row
  <2> QED BY <2>1, <2>2
<1>3. e = [d EXCEPT !.row = rows]
  BY DEF Retired
<1> HIDE DEF rows, e
<1>4. /\ e \in Copy /\ e.row = rows /\ e.claim = d.claim /\ e.sweep = d.sweep
      /\ e.place = d.place /\ e.calm = d.calm
  BY <1>1, <1>2, <1>3 DEF Copy
<1>5. \A u \in Url : Passed(d, s, u) => Passed(e, s, u)
  BY <1>2, <1>4 DEF Passed, Unseen
<1>6. Swept(e)
  BY <1>1, <1>4 DEF Swept, First
<1>7. PassedSoFar(e)
  <2> SUFFICES ASSUME NEW o \in e.calm, NEW i \in DOMAIN listing[o], i <= e.sweep[o].cursor
               PROVE  Passed(e, o, listing[o][i].url)
    BY DEF PassedSoFar
  <2>1. o \in Source /\ i \in 1 .. Len(listing[o]) /\ listing[o][i].url \in Url
    BY <1>1, <1>4, ListedUrls DEF Copy
  <2>2. Passed(d, o, listing[o][i].url)
    BY <1>1, <1>4 DEF PassedSoFar
  <2>3. d.sweep[o].cursor > 0
    <3>1. d.sweep[o].cursor \in Nat
      BY <1>1, <2>1 DEF Copy, Sweep
    <3> QED BY <1>4, <2>1, <3>1
  <2>4. First(d, o)
    BY <1>1, <2>1, <2>3 DEF Swept
  <2>5. o = s
    BY <1>1, <2>1, <2>4, FirstIsOne DEF Swept
  <2> QED BY <1>5, <2>1, <2>2, <2>5
<1> QED BY <1>2, <1>4, <1>5, <1>6, <1>7 DEF CopyInv, Passed, e

\* A source that is done goes to the end of the queue.
LEMMA CompletedKeeps ==
    ASSUME NEW d, CopyInv(d), listing \in [Source -> Seq(Listing)], NEW s \in Source, First(d, s)
    PROVE  /\ CopyInv(Completed(d, s))
           /\ Completed(d, s).row = d.row
           /\ Completed(d, s).sweep[s].done = 0
           /\ \A o \in Source \ {s} : Completed(d, s).sweep[o].done = d.sweep[o].done
<1> DEFINE e == Completed(d, s)
           zero == [cursor |-> 0, started |-> "no", done |-> 0]
           p == d.place
           q == Requeued(d.place, s)
<1>1. d \in Copy /\ Swept(d) /\ PassedSoFar(d)
  BY DEF CopyInv
<1>2. e = [d EXCEPT !.sweep[s] = zero, !.place = q]
  BY DEF Completed
<1>3. zero \in Sweep
  BY CatalogBounds DEF Sweep, Old
<1>4. p \in [Source -> Places] /\ Cardinality(Source) \in Nat
  BY <1>1, CatalogBounds DEF Copy
<1>5. \A o \in Source : p[o] \in 1 .. Cardinality(Source)
  BY <1>4 DEF Places
<1>6. \A o \in Source \ {s} : p[o] > p[s]
  BY <1>1, <1>5 DEF First, Swept, Lined
<1>7. q[s] = Cardinality(Source) /\ \A o \in Source \ {s} : q[o] = p[o] - 1
  BY <1>6 DEF Requeued
<1>8. \A o \in Source : q[o] \in 1 .. Cardinality(Source)
  <2> HIDE DEF p, q
  <2> QED BY <1>4, <1>5, <1>6, <1>7
<1>9. q \in [Source -> Places]
  BY <1>8 DEF Requeued, Places
<1>10. \A o \in Source \ {s} : q[o] < q[s]
  <2> HIDE DEF p, q
  <2> QED BY <1>4, <1>5, <1>7
<1> HIDE DEF e, zero, q
<1>11. /\ e.row = d.row /\ e.claim = d.claim /\ e.calm = d.calm /\ e.place = q
       /\ e.sweep = [d.sweep EXCEPT ![s] = zero]
       /\ e \in Copy
  <2>1. [d.sweep EXCEPT ![s] = zero] \in [Source -> Sweep]
    BY <1>1, <1>3 DEF Copy
  <2> QED BY <1>1, <1>2, <1>9, <2>1 DEF Copy
<1>12. /\ e.sweep[s].cursor = 0 /\ e.sweep[s].done = 0
       /\ \A o \in Source : o # s => e.sweep[o] = d.sweep[o]
  BY <1>1, <1>11 DEF Copy, zero
<1>13. \A o \in Source \ {s} : e.sweep[o].cursor = 0
  <2> SUFFICES ASSUME NEW o \in Source \ {s}, d.sweep[o].cursor # 0 PROVE FALSE
    BY <1>12
  <2>1. d.sweep[o].cursor \in Nat
    BY <1>1 DEF Copy, Sweep
  <2>2. First(d, o)
    BY <1>1, <2>1 DEF Swept
  <2> QED BY <1>1, <2>2, FirstIsOne DEF Swept
<1>14. \A o \in Source : d.sweep[o].done \in Nat
  BY <1>1, CatalogBounds DEF Copy, Sweep, Old
<1>15. Swept(e)
  <2>1. Lined(q)
    BY <1>1, <1>5, <1>7, <1>10 DEF Swept, Lined
  <2>2. ASSUME NEW a \in Source, NEW b \in Source, q[a] < q[b]
        PROVE  e.sweep[b].done <= e.sweep[a].done
    <3>1. CASE b = s
      BY <1>12, <1>14, <3>1
    <3>2. CASE b # s
      <4>1. a # s
        BY <1>8, <1>10, <2>2, <3>2
      <4>2. p[a] < p[b]
        BY <1>5, <1>7, <2>2, <3>2, <4>1
      <4> QED BY <1>1, <1>12, <3>2, <4>1, <4>2 DEF Swept
    <3> QED BY <3>1, <3>2
  <2>3. \A o \in Source : e.sweep[o].cursor = 0
    BY <1>12, <1>13
  <2> QED BY <1>11, <2>1, <2>2, <2>3 DEF Swept
<1>16. PassedSoFar(e)
  <2> SUFFICES ASSUME NEW o \in e.calm, NEW i \in DOMAIN listing[o], i <= e.sweep[o].cursor
               PROVE  FALSE
    BY DEF PassedSoFar
  <2>1. o \in Source /\ i \in 1 .. Len(listing[o])
    BY <1>1, <1>11 DEF Copy
  <2> QED BY <1>12, <1>13, <2>1
<1> QED BY <1>11, <1>12, <1>15, <1>16 DEF CopyInv, e

-----------------------------------------------------------------------------
(* A page of a cold sweep *)

\* next_cold_source: the first of the queue, if any is due.
LEMMA NextColdIsFirst ==
    ASSUME NEW d, CopyInv(d), NextCold(d) # Nothing
    PROVE  /\ NextCold(d) \in Source /\ First(d, NextCold(d))
           /\ d.sweep[NextCold(d)].done > ColdSweep
<1> DEFINE cold == ColdSources(d)
           mid == {s \in cold : d.sweep[s].started = "yes" /\ d.sweep[s].cursor > 0}
           pool == IF mid # {} THEN mid ELSE cold
           x == CHOOSE s \in pool : \A o \in pool : d.place[s] <= d.place[o]
<1>1. d \in Copy /\ Swept(d)
  BY DEF CopyInv
<1>2. pool # {} /\ NextCold(d) = x
  BY DEF NextCold
<1>3. pool \subseteq cold /\ cold \subseteq Source
  BY DEF ColdSources
<1>4. \A s \in Source : d.place[s] \in Nat
  BY <1>1, CatalogBounds DEF Copy, Places
<1>5. x \in pool /\ \A o \in pool : d.place[x] <= d.place[o]
  <2> DEFINE T == {d.place[s] : s \in pool}
  <2>1. T \in SUBSET Nat /\ T # {}
    BY <1>2, <1>3, <1>4
  <2>2. PICK m \in T : \A n \in T : m <= n
    <3> HIDE DEF T
    <3> QED BY <2>1, LeastNatural
  <2>3. PICK s \in pool : d.place[s] = m
    BY <2>2
  <2>4. \A o \in pool : d.place[s] <= d.place[o]
    BY <2>2, <2>3
  <2> HIDE DEF pool, T
  <2> QED BY <2>3, <2>4
<1> HIDE DEF x
<1>6. x \in Source /\ x \in cold
  BY <1>3, <1>5
<1>7. d.sweep[x].done > ColdSweep
  BY <1>1, <1>6 DEF ColdSources, Swept
<1>8. First(d, x)
  <2>1. CASE d.sweep[x].cursor > 0
    BY <1>1, <1>6, <2>1 DEF Swept
  <2>2. CASE ~(d.sweep[x].cursor > 0)
    <3>1. pool = cold
      BY <1>5, <2>2
    <3> SUFFICES ASSUME NEW o \in Source, d.place[o] < d.place[x] PROVE FALSE
      BY <1>4, <1>6 DEF First
    <3>2. d.sweep[x].done <= d.sweep[o].done
      BY <1>1, <1>6 DEF Swept
    <3>3. d.sweep[o].done \in Nat /\ d.sweep[x].done \in Nat
      BY <1>1, <1>6, CatalogBounds DEF Copy, Sweep, Old
    <3>4. o \in cold
      BY <1>7, <3>2, <3>3, CatalogBounds DEF ColdSources
    <3> QED BY <1>4, <1>5, <1>6, <3>1, <3>4
  <2> QED BY <2>1, <2>2
<1> QED BY <1>2, <1>6, <1>7, <1>8

\* parse_pagination, _step_offset: nothing between the cursor and where it will be is
\* left out, and nothing after it when the page is the last.
LEMMA PageLeavesNothingOut ==
    ASSUME listing \in [Source -> Seq(Listing)], NEW s \in Source, NEW offset \in Nat
    PROVE  LET to    == offset + (IF s \in Paginated THEN Clamp[s] ELSE PageSize)
               items == SubSeq(listing[s], offset + 1,
                               IF to > Len(listing[s]) THEN Len(listing[s]) ELSE to)
           IN  /\ ToSet(items) \subseteq Listing
               /\ IsLast(s, offset, items) \in BOOLEAN
               /\ offset + StepOffset(s, items) \in Nat
               /\ \A i \in DOMAIN listing[s] :
                     i > offset /\ (i <= offset + StepOffset(s, items) \/ IsLast(s, offset, items))
                         => listing[s][i] \in ToSet(items)
<1> DEFINE q     == listing[s]
           step  == IF s \in Paginated THEN Clamp[s] ELSE PageSize
           to    == offset + step
           len   == Len(q)
           end   == IF to > len THEN len ELSE to
           items == SubSeq(q, offset + 1, end)
           last  == IsLast(s, offset, items)
           n     == IF offset + 1 <= end THEN end - offset ELSE 0
<1>1. q \in Seq(Listing) /\ Len(q) \in Nat /\ DOMAIN q = 1 .. Len(q)
  OBVIOUS
<1>2. step \in Nat /\ step > 0 /\ (s \notin Paginated => step = PageSize)
  BY CatalogBounds
<1>3. /\ end \in Nat /\ end <= len /\ end <= to /\ (end = len \/ end = to)
  <2>1. len \in Nat
    BY <1>1
  <2> HIDE DEF len, step
  <2> QED BY <1>2, <2>1
<1>4. /\ items \in Seq(Listing) /\ Len(items) = n
      /\ \A j \in 1 .. end - offset : items[j] = q[offset + j]
  <2>1. \A i \in offset + 1 .. end : q[i] \in Listing
    BY <1>1, <1>3, ElementOfSeq
  <2> HIDE DEF q, end
  <2>2. /\ items \in Seq(Listing)
        /\ Len(items) = IF offset + 1 <= end THEN end - (offset + 1) + 1 ELSE 0
        /\ \A j \in 1 .. end - (offset + 1) + 1 : items[j] = q[(offset + 1) + j - 1]
    BY <1>3, <2>1, SubSeqProperties
  <2> HIDE DEF items
  <2> QED BY <1>3, <2>2
<1>5. ToSet(items) \subseteq Listing
  <2> HIDE DEF items
  <2> QED BY <1>4, ElementOfSeq DEF ToSet
<1>6. n \in Nat
  <2> HIDE DEF end
  <2> QED BY <1>3
<1>7. \A i \in DOMAIN q : i > offset /\ i <= end => q[i] \in ToSet(items)
  <2> SUFFICES ASSUME NEW i \in DOMAIN q, i > offset, i <= end PROVE q[i] \in ToSet(items)
    OBVIOUS
  <2>0. i \in Nat
    BY <1>1
  <2> HIDE DEF q, end, items, n
  <2> DEFINE j == i - offset
  <2>1. i \in Nat /\ j \in 1 .. end - offset /\ offset + j = i
    <3>1. i \in Nat /\ end \in Nat
      BY <1>3, <2>0
    <3> HIDE DEF step, len
    <3> QED BY <3>1
  <2>2. j \in 1 .. Len(items)
    BY <1>3, <1>4, <2>1 DEF n
  <2>3. items[j] = q[i]
    BY <1>4, <2>1
  <2> HIDE DEF j
  <2> QED BY <1>4, <2>2, <2>3 DEF ToSet
<1>8. StepOffset(s, items) = IF s \in Paginated THEN step ELSE n
  <2> HIDE DEF items, n
  <2> QED BY <1>4 DEF StepOffset
<1>9. last => \/ n = 0
              \/ s \in Paginated /\ (offset + n >= len \/ to >= len)
              \/ s \notin Paginated /\ n < step
  <2>1. items = <<>> => Len(items) = 0
    OBVIOUS
  <2> HIDE DEF items, n
  <2> QED BY <1>2, <1>4, <1>8, <2>1 DEF IsLast
<1>10. ASSUME NEW i \in DOMAIN q, i > offset, i <= offset + StepOffset(s, items) \/ last
       PROVE  i <= end
  <2>1. i \in Nat /\ i <= len
    BY <1>1
  <2>2. i <= offset + StepOffset(s, items) => i <= end
    <3> HIDE DEF step, end, len, q, items
    <3> QED BY <1>2, <1>3, <1>8, <2>1
  <2>3. last => i <= end
    <3> HIDE DEF step, end, len, q, items, last
    <3>1. len \in Nat /\ end \in Nat /\ (end = len \/ end = to) /\ step \in Nat
      BY <1>1, <1>2, <1>3 DEF len
    <3>2. CASE last /\ n = 0
      <4>1. end <= offset
        BY <3>1, <3>2 DEF n
      <4> QED BY <1>2, <1>10, <2>1, <3>1, <4>1
    <3>3. CASE last /\ n # 0
      <4>1. n = end - offset
        BY <3>3 DEF n
      <4>2. end = len
        BY <1>2, <1>3, <1>9, <3>1, <3>3, <4>1
      <4> QED BY <2>1, <4>2
    <3> QED BY <3>2, <3>3
  <2> QED BY <1>10, <2>2, <2>3
<1>11. offset + StepOffset(s, items) \in Nat
  <2> HIDE DEF step, n, items
  <2> QED BY <1>2, <1>6, <1>8
<1>12. last \in BOOLEAN
  BY DEF IsLast
<1>13. \A i \in DOMAIN q : i > offset /\ (i <= offset + StepOffset(s, items) \/ last)
                            => q[i] \in ToSet(items)
  BY <1>7, <1>10
<1> QED BY <1>5, <1>11, <1>12, <1>13

\* What ingest_page writes before it retires: the rows, then the cursor.
PageOf(s) == Paged(UpsertAll(db, s, trickle.page.items, "now"), s, trickle.page.cursor)

\* With the last page the sweep has passed all its source lists.
LEMMA PageIngested ==
    ASSUME StoreInv, TrickleInv, trickle.pc = "ingest", NEW s, s = trickle.source
    PROVE  /\ s \in Source /\ trickle.page.items \in SUBSET Listing
           /\ CopyInv(PageOf(s)) /\ First(PageOf(s), s)
           /\ PageOf(s).calm = db.calm
           /\ \A o \in Source : PageOf(s).sweep[o].done = db.sweep[o].done
           /\ \A o \in Source \ {s} : PageOf(s).claim[o] = db.claim[o]
           /\ \A u \in Url : PageOf(s).row[u].status = "retired" => db.row[u].status = "retired"
           /\ \A u \in Url : db.row[u].status = "active" => PageOf(s).row[u].status = "active"
           /\ trickle.page.last /\ s \in db.calm =>
                 \A u \in UrlsOf(s) : u \in Url /\ Passed(PageOf(s), s, u)
<1> DEFINE items == trickle.page.items
           c     == trickle.page.cursor
           up    == UpsertAll(db, s, items, "now")
<1>1. /\ s \in Source /\ items \in SUBSET Listing /\ c \in Nat
      /\ First(db, s) /\ db.sweep[s].done > ColdSweep /\ PageInv
  BY DEF TrickleInv, Page
<1>2. /\ listing \in [Source -> Seq(Listing)] /\ CopyInv(db) /\ db \in Copy /\ PassedSoFar(db)
  BY DEF StoreInv, CopyInv
<1>3. CopyInv(up)
  BY <1>1, <1>2, UpsertAllKeeps
<1>4. /\ up.sweep = db.sweep /\ up.place = db.place /\ up.calm = db.calm
      /\ \A o \in Source : o # s => up.claim[o] = db.claim[o]
      /\ \A u \in Url : /\ db.row[u].status = "active" => up.row[u].status = "active"
                        /\ up.row[u].status = "retired" => db.row[u].status = "retired"
                        /\ db.claim[s][u].gen = "now" => up.claim[s][u].gen = "now"
      /\ \A l \in items : up.row[l.url].status = "active" /\ up.claim[s][l.url].gen = "now"
  BY <1>1, <1>2, UpsertAllFields
<1> HIDE DEF up
<1>5. First(up, s) /\ up.sweep[s].done > ColdSweep
  BY <1>1, <1>4 DEF First
<1>6. ASSUME s \in db.calm, NEW i \in DOMAIN listing[s], i <= c \/ trickle.page.last
      PROVE  Passed(up, s, listing[s][i].url)
  <2>1. listing[s][i].url \in Url
    BY <1>1, <1>2, ListedUrls
  <2>2. CASE i <= db.sweep[s].cursor
    <3>1. Passed(db, s, listing[s][i].url)
      BY <1>2, <1>6, <2>2 DEF PassedSoFar
    <3> QED BY <1>4, <2>1, <3>1 DEF Passed
  <2>3. CASE ~(i <= db.sweep[s].cursor)
    <3>1. i \in Nat /\ db.sweep[s].cursor \in Nat
      BY <1>1, <1>2 DEF Copy, Sweep
    <3>2. i > db.sweep[s].cursor
      BY <2>3, <3>1
    <3>3. listing[s][i] \in items
      BY <1>1, <1>6, <3>2 DEF PageInv
    <3> QED BY <1>4, <3>3 DEF Passed
  <2> QED BY <2>2, <2>3
<1>7. PageOf(s) = Paged(up, s, c)
  BY DEF PageOf, up
<1>8. /\ CopyInv(PageOf(s))
      /\ PageOf(s).row = up.row /\ PageOf(s).claim = up.claim
      /\ PageOf(s).place = up.place /\ PageOf(s).calm = up.calm
      /\ \A o \in Source : PageOf(s).sweep[o].done = up.sweep[o].done
  <2>1. s \in up.calm => \A i \in DOMAIN listing[s] : i <= c => Passed(up, s, listing[s][i].url)
    BY <1>4, <1>6
  <2> HIDE DEF c
  <2> QED BY <1>1, <1>2, <1>3, <1>5, <1>7, <2>1, PagedKeeps DEF c
<1>9. First(PageOf(s), s)
  BY <1>5, <1>8 DEF First
<1>10. ASSUME trickle.page.last, s \in db.calm, NEW u \in UrlsOf(s)
       PROVE  u \in Url /\ Passed(PageOf(s), s, u)
  <2>1. PICK i \in DOMAIN listing[s] : u = listing[s][i].url
    BY DEF UrlsOf
  <2>2. u \in Url
    BY <1>1, <1>2, <2>1, ListedUrls
  <2>3. Passed(up, s, u)
    BY <1>6, <1>10, <2>1
  <2> QED BY <1>8, <2>2, <2>3 DEF Passed
<1> QED BY <1>1, <1>4, <1>8, <1>9, <1>10

-----------------------------------------------------------------------------
(* Steps of Catalog *)

\* The invariant of a copy is about what it holds, whichever copy it is.
LEMMA CopyMoves ==
    ASSUME NEW d, CopyInv(d), listing' = listing
    PROVE  /\ db' = d => CopyInv(db)'
           /\ disk' = d => CopyInv(disk)'
BY DEF CopyInv, Swept, PassedSoFar, Passed, First, Lined, Copy, Claim, Row, Sweep, Places

LEMMA DoneIsNatural ==
    ASSUME NEW d \in Copy, NEW s \in Source
    PROVE  d.sweep[s].done \in Nat
BY CatalogBounds DEF Copy, Sweep, Old

\* A write, committed or not.
LEMMA StoreKeeps ==
    ASSUME StoreInv, listing' = listing, NEW e, CopyInv(e), db' = e, disk' = disk \/ disk' = e,
           \A s \in Source : e.sweep[s].done <= db.sweep[s].done
    PROVE  StoreInv'
<1>1. CopyInv(db) /\ CopyInv(disk)
  BY DEF StoreInv
<1>2. CopyInv(db)' /\ CopyInv(disk)'
  BY <1>1, CopyMoves
<1>3. ASSUME NEW s \in Source PROVE e.sweep[s].done <= disk'.sweep[s].done
  <2>1. db.sweep[s].done \in Nat /\ e.sweep[s].done \in Nat /\ disk.sweep[s].done \in Nat
    BY <1>1, DoneIsNatural DEF CopyInv
  <2>2. db.sweep[s].done <= disk.sweep[s].done
    BY DEF StoreInv
  <2> QED BY <2>1, <2>2
<1> QED BY <1>2, <1>3 DEF StoreInv

\* What the trickle thread holds is true still if no sweep moved and no calm listing changed.
LEMMA TrickleStays ==
    ASSUME TrickleInv, trickle' = trickle, db'.place = db.place, db'.sweep = db.sweep,
           db'.calm \subseteq db.calm, \A s \in db'.calm : listing'[s] = listing[s]
    PROVE  TrickleInv'
BY DEF TrickleInv, PageInv, First, Page, Listing

LEMMA AsleepIsQuiet ==
    ASSUME trickle' = Asleep
    PROVE  TrickleInv'
BY DEF Asleep, TrickleInv

\* A step that moves no sweep and retires nothing.
NothingRetired == \A u \in Url : db'.row[u].status = "retired" => db.row[u].status = "retired"

\* Rows written for a source outside a sweep, committed or in part.
LEMMA UpsertStep ==
    ASSUME SweepInv, listing' = listing, NEW s \in Source, NEW items \in SUBSET Listing,
           Commit(UpsertAll(db, s, items, "null")) \/ PartOf(s, items)
    PROVE  /\ StoreInv'
           /\ db'.place = db.place /\ db'.sweep = db.sweep /\ db'.calm = db.calm
           /\ NothingRetired
<1>1. PICK part \in SUBSET items :
          db' = UpsertAll(db, s, part, "null") /\ (disk' = disk \/ disk' = db')
  BY DEF Commit, PartOf
<1> DEFINE e == UpsertAll(db, s, part, "null")
<1>2. StoreInv /\ CopyInv(db) /\ db \in Copy /\ listing \in [Source -> Seq(Listing)]
  BY DEF SweepInv, StoreInv, CopyInv
<1>3. part \in SUBSET Listing
  OBVIOUS
<1>4. CopyInv(e)
  BY <1>2, <1>3, UpsertAllKeeps
<1>5. /\ e.sweep = db.sweep /\ e.place = db.place /\ e.calm = db.calm
      /\ \A u \in Url : e.row[u].status = "retired" => db.row[u].status = "retired"
  BY <1>2, <1>3, UpsertAllFields
<1>6. \A o \in Source : e.sweep[o].done <= db.sweep[o].done
  BY <1>2, <1>5, DoneIsNatural
<1> HIDE DEF e
<1>7. db' = e /\ (disk' = disk \/ disk' = e)
  BY <1>1 DEF e
<1>8. NothingRetired
  BY <1>5, <1>7 DEF NothingRetired
<1> QED BY <1>2, <1>4, <1>5, <1>6, <1>7, <1>8, StoreKeeps

LEMMA CatalogInitInv == CatalogInit => SweepInv
<1> SUFFICES ASSUME CatalogInit PROVE SweepInv
  OBVIOUS
<1> DEFINE p == CHOOSE f \in [Source -> Places] : Lined(f)
           N == Cardinality(Source)
<1>1. \E f \in [Source -> Places] : Lined(f)
  <2>1. ExistsBijection(1 .. N, Source)
    BY SourceAssumption, FS_CardinalityType
  <2>2. PICK g \in Bijection(1 .. N, Source) : TRUE
    BY <2>1 DEF ExistsBijection
  <2>3. g \in [1 .. N -> Source] /\ \A s \in Source : \E k \in 1 .. N : g[k] = s
    BY <2>2 DEF Bijection, Surjection
  <2> DEFINE f == [s \in Source |-> CHOOSE k \in 1 .. N : g[k] = s]
  <2>4. \A s \in Source : f[s] \in 1 .. N /\ g[f[s]] = s
    BY <2>3
  <2>5. f \in [Source -> Places]
    BY <2>4 DEF Places
  <2>6. Lined(f)
    <3> HIDE DEF f
    <3> QED BY <2>4 DEF Lined
  <2> QED BY <2>5, <2>6
<1>2. p \in [Source -> Places] /\ Lined(p)
  BY <1>1
<1> HIDE DEF p
<1>3. /\ db = [row |-> [u \in Url |-> NoRow],
               claim |-> [s \in Source |-> [u \in Url |-> NoClaim]],
               sweep |-> [s \in Source |-> [cursor |-> 0, started |-> "never", done |-> Old(ColdSweep)]],
               place |-> p, calm |-> {}]
      /\ disk = db /\ trickle = Asleep /\ request = Nothing
  BY DEF CatalogInit, p
<1>4. NoRow \in Row /\ NoClaim \in Claim
  BY CatalogBounds DEF NoRow, Row, NoClaim, Claim, Old
<1>5. [cursor |-> 0, started |-> "never", done |-> Old(ColdSweep)] \in Sweep
  BY CatalogBounds DEF Sweep, Old
<1>6. db \in Copy
  BY <1>2, <1>3, <1>4, <1>5 DEF Copy
<1>7. \A s \in Source : db.sweep[s].cursor = 0 /\ db.sweep[s].done = Old(ColdSweep)
  BY <1>3
<1>8. Old(ColdSweep) \in Nat
  BY CatalogBounds DEF Old
<1>9. CopyInv(db) /\ CopyInv(disk)
  <2>1. db.place = p /\ db.calm = {} /\ disk = db
    BY <1>3
  <2>2. Swept(db)
    BY <1>2, <1>7, <1>8, <2>1 DEF Swept
  <2>3. PassedSoFar(db)
    BY <2>1 DEF PassedSoFar
  <2> QED BY <1>6, <2>1, <2>2, <2>3 DEF CopyInv
<1>10. listing \in [Source -> Seq(Listing)]
  <2>1. listing \in [Source -> {<<>>} \cup {<<l>> : l \in Listing}]
    BY DEF CatalogInit
  <2>2. {<<>>} \cup {<<l>> : l \in Listing} \subseteq Seq(Listing)
    <3>1. <<>> \in Seq(Listing)
      OBVIOUS
    <3>2. ASSUME NEW l \in Listing PROVE <<l>> \in Seq(Listing)
      OBVIOUS
    <3> QED BY <3>1, <3>2
  <2> QED BY <2>1, <2>2
<1>11. StoreInv
  BY <1>3, <1>7, <1>8, <1>9, <1>10 DEF StoreInv
<1>12. TrickleInv
  BY <1>3 DEF TrickleInv, Asleep
<1>13. RequestInv
  BY <1>3 DEF RequestInv
<1> QED BY <1>11, <1>12, <1>13 DEF SweepInv

\* due_valued takes active rows.
LEMMA ValuedUrls ==
    ASSUME NEW d, NEW q \in Valued(d)
    PROVE  q \subseteq Url
<1>1. q \subseteq UNION Range(Due(d))
  BY DEF Valued
<1>2. DOMAIN Due(d) = 1 .. 7 /\ \A k \in 1 .. 7 : Due(d)[k] \subseteq Url
  BY DEF Due, Stale, Searched, Active
<1> QED BY <1>1, <1>2 DEF Range

LEMMA TurnKeeps ==
    ASSUME SweepInv, Turn
    PROVE  SweepInv'
<1> DEFINE a == Aged(db)
           b == Aged(disk)
<1>1. /\ StoreInv /\ CopyInv(db) /\ CopyInv(disk) /\ listing \in [Source -> Seq(Listing)]
      /\ db \in Copy /\ disk \in Copy
  BY DEF SweepInv, StoreInv, CopyInv
<1>2. db' = a /\ disk' = b /\ listing' = listing /\ request' = request
  BY DEF Turn
<1>3. /\ CopyInv(a) /\ CopyInv(b)
      /\ \A s \in Source : /\ a.sweep[s].done = Older(db.sweep[s].done, ColdSweep)
                           /\ b.sweep[s].done = Older(disk.sweep[s].done, ColdSweep)
  BY <1>1, AgedKeeps
<1>4. PICK q \in Valued(a) :
         trickle' = IF q # {} THEN [Asleep EXCEPT !.pc = "refresh", !.todo = q \X Source]
                    ELSE IF NextCold(a) = Nothing THEN Asleep
                    ELSE [Asleep EXCEPT !.pc = "cold", !.source = NextCold(a)]
  BY DEF Turn
<1> HIDE DEF a, b
<1>5. CopyInv(db)' /\ CopyInv(disk)'
  BY <1>2, <1>3, CopyMoves
<1>6. ASSUME NEW s \in Source PROVE a.sweep[s].done <= b.sweep[s].done
  <2>1. /\ db.sweep[s].done \in 0 .. Old(ColdSweep) /\ disk.sweep[s].done \in 0 .. Old(ColdSweep)
        /\ db.sweep[s].done <= disk.sweep[s].done
    BY <1>1 DEF StoreInv, Copy, Sweep
  <2> QED BY <1>3, <2>1, OlderKeeps, CatalogBounds
<1>7. StoreInv'
  BY <1>1, <1>2, <1>5, <1>6 DEF StoreInv
<1>8. TrickleInv'
  <2>1. CASE q # {}
    <3>1. q \subseteq Url /\ q \X Source # {}
      <4>1. PICK u \in q, s \in Source : TRUE
        BY <2>1, SourceAssumption
      <4>2. <<u, s>> \in q \X Source
        BY <4>1
      <4> QED BY <4>2, ValuedUrls
    <3>2. trickle' = [pc |-> "refresh", todo |-> q \X Source, source |-> Nothing, page |-> Nothing,
                      got |-> {}]
      BY <1>4, <2>1 DEF Asleep
    <3>3. q \X Source \in SUBSET (Url \X Source)
      BY <3>1
    <3> QED BY <3>1, <3>2, <3>3 DEF TrickleInv
  <2>2. CASE q = {} /\ NextCold(a) = Nothing
    BY <1>4, <2>2, AsleepIsQuiet
  <2>3. CASE q = {} /\ NextCold(a) # Nothing
    <3>1. /\ NextCold(a) \in Source /\ First(a, NextCold(a))
          /\ a.sweep[NextCold(a)].done > ColdSweep
      BY <1>3, <2>3, NextColdIsFirst
    <3>2. trickle' = [pc |-> "cold", todo |-> {}, source |-> NextCold(a), page |-> Nothing,
                      got |-> {}]
      BY <1>4, <2>3 DEF Asleep
    <3>3. First(db', NextCold(a)) /\ db'.sweep[NextCold(a)].done > ColdSweep
      BY <1>2, <3>1 DEF First
    <3> DEFINE x == NextCold(a)
    <3> HIDE DEF x
    <3>4. /\ x \in Source /\ First(db', x) /\ db'.sweep[x].done > ColdSweep
          /\ trickle' = [pc |-> "cold", todo |-> {}, source |-> x, page |-> Nothing, got |-> {}]
      BY <3>1, <3>2, <3>3 DEF x
    <3> QED BY <3>4 DEF TrickleInv, First
  <2> QED BY <2>1, <2>2, <2>3
<1>9. RequestInv'
  BY <1>2 DEF SweepInv, RequestInv
<1> QED BY <1>7, <1>8, <1>9 DEF SweepInv

LEMMA RefreshSearchKeeps ==
    ASSUME SweepInv, RefreshSearch
    PROVE  SweepInv'
<1>1. StoreInv /\ TrickleInv /\ RequestInv
  BY DEF SweepInv
<1>2. db' = db /\ disk' = disk /\ listing' = listing /\ request' = request
  BY DEF RefreshSearch
<1> DEFINE p == CHOOSE x \in trickle.todo : TRUE
<1>3. PICK got \in Answers(p[2], p[1]) :
         trickle' = [trickle EXCEPT !.pc = "answered", !.todo = @ \ {p}, !.source = p[2], !.got = got]
  BY DEF RefreshSearch
<1>4. p \in trickle.todo /\ trickle.todo \subseteq Url \X Source
  BY <1>1 DEF RefreshSearch, TrickleInv
<1> HIDE DEF p
<1>5. p[2] \in Source
  BY <1>4
<1>6. got \subseteq Listing
  <2>1. got \subseteq {listing[p[2]][i] : i \in DOMAIN listing[p[2]]}
    BY <1>3 DEF Answers
  <2>2. listing \in [Source -> Seq(Listing)]
    BY <1>1 DEF StoreInv
  <2> QED BY <1>5, <2>1, <2>2, ListedUrls
<1>7. TrickleInv'
  BY <1>1, <1>3, <1>4, <1>5, <1>6 DEF TrickleInv
<1>8. StoreInv'
  BY <1>1, <1>2, CopyMoves DEF StoreInv
<1> QED BY <1>1, <1>2, <1>7, <1>8 DEF SweepInv, RequestInv

LEMMA RefreshUpsertKeeps ==
    ASSUME SweepInv, RefreshUpsert
    PROVE  SweepInv'
<1>1. StoreInv /\ TrickleInv /\ RequestInv
  BY DEF SweepInv
<1>2. /\ listing' = listing /\ request' = request
      /\ Commit(UpsertAll(db, trickle.source, trickle.got, "null")) \/ PartOf(trickle.source, trickle.got)
  BY DEF RefreshUpsert
<1>3. trickle.source \in Source /\ trickle.got \in SUBSET Listing
  BY <1>1 DEF RefreshUpsert, TrickleInv
<1>4. StoreInv'
  BY <1>2, <1>3, UpsertStep
<1>5. TrickleInv'
  <2>1. CASE trickle.todo = {}
    BY <2>1, AsleepIsQuiet DEF RefreshUpsert
  <2>2. CASE trickle.todo # {}
    <3>1. trickle' = [pc |-> "refresh", todo |-> trickle.todo, source |-> Nothing, page |-> Nothing,
                      got |-> {}]
      BY <2>2 DEF RefreshUpsert, Asleep
    <3>2. trickle.todo \in SUBSET (Url \X Source)
      BY <1>1 DEF TrickleInv
    <3> QED BY <2>2, <3>1, <3>2 DEF TrickleInv
  <2> QED BY <2>1, <2>2
<1> QED BY <1>1, <1>2, <1>4, <1>5 DEF SweepInv, RequestInv

\* begin_sweep, done, or written and not committed.
LEMMA BeginSweepKeeps ==
    ASSUME SweepInv, BeginSweep \/ BeginSweepRaises
    PROVE  SweepInv'
<1> DEFINE s == trickle.source
           e == Begun(db, s)
<1>1. /\ StoreInv /\ TrickleInv /\ RequestInv /\ CopyInv(db) /\ db \in Copy
      /\ listing \in [Source -> Seq(Listing)]
  BY DEF SweepInv, StoreInv, CopyInv
<1>2. /\ s \in Source /\ First(db, s) /\ db.sweep[s].done > ColdSweep /\ trickle.pc = "cold"
  BY <1>1 DEF BeginSweep, BeginSweepRaises, TrickleInv
<1>3. /\ listing' = listing /\ request' = request /\ trickle' = [trickle EXCEPT !.pc = "fetch"]
      /\ db' = db \/ db' = e
      /\ disk' = disk \/ disk' = db'
  BY DEF BeginSweep, BeginSweepRaises, Commit
<1>4. /\ CopyInv(e) /\ e.place = db.place
      /\ \A o \in Source : e.sweep[o].done = db.sweep[o].done
  BY <1>1, <1>2, BegunKeeps
<1> HIDE DEF e
<1>5. /\ CopyInv(db') /\ db'.place = db.place
      /\ \A o \in Source : db'.sweep[o].done = db.sweep[o].done
  <2>1. CASE db' = db
    BY <1>1, <2>1
  <2>2. CASE db' = e
    BY <1>4, <2>2
  <2> QED BY <1>3, <2>1, <2>2
<1>6. StoreInv'
  <2>1. \A o \in Source : db.sweep[o].done \in Nat
    BY <1>1, DoneIsNatural
  <2>2. PICK d : d = db' /\ CopyInv(d) /\ \A o \in Source : d.sweep[o].done <= db.sweep[o].done
    BY <1>5, <2>1
  <2> QED BY <1>1, <1>3, <2>2, StoreKeeps
<1>7. TrickleInv'
  BY <1>1, <1>2, <1>3, <1>5 DEF TrickleInv, First
<1> QED BY <1>1, <1>3, <1>6, <1>7 DEF SweepInv, RequestInv

LEMMA FetchPageKeeps ==
    ASSUME SweepInv, FetchPage
    PROVE  SweepInv'
<1> DEFINE s      == trickle.source
           offset == db.sweep[s].cursor
           to     == offset + (IF s \in Paginated THEN Clamp[s] ELSE PageSize)
           items  == SubSeq(listing[s], offset + 1, IF to > Len(listing[s]) THEN Len(listing[s]) ELSE to)
           page   == [items |-> ToSet(items), last |-> IsLast(s, offset, items),
                      cursor |-> offset + StepOffset(s, items)]
<1>1. /\ StoreInv /\ TrickleInv /\ RequestInv /\ db \in Copy /\ listing \in [Source -> Seq(Listing)]
  BY DEF SweepInv, StoreInv, CopyInv
<1>2. s \in Source /\ First(db, s) /\ db.sweep[s].done > ColdSweep
  BY <1>1 DEF FetchPage, TrickleInv
<1>3. /\ trickle' = [trickle EXCEPT !.pc = "ingest", !.page = page]
      /\ db' = db /\ disk' = disk /\ listing' = listing /\ request' = request
  BY DEF FetchPage
<1>4. offset \in Nat
  BY <1>1, <1>2 DEF Copy, Sweep
<1>5. /\ page \in Page
      /\ \A i \in DOMAIN listing[s] : i > offset /\ (i <= page.cursor \/ page.last)
                                         => listing[s][i] \in page.items
  <2>1. /\ ToSet(items) \subseteq Listing
        /\ IsLast(s, offset, items) \in BOOLEAN
        /\ offset + StepOffset(s, items) \in Nat
        /\ \A i \in DOMAIN listing[s] :
              i > offset /\ (i <= offset + StepOffset(s, items) \/ IsLast(s, offset, items))
                  => listing[s][i] \in ToSet(items)
    <3> HIDE DEF s, offset
    <3> QED BY <1>1, <1>2, <1>4, PageLeavesNothingOut
  <2> HIDE DEF items, offset, s
  <2> QED BY <2>1 DEF Page
<1> HIDE DEF page
<1>6. /\ trickle'.pc = "ingest" /\ trickle'.page = page /\ trickle'.source = trickle.source
      /\ trickle'.todo = trickle.todo /\ trickle'.got = trickle.got
      /\ trickle' \in [pc : {"sleep", "refresh", "answered", "cold", "fetch", "ingest"},
                       todo : SUBSET (Url \X Source), source : Source \cup {Nothing},
                       page : Page \cup {Nothing}, got : SUBSET Listing]
  BY <1>1, <1>3, <1>5 DEF TrickleInv
<1>7. PageInv'
  BY <1>3, <1>5, <1>6 DEF PageInv
<1>8. TrickleInv'
  BY <1>2, <1>3, <1>5, <1>6, <1>7 DEF TrickleInv, First
<1>9. StoreInv'
  BY <1>1, <1>3, CopyMoves DEF StoreInv
<1> QED BY <1>1, <1>3, <1>8, <1>9 DEF SweepInv, RequestInv

LEMMA FetchFailsKeeps ==
    ASSUME SweepInv, FetchFails
    PROVE  SweepInv'
<1>1. /\ trickle' = Asleep /\ db' = db /\ disk' = disk /\ listing' = listing /\ request' = request
  BY DEF FetchFails
<1>2. StoreInv'
  BY <1>1, CopyMoves DEF SweepInv, StoreInv
<1> QED BY <1>1, <1>2, AsleepIsQuiet DEF SweepInv, RequestInv

\* What a page leaves: a part of its rows, all of it, or with the last page what it retires.
LEMMA IngestWrites ==
    ASSUME IngestPage \/ IngestRaises, NEW s, s = trickle.source
    PROVE  /\ trickle.pc = "ingest"
           /\ trickle' = Asleep /\ listing' = listing /\ request' = request
           /\ disk' = disk \/ disk' = db'
           /\ \/ \E part \in SUBSET trickle.page.items : db' = UpsertAll(db, s, part, "now")
              \/ db' = PageOf(s)
              \/ /\ trickle.page.last
                 /\ \/ db' = Retired(PageOf(s), s)
                    \/ db' = Completed(Retired(PageOf(s), s), s)
BY DEF IngestPage, IngestRaises, Commit, PageOf

\* ingest_page: the page, and with the last one what is retired, committed or in part.
LEMMA IngestKeeps ==
    ASSUME SweepInv, IngestPage \/ IngestRaises
    PROVE  SweepInv'
<1> DEFINE s    == trickle.source
           page == PageOf(s)
<1>1. /\ StoreInv /\ TrickleInv /\ RequestInv /\ CopyInv(db) /\ db \in Copy
      /\ listing \in [Source -> Seq(Listing)] /\ trickle.pc = "ingest"
  BY DEF SweepInv, StoreInv, CopyInv, IngestPage, IngestRaises
<1>2. /\ s \in Source /\ trickle.page.items \in SUBSET Listing
      /\ CopyInv(page) /\ First(page, s)
      /\ \A o \in Source : page.sweep[o].done = db.sweep[o].done
  BY <1>1, PageIngested
<1>3. /\ trickle' = Asleep /\ listing' = listing /\ request' = request
      /\ disk' = disk \/ disk' = db'
      /\ \/ \E part \in SUBSET trickle.page.items : db' = UpsertAll(db, s, part, "now")
         \/ db' = page \/ db' = Retired(page, s) \/ db' = Completed(Retired(page, s), s)
  BY IngestWrites
<1> HIDE DEF page
<1>4. /\ CopyInv(Retired(page, s)) /\ First(Retired(page, s), s)
      /\ \A o \in Source : Retired(page, s).sweep[o].done = db.sweep[o].done
  BY <1>1, <1>2, RetiredKeeps DEF First
<1>5. /\ CopyInv(Completed(Retired(page, s), s))
      /\ Completed(Retired(page, s), s).sweep[s].done = 0
      /\ \A o \in Source \ {s} :
            Completed(Retired(page, s), s).sweep[o].done = db.sweep[o].done
  BY <1>1, <1>2, <1>4, CompletedKeeps
<1>6. \A o \in Source : db.sweep[o].done \in Nat
  BY <1>1, DoneIsNatural
<1>7. PICK d : /\ d = db' /\ CopyInv(d)
               /\ \A o \in Source : d.sweep[o].done <= db.sweep[o].done
  <2>1. ASSUME NEW part \in SUBSET trickle.page.items, db' = UpsertAll(db, s, part, "now")
        PROVE  CopyInv(db') /\ \A o \in Source : db'.sweep[o].done <= db.sweep[o].done
    <3>1. part \in SUBSET Listing
      BY <1>2
    <3> DEFINE e == UpsertAll(db, s, part, "now")
    <3>2. CopyInv(e) /\ e.sweep = db.sweep
      BY <1>1, <1>2, <3>1, UpsertAllKeeps, UpsertAllFields
    <3> HIDE DEF e
    <3>3. db' = e
      BY <2>1 DEF e
    <3> QED BY <1>6, <3>2, <3>3
  <2>2. CASE db' = page
    BY <1>2, <1>6, <2>2
  <2>3. CASE db' = Retired(page, s)
    BY <1>4, <1>6, <2>3
  <2>4. CASE db' = Completed(Retired(page, s), s)
    BY <1>2, <1>5, <1>6, <2>4
  <2> QED BY <1>3, <2>1, <2>2, <2>3, <2>4
<1>8. StoreInv'
  BY <1>1, <1>3, <1>7, StoreKeeps
<1> QED BY <1>1, <1>3, <1>8, AsleepIsQuiet DEF SweepInv, RequestInv

LEMMA SearchKeeps ==
    ASSUME SweepInv, Search
    PROVE  SweepInv'
<1>1. /\ StoreInv /\ TrickleInv /\ db \in Copy /\ listing \in [Source -> Seq(Listing)]
  BY DEF SweepInv, StoreInv, CopyInv
<1>2. /\ db' = db /\ disk' = disk /\ listing' = listing /\ trickle' = trickle
  BY DEF Search
<1>3. PICK found \in [Source -> SUBSET Listing], local \in SUBSET Active(db), rail \in Source :
         request' = [todo |-> Source,
                     hits |-> [found EXCEPT ![rail] = @ \cup
                       {l \in Listing : /\ l.url \in local
                                        /\ \E s \in Source : l.terms \in db.claim[s][l.url].terms}]]
  BY DEF Search
<1>4. RequestInv'
  <2> DEFINE more == {l \in Listing : /\ l.url \in local
                                      /\ \E s \in Source : l.terms \in db.claim[s][l.url].terms}
  <2>1. more \subseteq Listing
    OBVIOUS
  <2>2. request' = [todo |-> Source, hits |-> [found EXCEPT ![rail] = @ \cup more]]
    BY <1>3
  <2> HIDE DEF more
  <2> QED BY <2>1, <2>2 DEF RequestInv
<1>5. StoreInv'
  BY <1>1, <1>2, CopyMoves DEF StoreInv
<1>6. TrickleInv'
  BY <1>1, <1>2, TrickleStays
<1> QED BY <1>4, <1>5, <1>6 DEF SweepInv

LEMMA WriteThroughKeeps ==
    ASSUME SweepInv, WriteThrough
    PROVE  SweepInv' /\ db'.sweep = db.sweep /\ NothingRetired
<1>1. StoreInv /\ TrickleInv /\ RequestInv
  BY DEF SweepInv
<1> DEFINE s == CHOOSE x \in request.todo : TRUE
<1>2. /\ Commit(UpsertAll(db, s, request.hits[s], "null")) \/ PartOf(s, request.hits[s])
      /\ request' = [request EXCEPT !.todo = @ \ {s}]
      /\ listing' = listing /\ trickle' = trickle
  BY DEF WriteThrough
<1>3. /\ request \in [todo : SUBSET Source, hits : [Source -> SUBSET Listing]]
      /\ s \in request.todo
  BY <1>1 DEF WriteThrough, RequestInv
<1> HIDE DEF s
<1>4. s \in Source /\ request.hits[s] \in SUBSET Listing
  BY <1>3
<1>5. StoreInv' /\ db'.place = db.place /\ db'.sweep = db.sweep /\ db'.calm = db.calm /\ NothingRetired
  BY <1>2, <1>4, UpsertStep
<1>6. TrickleInv'
  BY <1>1, <1>2, <1>5, TrickleStays
<1>7. RequestInv'
  BY <1>2, <1>3 DEF RequestInv
<1> QED BY <1>5, <1>6, <1>7 DEF SweepInv

\* A commit of rows that leaves their status alone.
LEMMA RowsStep ==
    ASSUME SweepInv, listing' = listing, NEW rows \in [Url -> Row],
           \A u \in Url : rows[u].status = db.row[u].status, Commit([db EXCEPT !.row = rows])
    PROVE  /\ StoreInv'
           /\ db'.place = db.place /\ db'.sweep = db.sweep /\ db'.calm = db.calm
           /\ NothingRetired
<1> DEFINE e == [db EXCEPT !.row = rows]
<1>1. /\ StoreInv /\ CopyInv(db) /\ db \in Copy /\ listing \in [Source -> Seq(Listing)]
  BY DEF SweepInv, StoreInv, CopyInv
<1>2. CopyInv(e)
  BY <1>1, RowsKeep
<1>3. e.sweep = db.sweep /\ e.place = db.place /\ e.calm = db.calm
  BY <1>1 DEF Copy
<1>4. db' = e /\ disk' = e
  BY DEF Commit
<1> HIDE DEF e
<1>5. \A o \in Source : e.sweep[o].done <= db.sweep[o].done
  BY <1>1, <1>3, DoneIsNatural
<1>6. NothingRetired
  <2>1. db'.row = rows
    BY <1>1, <1>4 DEF Copy, e
  <2> QED BY <2>1 DEF NothingRetired
<1> QED BY <1>1, <1>2, <1>3, <1>4, <1>5, <1>6, StoreKeeps

LEMMA TouchSearchedKeeps ==
    ASSUME SweepInv, TouchSearched
    PROVE  SweepInv' /\ db'.sweep = db.sweep /\ NothingRetired
<1>1. TrickleInv /\ db \in Copy
  BY DEF SweepInv, StoreInv, CopyInv
<1> DEFINE urls == {l.url : l \in UNION {request.hits[s] : s \in Source}}
           rows == [u \in Url |-> IF u \in urls THEN [db.row[u] EXCEPT !.searched = 0] ELSE db.row[u]]
<1>2. /\ Commit([db EXCEPT !.row = rows]) /\ request' = Nothing
      /\ listing' = listing /\ trickle' = trickle
  BY DEF TouchSearched
<1>3. rows \in [Url -> Row] /\ \A u \in Url : rows[u].status = db.row[u].status
  <2> HIDE DEF urls
  <2>1. ASSUME NEW u \in Url
        PROVE  [db.row[u] EXCEPT !.searched = 0] \in Row /\ db.row[u] \in Row
               /\ [db.row[u] EXCEPT !.searched = 0].status = db.row[u].status
    <3>1. db.row[u] \in Row
      BY <1>1 DEF Copy
    <3>2. 0 \in 0 .. Old(HotEligible)
      BY CatalogBounds DEF Old
    <3> QED BY <3>1, <3>2 DEF Row
  <2> QED BY <2>1
<1> HIDE DEF rows
<1>4. StoreInv' /\ db'.place = db.place /\ db'.sweep = db.sweep /\ db'.calm = db.calm /\ NothingRetired
  BY <1>2, <1>3, RowsStep
<1>5. TrickleInv'
  BY <1>1, <1>2, <1>4, TrickleStays
<1> QED BY <1>2, <1>4, <1>5 DEF SweepInv, RequestInv

LEMMA MarkVerifiedKeeps ==
    ASSUME SweepInv, MarkVerified
    PROVE  SweepInv' /\ db'.sweep = db.sweep /\ NothingRetired
<1>1. TrickleInv /\ RequestInv /\ db \in Copy
  BY DEF SweepInv, StoreInv, CopyInv
<1>2. PICK u \in Url, ok \in BOOLEAN : Commit([db EXCEPT !.row[u] = Marked(@, ok)])
  BY DEF MarkVerified
<1> DEFINE marked == Marked(db.row[u], ok)
           rows == [db.row EXCEPT ![u] = marked]
<1>3. db.row[u] \in Row /\ db.row \in [Url -> Row]
  BY <1>1 DEF Copy
<1>4. marked \in Row /\ marked.status = db.row[u].status
  <2> DEFINE probe == IF ok THEN "ok" ELSE "failed"
             routed == IF ok THEN 0 ELSE db.row[u].routed
  <2>1. probe \in {"unknown", "ok", "failed"} /\ routed \in 0 .. Old(HotEligible)
        /\ 0 \in 0 .. Old(WarmEligible)
    BY <1>3, CatalogBounds DEF Row, Old
  <2>2. marked = [db.row[u] EXCEPT !.verified = 0, !.probe = probe, !.routed = routed]
    BY <1>3 DEF Marked, Row
  <2> HIDE DEF probe, routed, marked
  <2> QED BY <1>3, <2>1, <2>2 DEF Row
<1>5. Commit([db EXCEPT !.row = rows])
  BY <1>2
<1> HIDE DEF marked
<1>6. rows \in [Url -> Row] /\ \A w \in Url : rows[w].status = db.row[w].status
  BY <1>3, <1>4
<1> HIDE DEF rows
<1>7. listing' = listing /\ trickle' = trickle /\ request' = request
  BY DEF MarkVerified
<1>8. StoreInv' /\ db'.place = db.place /\ db'.sweep = db.sweep /\ db'.calm = db.calm /\ NothingRetired
  BY <1>5, <1>6, <1>7, RowsStep
<1>9. TrickleInv'
  BY <1>1, <1>7, <1>8, TrickleStays
<1> QED BY <1>1, <1>7, <1>8, <1>9 DEF SweepInv, RequestInv

\* What is removed from a listing is all that changes of it.
LEMMA WithoutIsListing ==
    ASSUME NEW q \in Seq(Listing), NEW u
    PROVE  Without(q, u) \in Seq(Listing)
<1>1. CASE \E i \in DOMAIN q : q[i].url = u
  <2> DEFINE i == CHOOSE k \in DOMAIN q : q[k].url = u
  <2>1. i \in 1 .. Len(q) /\ Len(q) \in Nat
    BY <1>1
  <2>2. Without(q, u) = SubSeq(q, 1, i - 1) \o SubSeq(q, i + 1, Len(q))
    BY <1>1 DEF Without, RemoveAt
  <2> HIDE DEF i
  <2>3. \A k \in 1 .. Len(q) : q[k] \in Listing
    BY ElementOfSeq
  <2>4. SubSeq(q, 1, i - 1) \in Seq(Listing)
    <3>1. \A k \in 1 .. i - 1 : q[k] \in Listing
      BY <2>1, <2>3
    <3> QED BY <2>1, <3>1, SubSeqProperties
  <2>5. SubSeq(q, i + 1, Len(q)) \in Seq(Listing)
    <3>1. \A k \in i + 1 .. Len(q) : q[k] \in Listing
      BY <2>1, <2>3
    <3> QED BY <2>1, <3>1, SubSeqProperties
  <2> QED BY <2>2, <2>4, <2>5, ConcatProperties
<1>2. CASE ~\E i \in DOMAIN q : q[i].url = u
  BY <1>2 DEF Without
<1> QED BY <1>1, <1>2

LEMMA ListingChangesKeeps ==
    ASSUME SweepInv, ListingChanges
    PROVE  SweepInv' /\ db'.sweep = db.sweep /\ NothingRetired
<1>1. /\ StoreInv /\ TrickleInv /\ RequestInv /\ CopyInv(db) /\ CopyInv(disk)
      /\ db \in Copy /\ disk \in Copy /\ listing \in [Source -> Seq(Listing)]
  BY DEF SweepInv, StoreInv, CopyInv
<1>2. PICK s \in Source, l \in Listing :
         /\ listing' \in {[listing EXCEPT ![s] = q] : q \in
                {Without(listing[s], l.url), <<l>> \o Without(listing[s], l.url),
                 Append(Without(listing[s], l.url), l)}}
         /\ db' = [db EXCEPT !.calm = @ \ {s}] /\ disk' = [disk EXCEPT !.calm = @ \ {s}]
  BY DEF ListingChanges
<1>3. trickle' = trickle /\ request' = request
  BY DEF ListingChanges
<1> DEFINE rest == Without(listing[s], l.url)
<1>4. rest \in Seq(Listing)
  BY <1>1, WithoutIsListing
<1> HIDE DEF rest
<1>5. <<l>> \o rest \in Seq(Listing) /\ Append(rest, l) \in Seq(Listing)
  <2>1. <<l>> \in Seq(Listing)
    OBVIOUS
  <2> QED BY <1>4, <2>1, ConcatProperties
<1>6. PICK q \in Seq(Listing) : listing' = [listing EXCEPT ![s] = q]
  BY <1>2, <1>4, <1>5 DEF rest
<1>7. /\ listing' \in [Source -> Seq(Listing)]
      /\ \A o \in Source : o # s => listing'[o] = listing[o]
  BY <1>1, <1>6
<1>8. ASSUME NEW d \in Copy, Swept(d), PassedSoFar(d), NEW e, e = [d EXCEPT !.calm = @ \ {s}]
      PROVE  /\ e \in Copy /\ Swept(e)
             /\ e.sweep = d.sweep /\ e.place = d.place /\ e.row = d.row
             /\ e.calm \subseteq d.calm \ {s}
             /\ \A o \in e.calm : \A i \in DOMAIN listing'[o] :
                   i <= e.sweep[o].cursor => Passed(e, o, listing'[o][i].url)
  <2>1. /\ e \in Copy /\ e.sweep = d.sweep /\ e.place = d.place /\ e.row = d.row /\ e.claim = d.claim
        /\ e.calm = d.calm \ {s}
    BY <1>8 DEF Copy
  <2>2. Swept(e)
    BY <1>8, <2>1 DEF Swept, First
  <2>3. d.calm \subseteq Source
    BY DEF Copy
  <2>4. \A o \in e.calm : \A i \in DOMAIN listing'[o] :
           i <= e.sweep[o].cursor => Passed(e, o, listing'[o][i].url)
    <3> SUFFICES ASSUME NEW o \in e.calm, NEW i \in DOMAIN listing'[o], i <= e.sweep[o].cursor
                 PROVE  Passed(e, o, listing'[o][i].url)
      OBVIOUS
    <3>1. o \in d.calm /\ o \in Source /\ listing'[o] = listing[o]
      BY <1>7, <2>1, <2>3
    <3>2. Passed(d, o, listing[o][i].url)
      BY <1>8, <2>1, <3>1 DEF PassedSoFar
    <3> QED BY <2>1, <3>1, <3>2 DEF Passed
  <2> QED BY <2>1, <2>2, <2>4
<1>9. /\ CopyInv(db)' /\ CopyInv(disk)'
      /\ db'.sweep = db.sweep /\ db'.place = db.place /\ db'.row = db.row
      /\ disk'.sweep = disk.sweep
      /\ db'.calm \subseteq db.calm \ {s}
  <2>1. /\ db' \in Copy /\ Swept(db') /\ db'.sweep = db.sweep /\ db'.place = db.place
        /\ db'.row = db.row /\ db'.calm \subseteq db.calm \ {s}
        /\ \A o \in db'.calm : \A i \in DOMAIN listing'[o] :
              i <= db'.sweep[o].cursor => Passed(db', o, listing'[o][i].url)
    BY <1>1, <1>2, <1>8 DEF CopyInv
  <2>2. /\ disk' \in Copy /\ Swept(disk') /\ disk'.sweep = disk.sweep
        /\ \A o \in disk'.calm : \A i \in DOMAIN listing'[o] :
              i <= disk'.sweep[o].cursor => Passed(disk', o, listing'[o][i].url)
    BY <1>1, <1>2, <1>8 DEF CopyInv
  <2>3. CopyInv(db)'
    BY <2>1 DEF CopyInv, Swept, First, Lined, PassedSoFar, Passed, Copy, Row, Claim, Sweep, Places
  <2>4. CopyInv(disk)'
    BY <2>2 DEF CopyInv, Swept, First, Lined, PassedSoFar, Passed, Copy, Row, Claim, Sweep, Places
  <2> QED BY <2>1, <2>2, <2>3, <2>4
<1>10. StoreInv'
  BY <1>1, <1>7, <1>9 DEF StoreInv
<1>11. TrickleInv'
  <2>1. \A o \in db'.calm : listing'[o] = listing[o]
    BY <1>1, <1>7, <1>9 DEF Copy
  <2> QED BY <1>1, <1>3, <1>9, <2>1, TrickleStays
<1>12. NothingRetired
  BY <1>9 DEF NothingRetired
<1> QED BY <1>1, <1>3, <1>9, <1>10, <1>11, <1>12 DEF SweepInv, RequestInv

LEMMA CrashKeeps ==
    ASSUME SweepInv, Crash
    PROVE  SweepInv'
<1>1. /\ db' = disk /\ disk' = disk /\ listing' = listing /\ trickle' = Asleep /\ request' = Nothing
  BY DEF Crash
<1>2. StoreInv /\ CopyInv(disk) /\ disk \in Copy
  BY DEF SweepInv, StoreInv, CopyInv
<1>3. \A s \in Source : disk.sweep[s].done <= disk.sweep[s].done
  BY <1>2, DoneIsNatural
<1>4. StoreInv'
  BY <1>1, <1>2, <1>3, CopyMoves DEF StoreInv
<1> QED BY <1>1, <1>4, AsleepIsQuiet DEF SweepInv, RequestInv

LEMMA SweepInvHolds == SweepInv /\ [CatalogNext]_catalogVars => SweepInv'
<1> SUFFICES ASSUME SweepInv, [CatalogNext]_catalogVars PROVE SweepInv'
  OBVIOUS
<1>1. CASE Turn
  BY <1>1, TurnKeeps
<1>2. CASE RefreshSearch
  BY <1>2, RefreshSearchKeeps
<1>3. CASE RefreshUpsert
  BY <1>3, RefreshUpsertKeeps
<1>4. CASE BeginSweep \/ BeginSweepRaises
  BY <1>4, BeginSweepKeeps
<1>5. CASE FetchPage
  BY <1>5, FetchPageKeeps
<1>6. CASE FetchFails
  BY <1>6, FetchFailsKeeps
<1>7. CASE IngestPage \/ IngestRaises
  BY <1>7, IngestKeeps
<1>8. CASE Search
  BY <1>8, SearchKeeps
<1>9. CASE WriteThrough
  BY <1>9, WriteThroughKeeps
<1>10. CASE TouchSearched
  BY <1>10, TouchSearchedKeeps
<1>11. CASE MarkVerified
  BY <1>11, MarkVerifiedKeeps
<1>12. CASE ListingChanges
  BY <1>12, ListingChangesKeeps
<1>13. CASE Crash
  BY <1>13, CrashKeeps
<1>14. CASE UNCHANGED catalogVars
  <2>1. /\ db' = db /\ disk' = disk /\ listing' = listing /\ trickle' = trickle /\ request' = request
    BY <1>14 DEF catalogVars
  <2>2. StoreInv'
    BY <2>1, CopyMoves DEF SweepInv, StoreInv
  <2>3. TrickleInv'
    BY <2>1, TrickleStays DEF SweepInv
  <2> QED BY <2>1, <2>2, <2>3 DEF SweepInv, RequestInv
<1> QED BY <1>1, <1>2, <1>3, <1>4, <1>5, <1>6, <1>7, <1>8, <1>9, <1>10, <1>11, <1>12, <1>13, <1>14
        DEF CatalogNext, Trickle

\* Where a sweep may end, or a row be retired: a page is ingested, or the process dies.
LEMMA WhereSweepsMove ==
    ASSUME SweepInv, CatalogNext
    PROVE  \/ IngestPage \/ IngestRaises
           \/ db' = disk /\ disk' = disk
           \/ NothingRetired /\ (trickle.pc = "ingest" => db'.sweep = db.sweep)
<1>1. db \in Copy /\ CopyInv(db) /\ listing \in [Source -> Seq(Listing)] /\ TrickleInv
  BY DEF SweepInv, StoreInv, CopyInv
<1>2. CASE Turn
  <2>1. \A u \in Url : Aged(db).row[u].status = db.row[u].status
    BY <1>1, AgedKeeps
  <2> QED BY <1>2, <2>1 DEF Turn, NothingRetired
<1>3. CASE RefreshUpsert
  <2>1. trickle.source \in Source /\ trickle.got \in SUBSET Listing
    BY <1>1, <1>3 DEF RefreshUpsert, TrickleInv
  <2> QED BY <1>3, <2>1, UpsertStep DEF RefreshUpsert
<1>4. CASE BeginSweep \/ BeginSweepRaises
  <2>1. trickle.pc = "cold" /\ trickle.source \in Source
    BY <1>1, <1>4 DEF BeginSweep, BeginSweepRaises, TrickleInv
  <2>2. Begun(db, trickle.source).row = db.row
    BY <1>1, <2>1, BegunKeeps
  <2>3. db' = db \/ db' = Begun(db, trickle.source)
    BY <1>4 DEF BeginSweep, BeginSweepRaises, Commit
  <2> QED BY <2>1, <2>2, <2>3 DEF NothingRetired
<1>5. CASE RefreshSearch \/ FetchPage \/ FetchFails \/ Search
  <2>1. db' = db
    BY <1>5 DEF RefreshSearch, FetchPage, FetchFails, Search
  <2> QED BY <2>1 DEF NothingRetired
<1>6. CASE WriteThrough \/ TouchSearched \/ MarkVerified \/ ListingChanges
  BY <1>6, WriteThroughKeeps, TouchSearchedKeeps, MarkVerifiedKeeps, ListingChangesKeeps
<1>7. CASE Crash
  BY <1>7 DEF Crash
<1> QED BY <1>2, <1>3, <1>4, <1>5, <1>6, <1>7 DEF CatalogNext, Trickle

LEMMA CoversStep ==
    ASSUME SweepInv, CatalogNext, NEW s \in db.calm, SweepEnds(s)
    PROVE  UrlsOf(s) \subseteq Active(db')
<1>1. /\ StoreInv /\ TrickleInv /\ db \in Copy /\ disk \in Copy /\ CopyInv(db)
      /\ listing \in [Source -> Seq(Listing)]
  BY DEF SweepInv, StoreInv, CopyInv
<1>2. /\ trickle.pc = "ingest" /\ s = trickle.source /\ s \in Source
      /\ db.sweep[s].done # 0 /\ db'.sweep[s].done = 0
  BY <1>1 DEF SweepEnds, Copy
<1> DEFINE page == PageOf(s)
<1>3. /\ trickle.page.items \in SUBSET Listing /\ CopyInv(page) /\ First(page, s)
      /\ page.sweep[s].done = db.sweep[s].done
      /\ trickle.page.last => \A u \in UrlsOf(s) : u \in Url /\ Passed(page, s, u)
  BY <1>1, <1>2, PageIngested
<1> HIDE DEF page
<1>4. /\ CopyInv(Retired(page, s)) /\ First(Retired(page, s), s)
      /\ Retired(page, s).sweep = page.sweep
      /\ \A u \in Url : Passed(page, s, u) => Retired(page, s).row[u].status = "active"
  BY <1>1, <1>2, <1>3, RetiredKeeps DEF First
<1>5. Completed(Retired(page, s), s).row = Retired(page, s).row
  BY <1>1, <1>2, <1>4, CompletedKeeps
<1>6. CASE IngestPage \/ IngestRaises
  <2>1. \/ \E part \in SUBSET trickle.page.items : db' = UpsertAll(db, s, part, "now")
        \/ db' = page
        \/ trickle.page.last /\ (db' = Retired(page, s) \/ db' = Completed(Retired(page, s), s))
    BY <1>2, <1>6, IngestWrites DEF page
  <2>2. ASSUME NEW part \in SUBSET trickle.page.items PROVE db' # UpsertAll(db, s, part, "now")
    <3>1. part \in SUBSET Listing
      BY <1>3
    <3>2. UpsertAll(db, s, part, "now").sweep = db.sweep
      BY <1>1, <1>2, <3>1, UpsertAllFields
    <3> QED BY <1>2, <3>2
  <2>3. db' # page
    BY <1>2, <1>3
  <2>4. trickle.page.last /\ db'.row = Retired(page, s).row
    BY <1>5, <2>1, <2>2, <2>3
  <2> QED BY <1>3, <1>4, <2>4 DEF Active
<1>7. CASE db' = disk
  <2>1. /\ db.sweep[s].done <= disk.sweep[s].done
        /\ db.sweep[s].done \in Nat /\ disk.sweep[s].done \in Nat
    BY <1>1, <1>2, DoneIsNatural DEF StoreInv
  <2> QED BY <1>2, <1>7, <2>1
<1>8. CASE db'.sweep = db.sweep
  BY <1>2, <1>8
<1> QED BY <1>2, <1>6, <1>7, <1>8, WhereSweepsMove

LEMMA StaysStep ==
    ASSUME SweepInv, CatalogNext, NEW u \in Url, Retires(u), NEW o \in Source, SweptInTime(o, u)
    PROVE  u \notin UrlsOf(o)
<1> SUFFICES ASSUME u \in UrlsOf(o) PROVE FALSE
  OBVIOUS
<1>1. /\ StoreInv /\ TrickleInv /\ db \in Copy /\ CopyInv(db)
      /\ listing \in [Source -> Seq(Listing)]
  BY DEF SweepInv, StoreInv, CopyInv
<1>2. db.row[u].status = "active" /\ db'.row[u].status = "retired" /\ db' # disk
  BY DEF Retires, Active
<1>3. IngestPage \/ IngestRaises
  BY <1>2, WhereSweepsMove DEF NothingRetired
<1> DEFINE s == trickle.source
           page == PageOf(s)
<1>4. /\ trickle.pc = "ingest"
      /\ \/ \E part \in SUBSET trickle.page.items : db' = UpsertAll(db, s, part, "now")
         \/ db' = page
         \/ trickle.page.last /\ (db' = Retired(page, s) \/ db' = Completed(Retired(page, s), s))
  BY <1>3, IngestWrites
<1>5. /\ s \in Source /\ trickle.page.items \in SUBSET Listing /\ CopyInv(page) /\ First(page, s)
      /\ \A r \in Source \ {s} : page.claim[r] = db.claim[r]
      /\ page.row[u].status = "active"
      /\ trickle.page.last /\ s \in db.calm => \A w \in UrlsOf(s) : Passed(page, s, w)
  BY <1>1, <1>2, <1>4, PageIngested
<1> HIDE DEF page
<1>6. /\ CopyInv(Retired(page, s)) /\ First(Retired(page, s), s)
      /\ \A w \in Url : Passed(page, s, w) => Retired(page, s).row[w].status = "active"
      /\ Retired(page, s).row[u].status = "retired" => u \in Unseen(page, s)
  BY <1>1, <1>5, RetiredKeeps DEF First
<1>7. Completed(Retired(page, s), s).row = Retired(page, s).row
  BY <1>1, <1>5, <1>6, CompletedKeeps
<1>8. ASSUME NEW part \in SUBSET trickle.page.items PROVE db' # UpsertAll(db, s, part, "now")
  <2>1. part \in SUBSET Listing
    BY <1>5
  <2>2. UpsertAll(db, s, part, "now").row[u].status = "active"
    BY <1>1, <1>2, <1>5, <2>1, UpsertAllFields
  <2> QED BY <1>2, <2>2
<1>9. db' # page
  BY <1>2, <1>5
<1>10. trickle.page.last /\ db'.row = Retired(page, s).row
  BY <1>4, <1>7, <1>8, <1>9
<1>11. u \in Unseen(page, s) /\ Retired(page, s).row[u].status = "retired"
  BY <1>2, <1>6, <1>10
<1>12. CASE o = s
  BY <1>5, <1>6, <1>10, <1>11, <1>12 DEF SweptInTime
<1>13. CASE o # s
  <2>1. page.claim[o] = db.claim[o]
    BY <1>5, <1>13
  <2>2. KeptByOther(page, s, u)
    BY <1>13, <2>1 DEF KeptByOther, SweptInTime
  <2> QED BY <1>11, <2>2 DEF Unseen
<1> QED BY <1>12, <1>13

-----------------------------------------------------------------------------
(* What Catalog promises *)

\* The copies of the catalog are well formed, only the longest unswept source is under
\* way, and what its sweep has passed is active and of its generation.
THEOREM SweepsAreInOrder == CatalogSpec => []SweepInv
<1>1. CatalogInit => SweepInv
  BY CatalogInitInv
<1>2. SweepInv /\ [CatalogNext]_catalogVars => SweepInv'
  BY SweepInvHolds
<1> QED BY <1>1, <1>2, PTL DEF CatalogSpec

\* A sweep that ends (ingest_page with its last page) saw all its source lists: whatever
\* limit the source answers with, whatever raised or died on the way, however many sources
\* and pages there are, no row it lists is left out or retired.
THEOREM SweepsMissNothing == CatalogSpec => SweepCovers
<1>1. SweepInv /\ [CatalogNext]_catalogVars =>
          [\A s \in db.calm : SweepEnds(s) => UrlsOf(s) \subseteq Active(db')]_catalogVars
  BY CoversStep
<1> QED BY <1>1, SweepsAreInOrder, PTL DEF CatalogSpec, SweepCovers

\* What one source dropped stays while another lists it and swept it in time
\* (the second query of _retire_unseen_unlocked), however the sweeps and failures interleave.
THEOREM ListedIsKept == CatalogSpec => ListedElsewhereStays
<1>1. SweepInv /\ [CatalogNext]_catalogVars =>
          [\A u \in Url : Retires(u) =>
              \A o \in Source : SweptInTime(o, u) => u \notin UrlsOf(o)]_catalogVars
  BY StaysStep
<1> QED BY <1>1, SweepsAreInOrder, PTL DEF CatalogSpec, ListedElsewhereStays

-----------------------------------------------------------------------------
(* The operators of Purchase *)

\* match_accept yields an advertised accept that the payload answers.
LEMMA MatchedAccept ==
    ASSUME NEW p, NEW resource,
           MatchAccept(p, Required(resource)) # Unmatched
    PROVE  \E i \in Matches(p, Required(resource)) :
               MatchAccept(p, Required(resource)) = Required(resource).accepts[i]
<1> DEFINE M == Matches(p, Required(resource))
<1>0. DOMAIN Required(resource).accepts = {1, 2}
  <2>1. DOMAIN Rails = {1, 2}
    BY DEF Rails
  <2> QED BY <2>1 DEF Required
<1>1. M # {} /\ M \subseteq {1, 2}
  BY <1>0 DEF MatchAccept, Matches
<1>2. \E i \in M : \A j \in M : i <= j
  BY <1>1
<1> QED BY <1>1, <1>2 DEF MatchAccept

\* observed_challenge yields a challenge within the profile.
LEMMA StrictInProfile ==
    ASSUME NEW r, NEW e \in Envelope, Strict(r) = e, e # None
    PROVE  InProfile(e)
<1> DEFINE said == {r.head, r.page} \cap Envelope
<1>1. /\ Cardinality(said) = 1 /\ \A x \in said : InProfile(x)
      /\ e = CHOOSE x \in said : TRUE
  BY DEF Strict
<1>2. said # {}
  BY <1>1, FS_EmptySet
<1> QED BY <1>1, <1>2

\* selected_index finds the accept it was given, and finds it plain.
LEMMA SelectedIsChosen ==
    ASSUME NEW e \in Envelope, NEW i \in DOMAIN e.accepts,
           SelectedIndex(e, e.accepts[i].terms) # 0
    PROVE  SelectedIndex(e, e.accepts[i].terms) = i /\ e.accepts[i].plain
<1> DEFINE same == {j \in DOMAIN e.accepts : e.accepts[j].terms = e.accepts[i].terms}
<1>1. /\ Cardinality(same) = 1 /\ \A j \in same : e.accepts[j].plain
      /\ SelectedIndex(e, e.accepts[i].terms) = CHOOSE j \in same : TRUE
  BY DEF SelectedIndex
<1>2. IsFiniteSet(same)
  BY EnvelopeAssumption, FS_Subset
<1>3. PICK x : same = {x}
  BY <1>1, <1>2, FS_Singleton
<1>4. i \in same
  OBVIOUS
<1> QED BY <1>1, <1>3, <1>4

-----------------------------------------------------------------------------
(* PaidForOffered *)

\* Everything the payload and the accept agree on when it is forwarded.
LEMMA ForwardedIsOffered ==
    ASSUME NEW p \in Forms, NEW resource \in Resources,
           NEW i \in Matches(p, Required(resource)),
           NEW item, item = Required(resource).accepts[i]
    PROVE  LET rail == RailOf(item.network, "v2")
           IN  /\ item \in {Required(resource).accepts[j] :
                              j \in DOMAIN Required(resource).accepts}
               /\ resource \in {p.top.resource, p.inner.resource}
               /\ {p.top.resource, Accepted(p).resource} \subseteq {resource, Absent}
               /\ RailOf(NetworkOf(p), VersionOf(p)) = rail
               /\ PayToEqual(Accepted(p).payTo, item.payTo, rail)
               /\ (IF VersionOf(p) = "v1" THEN Accepted(p).maxAmount ELSE Accepted(p).amount)
                      = item.amount
               /\ TokenOf(Accepted(p)) \in {item.asset} \cup Symbols
               /\ \A f \in Overlaid :
                     /\ Forwarded(p, item).inner[f] = item[f]
                     /\ Forwarded(p, item).top[f] \in {item[f], Absent}
               /\ Forwarded(p, item).inner.maxAmount \in {item.amount, Absent}
               /\ p.top.version # Absent => Forwarded(p, item).version = VersionOf(p)
<1> DEFINE rail == RailOf(item.network, "v2")
<1>1. /\ i \in DOMAIN Required(resource).accepts
      /\ ForResource(p, resource)
      /\ RailOf(NetworkOf(p), VersionOf(p)) = rail
      /\ PayToEqual(Accepted(p).payTo, item.payTo, rail)
      /\ AmountOf(Accepted(p), VersionOf(p)) = item.amount
      /\ TokensAgree(Accepted(p), item) /\ VersionOf(p) # "none"
  <2>1. Required(resource).version = "v2" /\ Required(resource).resource = resource
    BY DEF Required
  <2> QED BY <2>1 DEF Matches
<1>2. item.amount = "fee"
  BY <1>1 DEF Required
<1>3. (IF VersionOf(p) = "v1" THEN Accepted(p).maxAmount ELSE Accepted(p).amount) = item.amount
  BY <1>1, <1>2 DEF AmountOf, Canonical
<1>4. DOMAIN p.top = Fields /\ DOMAIN p.inner = Fields /\ p.nested \in BOOLEAN
  BY FormsAssumption
<1>5. DOMAIN Accepted(p) = Fields
  BY <1>4 DEF Accepted
<1>6. ~p.nested => Accepted(p).resource = Absent
  BY <1>4 DEF Accepted, V1Fields, Fields
<1>7. /\ resource \in {p.top.resource, p.inner.resource}
      /\ {p.top.resource, Accepted(p).resource} \subseteq {resource, Absent}
  BY <1>1, <1>4, <1>6 DEF ForResource, Accepted
<1>8. ASSUME NEW f \in Overlaid
      PROVE  /\ Forwarded(p, item).inner[f] = item[f]
             /\ Forwarded(p, item).top[f] \in {item[f], Absent}
  <2>1. f \in Fields
    BY DEF Overlaid, Fields
  <2> QED BY <1>4, <1>5, <2>1 DEF Forwarded, Overlay, OverlayGiven
<1>9. TokenOf(Accepted(p)) \in {item.asset} \cup Symbols
  BY <1>1 DEF TokensAgree
<1>10. Forwarded(p, item).inner.maxAmount \in {item.amount, Absent}
  <2>1. Accepted(p).maxAmount \in {item.amount, Absent}
    BY <1>1, <1>2, <1>3 DEF AmountOf, Canonical
  <2>2. Forwarded(p, item).inner.maxAmount = Accepted(p).maxAmount
    BY <1>5 DEF Forwarded, Overlay, Overlaid, Fields
  <2> QED BY <2>1, <2>2
<1>11. p.top.version # Absent => Forwarded(p, item).version = VersionOf(p)
  <2> SUFFICES ASSUME p.top.version # Absent PROVE p.top.version = VersionOf(p)
    BY DEF Forwarded
  <2> DEFINE given == {p.top.version, Accepted(p).version} \ {Absent}
  <2>1. Cardinality(given) = 1 /\ VersionOf(p) = CHOOSE v \in given : TRUE
    BY <1>1 DEF VersionOf
  <2>2. IsFiniteSet(given)
    <3>1. IsFiniteSet({p.top.version} \cup {Accepted(p).version})
      BY FS_Singleton, FS_Union
    <3>2. given \subseteq {p.top.version} \cup {Accepted(p).version}
      OBVIOUS
    <3> QED BY <3>1, <3>2, FS_Subset
  <2>3. PICK v : given = {v}
    BY <2>1, <2>2, FS_Singleton
  <2>4. p.top.version \in given
    OBVIOUS
  <2> QED BY <2>1, <2>3, <2>4
<1> QED BY <1>1, <1>3, <1>7, <1>8, <1>9, <1>10, <1>11

\* What the router forwards is an accept it offers for this resource and what
\* the client signed (rail, address, amount, token, and the version, if that is at
\* the top level), and the fields it rewrites say so in every copy, for every
\* payload a client may send.
THEOREM ForwardsOffered == Spec => []PaidForOffered
<1>1. Init => PaidForOffered
  BY DEF Init, PaidForOffered
<1>2. PaidForOffered /\ [Next]_vars => PaidForOffered'
  <2> SUFFICES ASSUME PaidForOffered, [Next]_vars, stage' = "verify" PROVE PaidForOffered'
    BY DEF PaidForOffered
  <2>1. ASSUME NEW p \in Forms, NEW resource \in Resources, NEW req \in Request,
               Post(p, resource, req)
        PROVE  PaidForOffered'
    <3> DEFINE item == MatchAccept(p, Required(resource))
    <3>1. /\ item # Unmatched
          /\ sent' = [item |-> item, payload |-> p, forwarded |-> Forwarded(p, item)]
          /\ asked' = [resource |-> resource, request |-> req]
      BY <2>1 DEF Post
    <3>2. PICK i \in Matches(p, Required(resource)) : item = Required(resource).accepts[i]
      BY <3>1, MatchedAccept
    <3>3. /\ sent'.item = item /\ sent'.payload = p /\ sent'.forwarded = Forwarded(p, item)
          /\ asked'.resource = resource
      BY <3>1
    <3> HIDE DEF item
    <3> QED BY <3>2, <3>3, ForwardedIsOffered DEF PaidForOffered
  <2>2. CASE UNCHANGED <<stage, asked, sent>>
    BY <2>2 DEF PaidForOffered
  <2> QED BY <2>1, <2>2
          DEF Next, Verify, Attach, Probe, Pay, Bind, Differ, Tick, Settle, vars
<1> QED BY <1>1, <1>2, PTL DEF Spec

-----------------------------------------------------------------------------
(* ChargedCanVerify, PaysWhatWasRouted *)

\* The winner is an accept of an envelope its seller showed; a quote is kept
\* only of an envelope within the profile.
WonInv ==
    stage = "bind" =>
        /\ won.envelope \in Envelope
        /\ \E i \in DOMAIN won.envelope.accepts : won.accept = won.envelope.accepts[i]
        /\ won.observed # None => InProfile(won.envelope)

\* Binding b names accept i of the winner's envelope, and passes every check
\* that does not look at the clock.
Bound(b, w, i) ==
    /\ b = [lasts |-> Ttl, context |-> w.context, quote |-> w.envelope, index |-> i]
    /\ w.envelope # None /\ InProfile(w.envelope)
    /\ i \in DOMAIN w.envelope.accepts /\ w.accept = w.envelope.accepts[i]
    /\ w.accept.plain
    /\ w.envelope.resource \in {Absent, "own"}

\* From the settlement on there is such a binding.
BoundInv ==
    stage \in {"settle", "settled", "unknown", "answered", "receiptless", "paid"} =>
        \E i : Bound(binding, won, i)

\* Whatever happens to the answer, its signed part is one the router signed.
AnswerInv ==
    stage = "answered" =>
        \E s \in SignedAnswers : answer.request = s.request /\ answer.binding = s.binding

\* An answer of before names the accept its probe chose.
EarlierInv ==
    earlier # None =>
        earlier.accept = earlier.binding.quote.accepts[earlier.binding.index]

PurchaseInv ==
    age \in Nat /\ WonInv /\ BoundInv /\ EarlierInv /\ AnswerInv /\ PaysWhatWasRouted

\* build succeeds only with such a binding.
LEMMA BuildBinds ==
    ASSUME NEW req, NEW w, NEW now, Build(req, w, now) # None,
           w.envelope \in Envelope, w.observed # None => InProfile(w.envelope),
           NEW i \in DOMAIN w.envelope.accepts, w.accept = w.envelope.accepts[i]
    PROVE  Bound(Build(req, w, now), w, i)
<1> DEFINE index == SelectedIndex(w.envelope, w.accept.terms)
<1>1. /\ w.observed # None /\ w.observed = w.envelope
      /\ index # 0 /\ w.envelope.resource \in {Absent, "own"}
      /\ Build(req, w, now) = [lasts |-> Ttl, context |-> w.context, quote |-> w.observed,
                               index |-> index]
  BY DEF Build
<1>2. index = i /\ w.accept.plain
  BY <1>1, SelectedIsChosen
<1> QED BY <1>1, <1>2 DEF Bound

LEMMA BoundIsSome == ASSUME NEW b, NEW w, NEW i, Bound(b, w, i) PROVE b # None
<1>1. "lasts" \in DOMAIN b /\ "lasts" \notin DOMAIN None
  BY DEF Bound, None
<1> QED BY <1>1

LEMMA PurchaseInit == Init => PurchaseInv
BY DEF Init, PurchaseInv, WonInv, BoundInv, EarlierInv, AnswerInv, PaysWhatWasRouted

\* The router's own answer and the older one are among what it signed.
LEMMA OwnIsSigned ==
    /\ [request |-> asked.request, binding |-> binding, accept |-> won.accept]
           \in SignedAnswers
    /\ earlier # None => earlier \in SignedAnswers
<1> DEFINE own == [request |-> asked.request, binding |-> binding, accept |-> won.accept]
<1>1. "none" \in DOMAIN None /\ "none" \notin DOMAIN own
  BY DEF None
<1>2. own # None
  BY <1>1
<1> QED BY <1>2 DEF SignedAnswers

\* An answer of before is over a binding build made, cut to what is left of it.
LEMMA EarlierIsBound ==
    ASSUME NEW req, NEW e \in Envelope, NEW i \in DOMAIN e.accepts, NEW ctx, NEW left,
           NEW s, s = SignedBefore(req, e, i, ctx, left), s # None
    PROVE  s.accept = s.binding.quote.accepts[s.binding.index]
<1> DEFINE w == [envelope |-> e, context |-> ctx, accept |-> e.accepts[i],
                 observed |-> IF InProfile(e) THEN e ELSE None]
           b == Build(req, w, 0)
<1>1. b # None /\ s.binding = [b EXCEPT !.lasts = left] /\ s.accept = e.accepts[i]
  BY DEF SignedBefore
<1>2. w.envelope = e /\ w.accept = e.accepts[i] /\ (w.observed # None => InProfile(e))
  OBVIOUS
<1> HIDE DEF w
<1>3. Bound(b, w, i)
  BY <1>1, <1>2, BuildBinds
<1>4. b.quote = e /\ b.index = i /\ DOMAIN b = {"lasts", "context", "quote", "index"}
  BY <1>2, <1>3 DEF Bound
<1> HIDE DEF b
<1>5. s.binding.quote = e /\ s.binding.index = i
  BY <1>1, <1>4
<1> QED BY <1>1, <1>5

LEMMA PurchaseStep == PurchaseInv /\ [Next]_vars => PurchaseInv'
<1> SUFFICES ASSUME PurchaseInv, [Next]_vars PROVE PurchaseInv'
  OBVIOUS
<1> USE DEF PurchaseInv
<1>1. ASSUME NEW p, NEW resource, NEW req, Post(p, resource, req) PROVE PurchaseInv'
  BY <1>1 DEF Post, WonInv, BoundInv, EarlierInv, AnswerInv, PaysWhatWasRouted
<1>2. ASSUME NEW ok, Verify(ok) PROVE PurchaseInv'
  BY <1>2 DEF Verify, WonInv, BoundInv, EarlierInv, AnswerInv, PaysWhatWasRouted
<1>3. ASSUME NEW r, NEW ctx, NEW moved, NEW safe, Probe(r, ctx, moved, safe)
      PROVE  PurchaseInv'
  <2>1. WonInv'
    <3> SUFFICES ASSUME stage' = "bind" PROVE WonInv'
      BY DEF WonInv
    <3> DEFINE e == Parsed(r)
    <3>1. e # None
      BY <1>3 DEF Probe
    <3>2. e \in Envelope
      BY <3>1 DEF Parsed
    <3>3. PICK i \in DOMAIN e.accepts :
              won' = [envelope |-> e, context |-> ctx, accept |-> e.accepts[i],
                      observed |-> IF ~moved /\ Strict(r) = e THEN e ELSE None,
                      safe |-> safe]
      BY <1>3, <3>1 DEF Probe
    <3>4. won'.observed # None => InProfile(e)
      BY <3>1, <3>2, <3>3, StrictInProfile
    <3> HIDE DEF e
    <3> QED BY <3>2, <3>3, <3>4 DEF WonInv
  <2> QED BY <1>3, <2>1 DEF Probe, BoundInv, EarlierInv, AnswerInv, PaysWhatWasRouted
<1>4. CASE Bind
  <2>1. stage' = "settle" => \E i : Bound(binding', won, i)
    <3> SUFFICES ASSUME stage' = "settle" PROVE \E i : Bound(binding', won, i)
      OBVIOUS
    <3>1. binding' = Build(asked.request, won, age) /\ binding' # None /\ WonInv /\ stage = "bind"
      BY <1>4 DEF Bind
    <3>2. PICK i \in DOMAIN won.envelope.accepts : won.accept = won.envelope.accepts[i]
      BY <3>1 DEF WonInv
    <3> QED BY <3>1, <3>2, BuildBinds DEF WonInv
  <2>2. BoundInv'
    BY <1>4, <2>1 DEF Bind, BoundInv
  <2> QED BY <1>4, <2>2 DEF Bind, WonInv, EarlierInv, AnswerInv, PaysWhatWasRouted
<1>5. ASSUME NEW outcome \in {"settled", "unknown", "refused"}, Settle(outcome)
      PROVE  PurchaseInv'
  BY <1>5 DEF Settle, WonInv, BoundInv, EarlierInv, AnswerInv, PaysWhatWasRouted
<1>6. ASSUME NEW issued, Attach(issued) PROVE PurchaseInv'
  <2>1. AnswerInv'
    <3> SUFFICES ASSUME stage' = "answered" PROVE AnswerInv'
      BY DEF AnswerInv
    <3>1. answer' = Evidence(asked.request, binding, won.safe)
      BY <1>6 DEF Attach
    <3>2. answer'.request = asked.request /\ answer'.binding = binding
      BY <3>1 DEF Evidence
    <3>3. SignedAnswers' = SignedAnswers
      BY <1>6 DEF Attach, SignedAnswers
    <3> QED BY <3>2, <3>3, OwnIsSigned DEF AnswerInv
  <2> QED BY <1>6, <2>1 DEF Attach, WonInv, BoundInv, EarlierInv, PaysWhatWasRouted
<1>7. CASE Differ
  <2>1. UNCHANGED <<stage, asked, sent, won, age, binding, paid>> /\ stage = "answered"
    BY <1>7 DEF Differ
  <2>2. AnswerInv' /\ EarlierInv'
    <3>1. CASE answer' = [answer EXCEPT !.signed = FALSE] /\ UNCHANGED earlier
      <4>1. SignedAnswers' = SignedAnswers
        BY <2>1, <3>1 DEF SignedAnswers
      <4>2. answer'.request = answer.request /\ answer'.binding = answer.binding
        BY <3>1
      <4> QED BY <2>1, <3>1, <4>1, <4>2 DEF AnswerInv, EarlierInv
    <3>2. ASSUME NEW ctx, answer' = [answer EXCEPT !.outer.context = ctx], UNCHANGED earlier
          PROVE  AnswerInv' /\ EarlierInv'
      <4>1. SignedAnswers' = SignedAnswers
        BY <2>1, <3>2 DEF SignedAnswers
      <4>2. answer'.request = answer.request /\ answer'.binding = answer.binding
        BY <3>2
      <4> QED BY <2>1, <3>2, <4>1, <4>2 DEF AnswerInv, EarlierInv
    <3>3. ASSUME NEW req \in Request, NEW e \in Envelope, NEW ctx \in Context, NEW left \in 1..Ttl,
                 NEW i \in DOMAIN e.accepts, earlier' = SignedBefore(req, e, i, ctx, left),
                 earlier' # None, answer' = Evidence(earlier'.request, earlier'.binding, TRUE)
          PROVE  AnswerInv' /\ EarlierInv'
      <4>1. EarlierInv'
        BY <3>3, EarlierIsBound DEF EarlierInv
      <4>2. answer'.request = earlier'.request /\ answer'.binding = earlier'.binding
        BY <3>3 DEF Evidence
      <4>3. earlier' \in SignedAnswers'
        BY <3>3 DEF SignedAnswers
      <4> QED BY <4>1, <4>2, <4>3 DEF AnswerInv
    <3> QED BY <1>7, <3>1, <3>2, <3>3 DEF Differ
  <2>3. WonInv' /\ BoundInv' /\ PaysWhatWasRouted' /\ age' \in Nat
    BY <2>1 DEF WonInv, BoundInv, PaysWhatWasRouted
  <2> QED BY <2>2, <2>3
<1>8. ASSUME NEW r, NEW ctx, Pay(r, ctx) PROVE PurchaseInv'
  <2> DEFINE e == ChallengeFrom(r)
             acc == Guard(answer, asked.request, e, ctx, age)
  <2>1. /\ stage = "answered" /\ acc # None
        /\ paid' = [accept |-> acc, envelope |-> e, context |-> ctx, for |-> answer.request]
        /\ UNCHANGED <<asked, won, age, binding, answer, earlier>> /\ stage' = "paid"
    BY <1>8 DEF Pay
  <2>2. PICK s \in SignedAnswers : answer.request = s.request /\ answer.binding = s.binding
    BY <2>1 DEF AnswerInv
  <2>3. /\ answer.request = asked.request /\ age < s.binding.lasts
        /\ ctx = s.binding.context /\ e = s.binding.quote
        /\ acc = e.accepts[s.binding.index]
    BY <2>1, <2>2 DEF Guard, Authentic
  <2>4. PICK i : Bound(binding, won, i)
    BY <2>1 DEF BoundInv
  <2>5. s.accept = s.binding.quote.accepts[s.binding.index]
    <3>1. CASE s = earlier /\ earlier # None
      BY <3>1 DEF EarlierInv
    <3>2. CASE s = [request |-> asked.request, binding |-> binding, accept |-> won.accept]
      <4>1. s.binding = binding /\ s.accept = won.accept
        BY <3>2
      <4>2. binding.quote = won.envelope /\ binding.index = i
            /\ won.accept = won.envelope.accepts[i]
        BY <2>4 DEF Bound
      <4> QED BY <4>1, <4>2
    <3> QED BY <3>1, <3>2 DEF SignedAnswers
  <2>6. SignedAnswers' = SignedAnswers
    BY <2>1 DEF SignedAnswers
  <2>7. paid' = [accept |-> s.accept, envelope |-> s.binding.quote,
                 context |-> s.binding.context, for |-> asked.request]
    BY <2>1, <2>3, <2>5
  <2>8. PaysWhatWasRouted'
    BY <2>1, <2>2, <2>3, <2>6, <2>7 DEF PaysWhatWasRouted
  <2>9. BoundInv' /\ WonInv' /\ EarlierInv' /\ AnswerInv' /\ age' \in Nat
    BY <2>1, <2>4 DEF WonInv, BoundInv, EarlierInv, AnswerInv
  <2> QED BY <2>8, <2>9
<1>9. CASE Tick
  <2>1. SignedAnswers' = SignedAnswers
    BY <1>9 DEF Tick, SignedAnswers
  <2> QED BY <1>9, <2>1 DEF Tick, WonInv, BoundInv, EarlierInv, AnswerInv, PaysWhatWasRouted
<1>10. CASE UNCHANGED vars
  <2>1. SignedAnswers' = SignedAnswers
    BY <1>10 DEF vars, SignedAnswers
  <2> QED BY <1>10, <2>1
          DEF vars, WonInv, BoundInv, EarlierInv, AnswerInv, PaysWhatWasRouted
<1> QED BY <1>1, <1>2, <1>3, <1>4, <1>5, <1>6, <1>7, <1>8, <1>9, <1>10 DEF Next

LEMMA PurchaseAlways == Spec => []PurchaseInv
BY PurchaseInit, PurchaseStep, PTL DEF Spec

\* A bound quote passes verify_route until it expires, and the guard too if the
\* response is safe to it, and both yield the accept the router chose.
LEMMA BoundVerifies ==
    ASSUME NEW req, NEW b, NEW w, NEW i, Bound(b, w, i), NEW now \in Nat, now < Ttl,
           NEW safe
    PROVE  LET a == Evidence(req, b, safe)
           IN  /\ VerifyRoute(a, req, w.envelope, w.context, now) = w.accept
               /\ safe => Guard(a, req, w.envelope, w.context, now) = w.accept
<1>1. /\ b.lasts = Ttl /\ b.context = w.context /\ b.quote = w.envelope /\ b.index = i
      /\ b # None
  BY BoundIsSome DEF Bound
<1>2. Valid(b)
  BY <1>1, PurchaseAssumption DEF Valid
<1>3. /\ Authentic(Evidence(req, b, safe), req) /\ Evidence(req, b, safe).binding = b
      /\ Evidence(req, b, safe).safe = safe
  BY DEF Authentic, Evidence
<1> QED BY <1>1, <1>2, <1>3 DEF VerifyRoute, VerifyChallenge, Guard, Bound

\* A buyer is charged only for a binding it can use: what build let through,
\* verify_route accepts, and so does the buyer's guard of a response it can read,
\* and both select the same accept.
THEOREM ChargedIsUsable == Spec => []ChargedCanVerify
<1>1. ASSUME PurchaseInv PROVE ChargedCanVerify
  <2> SUFFICES ASSUME stage \in {"settle", "settled", "unknown", "answered", "receiptless"}
               PROVE  /\ binding # None
                      /\ age < Ttl =>
                           LET a == Evidence(asked.request, binding, won.safe)
                           IN  /\ VerifyRoute(a, asked.request, won.envelope, won.context, age)
                                      = won.accept
                               /\ won.safe =>
                                    Guard(a, asked.request, won.envelope, won.context, age)
                                      = won.accept
    BY DEF ChargedCanVerify
  <2>1. PICK i : Bound(binding, won, i)
    BY <1>1 DEF PurchaseInv, BoundInv
  <2> QED BY <1>1, <2>1, BoundIsSome, BoundVerifies DEF PurchaseInv
<1> QED BY <1>1, PurchaseAlways, PTL

\* The buyer pays the seller only what the router chose and signed for this very
\* request and what has not expired, whatever was put in place of the router's
\* answer on its way, an older signed answer included.
THEOREM PaysRouted == Spec => []PaysWhatWasRouted
<1>1. PurchaseInv => PaysWhatWasRouted
  BY DEF PurchaseInv
<1> QED BY <1>1, PurchaseAlways, PTL

=============================================================================
