----------------------------- MODULE Selection -----------------------------
(***************************************************************************)
(* The choice among probed results: live402/select.py, with the parts of    *)
(* economics.py and payment.py it is built from.  A result is what one      *)
(* unpaid probe observed.  Prices are in units of USDC, rates and scores in *)
(* per cent; wire formats and labels are left out.                          *)
(***************************************************************************)
EXTENDS Reputation, Sequences, SequencesExt

CONSTANTS
    Rail,
    Finality,     \* RAIL_FINALITY: rail -> ms, or None
    ComparedCap   \* COMPARED_CAP

ASSUME FinalityAssumption == \A r \in Rail : Finality[r] = None \/ Finality[r] \in Nat
ASSUME CapAssumption == ComparedCap \in Nat \ {0}

---------------------------------------------------------------------------
\* Payment options: [rail, asset, amount, payTo], all of them complete.

Known(o) == o.asset = "usdc"                    \* known_usdc_asset
Usd(o) == IF Known(o) THEN o.amount ELSE None
AssetKey(o) == <<o.rail, o.asset>>

\* The elements of s that are in S, in their order: SelectSeq with a set for its test, as a
\* function a proof can unfold.
Only(s, S) ==
    LET kept[i \in 0 .. Len(s)] ==
            IF i = 0 THEN <<>>
            ELSE IF s[i] \in S THEN Append(kept[i - 1], s[i]) ELSE kept[i - 1]
    IN  kept[Len(s)]

Usds(opts) == {Usd(o) : o \in ToSet(opts)} \ {None}
Least(S) == IF S = {} THEN None ELSE Min(S)

\* accepts[] of the challenge: what is not a valid accept is no option, and of two
\* options at one price in one asset only the first is kept, whoever is paid.
SamePrice(o, p) == AssetKey(o) = AssetKey(p) /\ o.amount = p.amount
Observed(accepts) ==
    LET New(opts, a) == a.valid /\ \A i \in DOMAIN opts : ~SamePrice(opts[i], a.option)
        opts[i \in 0 .. Len(accepts)] ==
            IF i = 0 THEN <<>>
            ELSE IF New(opts[i - 1], accepts[i]) THEN Append(opts[i - 1], accepts[i].option)
            ELSE opts[i - 1]
    IN  opts[Len(accepts)]

\* A result of a probe: live, payTo (the first of the challenge, whatever its rail),
\* opts, schema, changed, pending, latency, service, the rail the catalog lists, and the
\* seller's evidence.
Payable(r) == r.live /\ r.opts # <<>>
Invocable(r) == Payable(r) /\ r.schema

---------------------------------------------------------------------------
\* Constraints.  None: no bound.  An unknown value fails a bound.
AtMost(x, bound) == bound = None \/ (x # None /\ x <= bound)
AtLeast(x, bound) == bound = None \/ (x # None /\ x >= bound)

OptionFits(o, c) ==
    /\ c.rails = None \/ o.rail \in c.rails
    /\ c.maxAmount = None \/ (Known(o) /\ o.amount <= c.maxAmount)
    /\ AtMost(Usd(o), c.maxUsd)
Eligible(r, c) == Only(r.opts, {o \in ToSet(r.opts) : OptionFits(o, c)})

\* Chain and facilitator fees are never known in USD, so neither is a total.
TotalCost(o) == None
\* Without a selected payment, economics reads the first option of the challenge, and
\* without one the rail the catalog lists.
SettlementOf(r) ==
    LET rail == IF r.opts # <<>> THEN r.opts[1].rail ELSE r.rail
    IN  IF rail = None THEN None ELSE Finality[rail]
TotalOf(r) == None

Observations(r) == IF r.evidence.n = None THEN 0 ELSE r.evidence.n
ResultFits(r, c) ==
    /\ AtMost(r.latency, c.maxProbe)
    /\ AtMost(r.service, c.maxService)
    /\ AtLeast(Observations(r), c.minObservations)
    /\ AtLeast(Success(r.evidence), c.minSuccess)
    /\ AtLeast(Score(r.evidence), c.minScore)
    /\ AtLeast(Confidence(r.evidence), c.minConfidence)
    /\ c.invocable => Invocable(r)

Passes(r, c) == \* passes_constraints: some option fits; the economics are the first one's
    /\ Payable(r)
    /\ Eligible(r, c) # <<>>
    /\ ResultFits(r, c)
    /\ AtMost(SettlementOf(r), c.maxSettlement)
    /\ AtMost(TotalOf(r), c.maxTotal)

\* unmet_constraint_names: a second telling of the same bounds, for the answer.
Fails(r, c, k) ==
    CASE k = "networks" -> c.rails # None /\ Eligible(r, c) = <<>>
      [] k = "maxUsd" -> c.maxUsd # None /\ Eligible(r, c) = <<>>
      [] k = "maxAmount" -> c.maxAmount # None /\ Eligible(r, c) = <<>>
      [] k = "maxProbe" -> ~AtMost(r.latency, c.maxProbe)
      [] k = "maxService" -> ~AtMost(r.service, c.maxService)
      [] k = "minObservations" -> ~AtLeast(Observations(r), c.minObservations)
      [] k = "minSuccess" -> ~AtLeast(Success(r.evidence), c.minSuccess)
      [] k = "minScore" -> ~AtLeast(Score(r.evidence), c.minScore)
      [] k = "minConfidence" -> ~AtLeast(Confidence(r.evidence), c.minConfidence)
      [] k = "maxSettlement" -> ~AtMost(SettlementOf(r), c.maxSettlement)
      [] k = "maxTotal" -> ~AtMost(TotalOf(r), c.maxTotal)
      [] k = "invocable" -> c.invocable /\ ~Invocable(r)
ConstraintName ==
    {"networks", "maxUsd", "maxAmount", "maxProbe", "maxService", "minObservations",
     "minSuccess", "minScore", "minConfidence", "maxSettlement", "maxTotal", "invocable"}
Unmet(r, c) == IF r.live THEN {k \in ConstraintName : Fails(r, c, k)} ELSE {}

Selectable(r, c) == r.pending => c.acceptChange

\* selected_payment_passes_constraints, the exact option.
PassesExactly(r, o, c) ==
    /\ o \in ToSet(Eligible(r, c))
    /\ AtMost(TotalCost(o), c.maxTotal)
    /\ AtMost(Finality[o.rail], c.maxSettlement)
    /\ Payable(r) /\ ResultFits(r, c)

---------------------------------------------------------------------------
\* The option of a result: pick_selected_payment.  The first of the least amount in opts.
FirstLeast(opts) ==
    opts[CHOOSE i \in DOMAIN opts : \A j \in DOMAIN opts :
            opts[i].amount < opts[j].amount \/ (opts[i].amount = opts[j].amount /\ i <= j)]

Picked(r, objective, c) ==
    LET Settles(o) == Finality[o.rail]
        fit   == Eligible(r, c)
        usd   == Only(fit, {o \in ToSet(fit) : Known(o)})
        pool  == IF usd # <<>> THEN usd ELSE fit
        timed == Only(pool, {o \in ToSet(pool) : Settles(o) # None})
        soon  == Only(timed, {o \in ToSet(timed) : \A p \in ToSet(timed) : Settles(o) <= Settles(p)})
    IN  IF ~r.live \/ fit = <<>> \/ objective = "lowest_total_cost" THEN None
        ELSE IF objective = "fastest_settlement"
             THEN IF soon = <<>> THEN None ELSE IF usd # <<>> THEN FirstLeast(soon) ELSE soon[1]
        ELSE IF \/ usd # <<>>
                \/ objective = "cheapest" /\ Cardinality({AssetKey(o) : o \in ToSet(fit)}) = 1
             THEN FirstLeast(pool) ELSE fit[1]

---------------------------------------------------------------------------
\* Comparators: below 0 when a goes first.
Ascending(x, y) ==
    IF x = None \/ y = None \/ x = y THEN 0 ELSE IF x < y THEN -1 ELSE 1
KnownFirst(x, y) == \* unknown_last
    IF x # None /\ y = None THEN -1 ELSE IF x = None /\ y # None THEN 1 ELSE Ascending(x, y)
Descending(x, y) == IF x = None \/ y = None THEN KnownFirst(x, y) ELSE Ascending(y, x)
Then(c, d) == IF c # 0 THEN c ELSE d

\* _cmp_amount_asc looks at every option of the two results, whatever the constraints.
LeastUsd(r) == Least(Usds(r.opts))
LeastOf(r, key) == Least({o.amount : o \in {p \in ToSet(r.opts) : AssetKey(p) = key}})
Keys(r) == {AssetKey(o) : o \in ToSet(r.opts)}
CmpAmount(a, b) ==
    LET shared == Keys(a) \cap Keys(b)
        key == CHOOSE k \in shared : TRUE
    IN  IF LeastUsd(a) # None /\ LeastUsd(b) # None THEN Ascending(LeastUsd(a), LeastUsd(b))
        ELSE IF Cardinality(shared) = 1 THEN Ascending(LeastOf(a, key), LeastOf(b, key))
        ELSE 0

Tier(r) == IF Invocable(r) THEN 2 ELSE IF Payable(r) THEN 1 ELSE IF r.live THEN 0 ELSE -1
MatureRate(r) == IF Observations(r) >= Mature THEN r.evidence.rate ELSE None
WeakRate(r) == IF Observations(r) \in WeakMin .. Mature - 1 THEN r.evidence.rate ELSE None
CmpMature(a, b) == Descending(MatureRate(a), MatureRate(b))
CmpWeak(a, b) == Descending(WeakRate(a), WeakRate(b))
CmpLatency(a, b) == KnownFirst(a.latency, b.latency)

\* Faulty: the two keys in the other order.
CmpSoonest(a, b) == Then(Ascending(a.latency, b.latency), CmpAmount(a, b))
CmpCheapest(a, b) == Then(CmpAmount(a, b), Ascending(a.latency, b.latency))
CmpFastest(a, b) == Then(CmpLatency(a, b), CmpAmount(a, b))
CmpMostReliable(a, b) ==
    Then(CmpMature(a, b), Then(CmpWeak(a, b), Then(CmpLatency(a, b), CmpAmount(a, b))))
CmpSettlement(a, b) ==
    Then(KnownFirst(SettlementOf(a), SettlementOf(b)),
         IF SettlementOf(a) = None THEN 0 ELSE CmpAmount(a, b))
CmpBest(a, b) ==
    Then(Ascending(Tier(b), Tier(a)),
         Then(CmpMature(a, b),
              Then(Ascending(a.latency, b.latency), Then(CmpAmount(a, b), CmpWeak(a, b)))))
Cmp(objective, a, b) ==
    CASE objective = "cheapest" -> CmpCheapest(a, b)
      [] objective = "fastest" -> CmpFastest(a, b)
      [] objective = "most_reliable" -> CmpMostReliable(a, b)
      [] objective = "fastest_settlement" -> CmpSettlement(a, b)
      [] OTHER -> CmpBest(a, b)

\* sorted(): the first run is kept, or turned if it falls, and the rest is inserted by
\* bisection.  The comparators are not transitive, so how it sorts decides.
Place(before, done, x) ==
    LET span[n \in 0 .. Len(done)] == \* the positions left after n questions
            IF n = 0 THEN [lo |-> 0, hi |-> Len(done)]
            ELSE LET at  == span[n - 1]
                     mid == (at.lo + at.hi) \div 2
                 IN  IF at.lo >= at.hi THEN at
                     ELSE IF <<x, done[mid + 1]>> \in before THEN [at EXCEPT !.hi = mid]
                     ELSE [at EXCEPT !.lo = mid + 1]
    IN  InsertAt(done, span[Len(done)].lo + 1, x)
Sorted(objective, rs) ==
    LET before == {p \in (DOMAIN rs) \X (DOMAIN rs) : Cmp(objective, rs[p[1]], rs[p[2]]) < 0}
        falls == Len(rs) > 1 /\ <<2, 1>> \in before
        run == Max({n \in DOMAIN rs : \A i \in 2 .. n : (<<i, i - 1>> \in before) = falls})
        head == [i \in 1 .. run |-> i]
        order[n \in run .. Len(rs)] ==
            IF n = run THEN IF falls THEN Reverse(head) ELSE head
            ELSE Place(before, order[n - 1], n)
    IN  IF rs = <<>> THEN rs ELSE [i \in DOMAIN rs |-> rs[order[Len(rs)][i]]]

---------------------------------------------------------------------------
\* _cheapest_comparable_subset: what has a price in USD, or else in one shared asset.
PoolOf(r, c) == IF Eligible(r, c) = <<>> /\ c.rails = None THEN r.opts ELSE Eligible(r, c)
OneAsset(r, c) == Cardinality({AssetKey(o) : o \in ToSet(PoolOf(r, c))}) = 1
Comparable(rs, c) ==
    LET usd == Only(rs, {r \in ToSet(rs) : Usds(PoolOf(r, c)) # {}})
        one == Only(rs, {r \in ToSet(rs) : OneAsset(r, c)})
        assets == {AssetKey(PoolOf(r, c)[1]) : r \in ToSet(one)}
    IN  IF usd # <<>> THEN usd ELSE IF Cardinality(assets) = 1 THEN one ELSE <<>>

Viable(rs, c) == Only(rs, {r \in ToSet(rs) : Passes(r, c) /\ Selectable(r, c)})

EnoughEvidence(rs, objective, c) ==
    LET viable == Viable(rs, c)
        stable == Only(viable, {r \in ToSet(viable) : ~r.changed})
        pool == IF stable # <<>> THEN stable ELSE viable
    IN  /\ viable # <<>>
        /\ CASE objective = "best" -> stable # <<>>
             [] objective = "cheapest" -> Comparable(pool, c) # <<>>
             [] objective = "lowest_total_cost" -> \E r \in ToSet(pool) : TotalOf(r) # None
             [] objective = "fastest_settlement" -> \E r \in ToSet(pool) : SettlementOf(r) # None
             [] OTHER -> TRUE

Rankable(rs, objective, c) ==
    CASE objective = "cheapest" -> Comparable(rs, c)
      [] objective = "lowest_total_cost" -> Only(rs, {r \in ToSet(rs) : TotalOf(r) # None})
      [] objective = "fastest_settlement" -> Only(rs, {r \in ToSet(rs) : SettlementOf(r) # None})
      [] OTHER -> rs

\* Faulty: only the first of the order is asked for its option.
PickFirst(rs, objective, c) ==
    LET order == Sorted(objective, Rankable(Viable(rs, c), objective, c))
    IN  IF order = <<>> THEN None ELSE IF Picked(order[1], objective, c) = None THEN None ELSE order[1]

PickWinner(rs, objective, c) ==
    LET order == Sorted(objective, Rankable(Viable(rs, c), objective, c))
        good == Only(order, {r \in ToSet(order) : Picked(r, objective, c) # None})
    IN  IF good = <<>> THEN None ELSE good[1]

\* _selection_set: an unexpected payee goes, and if anything live is as its catalog
\* claims, only that stays, before any constraint is looked at.
SelectionSet(rs, c) ==
    LET live == Only(rs, {r \in ToSet(rs) : r.live /\ Selectable(r, c)})
        kept == Only(live, {r \in ToSet(live) : ~r.changed})
    IN  IF kept # <<>> THEN kept ELSE live

\* compared[]: at most ComparedCap rows, the winner's always among them.
Rows(rs, winner) ==
    LET urls == [i \in DOMAIN rs |-> rs[i].url]
        top == SubSeq(urls, 1, Capped(Len(urls), ComparedCap))
        others == Only(urls, ToSet(urls) \ {winner.url})
    IN  IF winner = None \/ winner.url \in ToSet(top) THEN top
        ELSE Append(SubSeq(others, 1, Capped(Len(others), ComparedCap - 1)), winner.url)
=============================================================================
