---------------------------- MODULE RouteEngine ----------------------------
(***************************************************************************)
(* One route request: live402/route.py run_probe and the settlement gate,   *)
(* live402/probe.py route_need.  A need is answered by ranking what          *)
(* discovery returned and probing it, tranche by tranche, while a deadline   *)
(* runs; a url is probed alone.  Catalogs, sellers and the history other     *)
(* requests write are the environment.                                      *)
(***************************************************************************)
EXTENDS Selection

CONSTANTS
    Url,
    Page,           \* what discovery may return: sequences of listings
    Seller,         \* what may stand behind a url
    Request,
    FirstTranche, ExpandTranche,
    CloseScore,     \* HISTORY_CLOSE_SCORE
    HeadLength      \* how much of the shortlist history may reorder

ASSUME EngineAssumption == {FirstTranche, ExpandTranche, CloseScore, HeadLength} \subseteq Nat \ {0}

\* Listing: [url, score, rail, traction, fresh, n], n observations and the freshness
\* band of the last success.  Seller: [get, post, declaresPost, needsBody, accepts,
\* schema, claim, turned, latency, service, evidence, later]: what it answers, how its
\* payee compares with the catalog's claim ("same", "other", "none") and with the one
\* history trusts (turned), and the evidence before and after other requests settle.
\* Request: [kind, url, objective, text, keys, prefer, ceiling]: text holds the bounds
\* compiled from the wording, keys the structured ones, both by the keys of the body.
Listed == UNION {ToSet(p) : p \in Page}
Accepted == UNION {ToSet(s.accepts) : s \in Seller}
Options == {a.option : a \in {b \in Accepted : b.valid}}

\* Scores and counts are integers, amounts natural numbers (canonical_atomic_string), and a
\* valid accept has a rail of ours.
ASSUME PageAssumption ==
    /\ Page \subseteq Seq(Listed)
    /\ \A l \in Listed :
        /\ l.url \in Url /\ l.rail \in Rail \cup {None}
        /\ {l.score, l.traction, l.fresh, l.n} \subseteq Int
ASSUME SellerAssumption ==
    /\ \A s \in Seller : s.accepts \in Seq(Accepted)
    /\ \A o \in Options : o.rail \in Rail /\ o.amount \in Nat
ASSUME RequestAssumption ==
    \A r \in Request :
        /\ r.kind \in {"need", "url"} /\ r.ceiling \in Nat \ {0}
        /\ r.kind = "url" => r.url \in Url
        /\ \A body \in {r.text, r.keys} : \A k \in {"maxAmount", "maxUsd"} \cap DOMAIN body :
            body[k] \in Nat \cup {None}

VARIABLES
    request, page, seller,
    phase,      \* "asked", "searching", "deciding", "committing", "gating", "answered"
    ranked,     \* the shortlist, listings in probing order
    next,       \* the first index not yet given to a tranche
    probed,     \* results, as they were collected
    tranche,    \* size of the tranche on its way, or 0
    flying,     \* urls of the tranche not yet answered
    landed,     \* its results so far
    late,       \* the deadline has passed
    moved,      \* other requests have settled: evidence is `later`
    winner,     \* a result, or None
    answer      \* the answer, or None

routeVars == <<request, page, seller, phase, ranked, next, probed, tranche, flying, landed,
               late, moved, winner, answer>>
asked == <<request, page, seller>>

---------------------------------------------------------------------------
\* policy.merge_constraints and select.parse_constraints: key by key, and only then are
\* the two names of a bound made one.
Overlay == [k \in DOMAIN request.keys \cup DOMAIN request.text |->
              IF k \in DOMAIN request.keys THEN request.keys[k] ELSE request.text[k]]
Bound(k) == IF k \in DOMAIN Overlay THEN Overlay[k] ELSE None
Flag(k) == k \in DOMAIN Overlay /\ Overlay[k]
Either(j, k) == IF Bound(j) # None THEN Bound(j) ELSE Bound(k)
Constraints ==
    [rails |-> Either("networks", "rails"), maxProbe |-> Either("maxProbe", "maxLatency"),
     invocable |-> Flag("invocable"), acceptChange |-> Flag("acceptChange"),
     maxAmount |-> Bound("maxAmount"), maxUsd |-> Bound("maxUsd"),
     maxService |-> Bound("maxService"), minObservations |-> Bound("minObservations"),
     minSuccess |-> Bound("minSuccess"), minScore |-> Bound("minScore"),
     minConfidence |-> Bound("minConfidence"), maxSettlement |-> Bound("maxSettlement"),
     maxTotal |-> Bound("maxTotal")]
Objective == request.objective

---------------------------------------------------------------------------
\* The shortlist.

Above(x, y) == \* x before y, by the first entry that differs, the greater first
    \E i \in DOMAIN x : x[i] > y[i] /\ \A j \in 1 .. i - 1 : x[j] = y[j]
Arranged(ls, keys) ==
    LET order == CHOOSE p \in [DOMAIN ls -> DOMAIN ls] :
                    \A i, j \in DOMAIN ls : i < j => Above(keys[p[i]], keys[p[j]])
    IN  [i \in DOMAIN ls |-> ls[order[i]]]
Bit(b) == IF b THEN 1 ELSE 0
Preferred(l) == Bit(request.prefer # None /\ l.rail = request.prefer)

\* rank_resources; what does not match the need at all is left out.
Ranked(ls) ==
    LET match == Only(ls, {l \in ToSet(ls) : l.score > 0})
    IN  Arranged(match, [i \in DOMAIN match |->
            <<Preferred(match[i]), match[i].score, match[i].traction, -i>>])

\* Faulty: a cluster grows from neighbour to neighbour.
OpensByNeighbour(head) ==
    LET opens[i \in DOMAIN head] ==
            IF i = 1 \/ Preferred(head[i]) # Preferred(head[i - 1]) THEN i
            ELSE IF head[i - 1].score - head[i].score < CloseScore THEN opens[i - 1] ELSE i
    IN  opens

\* _history_boost_shortlist: the best score of a group opens a cluster of all that are
\* less than CloseScore below it, and history reorders inside a cluster.
Opens(head) ==
    LET opens[i \in DOMAIN head] ==
            IF i = 1 \/ Preferred(head[i]) # Preferred(head[i - 1]) THEN i
            ELSE IF head[opens[i - 1]].score - head[i].score < CloseScore THEN opens[i - 1] ELSE i
    IN  opens
Boosted(ls) ==
    LET head == SubSeq(ls, 1, Capped(Len(ls), HeadLength))
        opens == Opens(head)
        Trusted(l) == IF l.n >= WeakMin THEN l.n ELSE 0
    IN  Arranged(head, [i \in DOMAIN head |->
            <<Preferred(head[i]), -opens[i], head[i].fresh, Bit(head[i].n >= Mature),
              Bit(head[i].n >= WeakMin), Trusted(head[i]), -i>>])
        \o SubSeq(ls, Len(head) + 1, Len(ls))

Listing(u) == LET at == {i \in DOMAIN page : page[i].url = u} IN
              IF at = {} THEN None ELSE page[Min(at)]
RankOf(u) == CHOOSE i \in DOMAIN ranked : ranked[i].url = u

---------------------------------------------------------------------------
\* One unpaid probe.

\* _payto_from_envelope: the first payee named, in an accept that is valid or not.
PayToOf(accepts) ==
    LET named == Only(accepts, {a \in ToSet(accepts) : a.option.payTo # None})
    IN  IF named = <<>> THEN None ELSE named[1].option.payTo
Challenges(reply, s) == reply = "402" /\ PayToOf(s.accepts) # None
\* _post_empty_justified: an empty POST, never where a body would be needed.
PostJustified(s) == s.get = "405" /\ s.declaresPost /\ ~s.needsBody
ReplyMiss(reply) ==
    CASE reply = "402" -> "no_payto"
      [] reply = "200" -> "reachable_200"
      [] reply = "5xx" -> "upstream_5xx"
      [] reply = "timeout" -> "probe_timeout"
      [] reply = "ssrf" -> "ssrf"
      [] OTHER -> "no_402_envelope"
MissOf(s) ==
    IF s.get = "ssrf" THEN "ssrf"
    ELSE IF s.get = "timeout" THEN "probe_timeout"
    ELSE IF s.needsBody THEN "unsafe_to_probe"
    ELSE ReplyMiss(s.get)

MissName ==
    {"no_payto", "reachable_200", "upstream_5xx", "probe_timeout", "ssrf", "no_402_envelope",
     "unsafe_to_probe", "probe_budget_exhausted"}

Evidence(s) == IF moved THEN s.later ELSE s.evidence
Result(u, live, miss) ==
    LET s == seller[u]
    IN  [url |-> u, live |-> live, miss |-> miss, evidence |-> Evidence(s),
         rail |-> IF Listing(u) = None THEN None ELSE Listing(u).rail,
         payTo |-> IF live THEN PayToOf(s.accepts) ELSE None,
         opts |-> IF live THEN Observed(s.accepts) ELSE <<>>,
         schema |-> live /\ s.schema,
         changed |-> live /\ s.claim = "other",
         pending |-> FALSE, latency |-> s.latency, service |-> s.service]
\* None is none of what it stands in for.
Results ==
    [url : Url, live : BOOLEAN, miss : MissName \cup {None},
     evidence : UNION {{s.evidence, s.later} : s \in Seller}, rail : Rail \cup {None},
     payTo : {PayToOf(s.accepts) : s \in Seller} \cup {None}, opts : Seq(Options),
     schema : BOOLEAN, changed : BOOLEAN, pending : BOOLEAN,
     latency : {s.latency : s \in Seller}, service : {s.service : s \in Seller}]
ASSUME NoneAssumption == None \notin Nat /\ None \notin Options /\ None \notin Results
Missed(u, why) == Result(u, FALSE, why)

\* probe_url: GET, and POST {} where it is justified.
Probe(u) ==
    LET s == seller[u]
    IN  IF Challenges(s.get, s) \/ (PostJustified(s) /\ Challenges(s.post, s))
        THEN Result(u, TRUE, None) ELSE Missed(u, MissOf(s))
\* Past the deadline no request is sent, or its POST is cut off.
Probes(u) ==
    {Probe(u)}
    \cup {Missed(u, "probe_timeout") : x \in {late} \ {FALSE}}
    \cup {Missed(u, "no_402_envelope") : x \in {late /\ PostJustified(seller[u])} \ {FALSE}}
\* _run_routed_probe: past the deadline there may be no slot to probe in.
RoutedProbes(u) == Probes(u) \cup {Missed(u, "probe_budget_exhausted") : x \in {late} \ {FALSE}}

---------------------------------------------------------------------------
ByRank(rs) == Arranged(rs, [i \in DOMAIN rs |-> <<-RankOf(rs[i].url), -i>>])
WinnerNow == PickWinner(ByRank(SelectionSet(probed, Constraints)), Objective, Constraints)
Enough == EnoughEvidence(probed, Objective, Constraints)
ProbedUrls == {probed[i].url : i \in DOMAIN probed}
Complete == {ranked[i].url : i \in DOMAIN ranked} \subseteq ProbedUrls \* _candidate_evaluation_complete
SomeLive == \E r \in ToSet(probed) : r.live
Exhausted == late /\ ~Complete \* probe_budget_exhausted, of a search without a winner

\* Why probing stopped, when there is no winner: _stop_reason, and route_need's miss_reason.
StopReason ==
    IF Exhausted THEN "probe_budget_exhausted"
    ELSE IF ~Complete /\ Len(probed) >= request.ceiling THEN "probe_limit_reached"
    ELSE IF SomeLive THEN "constraints_unmet"
    ELSE "candidate_set_exhausted"
MissReason ==
    IF ranked = <<>> THEN "no_candidates"
    ELSE IF StopReason # "candidate_set_exhausted" THEN StopReason
    ELSE probed[Len(probed)].miss

Miss(why, stop, compared, unmet) ==
    [code |-> 503, miss |-> why, stop |-> stop, url |-> None, option |-> None,
     compared |-> compared, unmet |-> unmet]
Served(r, option, compared) ==
    [code |-> 200, miss |-> None, stop |-> "winner_selected", url |-> r.url, option |-> option,
     compared |-> compared, unmet |-> {}]

---------------------------------------------------------------------------
RouteInit ==
    /\ request \in Request /\ page \in Page
    /\ seller \in [IF request.kind = "url" THEN {request.url}
                   ELSE {l.url : l \in {m \in ToSet(page) : m.score > 0}} -> Seller]
    /\ phase = "asked" /\ ranked = <<>> /\ next = 1
    /\ probed = <<>> /\ tranche = 0 /\ flying = {} /\ landed = <<>>
    /\ late = FALSE /\ moved = FALSE /\ winner = None /\ answer = None

Discover == \* fetch_discovery, rank_resources, _history_boost_shortlist
    /\ phase = "asked" /\ request.kind = "need"
    /\ ranked' = Boosted(Ranked(page))
    /\ phase' = "searching"
    /\ UNCHANGED <<asked, next, probed, tranche, flying, landed, late, moved, winner, answer>>

DiscoveryFails == \* _discovery_unavailable_miss
    /\ phase = "asked" /\ request.kind = "need"
    /\ phase' = "answered"
    /\ answer' = Miss("no_candidates", "candidate_set_exhausted", <<>>, {})
    /\ UNCHANGED <<asked, ranked, next, probed, tranche, flying, landed, late, moved, winner>>

TrancheSize ==
    Min({IF next = 1 THEN FirstTranche ELSE ExpandTranche,
         Len(ranked) - next + 1, request.ceiling - Len(probed)})
SearchGoesOn == next <= Len(ranked) /\ Len(probed) < request.ceiling /\ ~late /\ ~Enough

NextTranche ==
    /\ phase = "searching" /\ tranche = 0 /\ SearchGoesOn
    /\ tranche' = TrancheSize
    /\ flying' = {ranked[i].url : i \in next .. next + TrancheSize - 1}
    /\ next' = next + TrancheSize
    /\ UNCHANGED <<asked, phase, ranked, probed, landed, late, moved, winner, answer>>

ProbeLands(u) == \* a worker is done, and _probe_tranche collects its result
    /\ u \in flying
    /\ flying' = flying \ {u}
    /\ \E r \in RoutedProbes(u) : landed' = Append(landed, r)
    /\ UNCHANGED <<asked, phase, ranked, next, probed, tranche, late, moved, winner, answer>>

\* _probe_tranche returns; past the deadline it leaves what has not answered, except that
\* a tranche of one is waited for.
TrancheDone ==
    /\ tranche > 0
    /\ flying = {} \/ (late /\ tranche > 1)
    /\ probed' = probed \o landed
    /\ tranche' = 0 /\ flying' = {} /\ landed' = <<>>
    /\ UNCHANGED <<asked, phase, ranked, next, late, moved, winner, answer>>

Decide ==
    /\ phase = "searching" /\ tranche = 0 /\ ~SearchGoesOn
    /\ winner' = WinnerNow
    /\ phase' = "committing"
    /\ answer' =
         IF winner' # None
         THEN Served(winner', Picked(winner', Objective, Constraints), Rows(probed, winner'))
         ELSE Miss(MissReason, StopReason, Rows(probed, None),
                   IF MissReason = "constraints_unmet"
                   THEN UNION {Unmet(r, Constraints) : r \in ToSet(probed)} ELSE {})
    /\ UNCHANGED <<asked, ranked, next, probed, tranche, flying, landed, late, moved>>

\* _commit_route_batch and attach_to_result: the write finds a payee history does not
\* trust; when the statements fail before the winner's row, nothing is found.
Rehydrated(r, written) ==
    [r EXCEPT !.pending = @ \/ (written /\ seller[r.url].turned),
              !.changed = @ \/ (written /\ seller[r.url].turned),
              !.evidence = Evidence(seller[r.url])]
Commit(written) ==
    /\ phase = "committing"
    /\ IF winner = None THEN phase' = "answered" /\ winner' = winner
       ELSE phase' = "gating" /\ winner' = Rehydrated(winner, written)
    /\ UNCHANGED <<asked, ranked, next, probed, tranche, flying, landed, late, moved, answer>>

\* _direct_url_result: one probe, written to history before anything is selected.
DirectProbe(written) ==
    /\ phase = "asked" /\ request.kind = "url"
    /\ \E r \in Probes(request.url) : probed' = <<Rehydrated(r, written /\ r.live)>>
    /\ phase' = "deciding"
    /\ UNCHANGED <<asked, ranked, next, tranche, flying, landed, late, moved, winner, answer>>

DirectDecide ==
    LET r == probed[1]
        option == Picked(r, Objective, Constraints)
        fit == Passes(r, Constraints) /\ Selectable(r, Constraints) /\ option # None
    IN  /\ phase = "deciding"
        /\ IF fit THEN winner' = r /\ phase' = "gating" /\ answer' = Served(r, option, <<>>)
           ELSE /\ winner' = None /\ phase' = "answered"
                /\ answer' = IF r.live THEN Miss("constraints_unmet", "constraints_unmet", <<>>, {})
                             ELSE Miss(r.miss, "candidate_set_exhausted", <<>>, {})
        /\ UNCHANGED <<asked, ranked, next, probed, tranche, flying, landed, late, moved>>

\* Faulty: the gate does not ask again whether the payee may have changed.
BillableWhoeverIsPaid(r, option) ==
    Payable(r) /\ PassesExactly(r, option, Constraints) /\ option.payTo = r.payTo

\* _billable_winner and _downgrade_unbillable_result.
Billable(r, option) ==
    /\ Payable(r) /\ Selectable(r, Constraints)
    /\ PassesExactly(r, option, Constraints)
    /\ option.payTo = r.payTo
Gate ==
    /\ phase = "gating"
    /\ phase' = "answered"
    /\ answer' = IF Billable(winner, answer.option) THEN answer
                 ELSE Miss("constraints_unmet", "constraints_unmet", answer.compared, {})
    /\ UNCHANGED <<asked, ranked, next, probed, tranche, flying, landed, late, moved, winner>>

Expire == \* the deadline of the request passes
    /\ phase \in {"asked", "searching"} /\ ~late
    /\ late' = TRUE
    /\ UNCHANGED <<asked, phase, ranked, next, probed, tranche, flying, landed, moved, winner, answer>>

OthersSettle == \* paid requests of others reach history
    /\ phase # "answered" /\ ~moved
    /\ \E u \in DOMAIN seller : seller[u].later # seller[u].evidence
    /\ moved' = TRUE
    /\ UNCHANGED <<asked, phase, ranked, next, probed, tranche, flying, landed, late, winner, answer>>

Answered == phase = "answered" /\ UNCHANGED routeVars

RouteNext ==
    \/ Discover \/ DiscoveryFails \/ NextTranche \/ TrancheDone \/ Decide
    \/ \E u \in Url : ProbeLands(u)
    \/ \E written \in BOOLEAN : Commit(written) \/ DirectProbe(written)
    \/ DirectDecide \/ Gate \/ Expire \/ OthersSettle \/ Answered

RouteSpec == RouteInit /\ [][RouteNext]_routeVars

---------------------------------------------------------------------------
Won == phase = "answered" /\ answer.code = 200

\* What a 200 names is what was asked for: the exact option is one its seller demands,
\* paid to the payee observed, on an allowed rail, within the price and the settlement
\* bound; the seller meets the bounds on itself by the evidence read last, was not seen
\* with a payee history does not trust (unless the caller takes that), and is among the
\* candidates the answer compares (_billable_winner, after everything it rechecks).
ServedFits ==
    Won =>
        LET c == Constraints
            o == answer.option
        IN  /\ winner.url = answer.url
            /\ \E a \in ToSet(seller[answer.url].accepts) : a.valid /\ a.option = o
            /\ o.payTo = PayToOf(seller[answer.url].accepts)
            /\ OptionFits(o, c) /\ AtMost(Finality[o.rail], c.maxSettlement)
            /\ ResultFits(winner, c)
            /\ winner.pending => c.acceptChange
            /\ request.kind = "need" => answer.url \in ToSet(answer.compared)

\* "cheapest" without a lock on the rails is cheapest: no candidate that was probed, has
\* the payee its catalog claims and meets the bounds offers an eligible option for less
\* (_cmp_cheapest and pick_selected_payment, each with its own idea of the price).
CheapestServed ==
    Won /\ request.kind = "need" /\ Objective = "cheapest" /\ Constraints.rails = None =>
        \A r \in ToSet(probed) : \A p \in ToSet(Eligible(r, Constraints)) :
            ~r.changed /\ Passes(r, Constraints) /\ Known(p) =>
                Known(answer.option) /\ answer.option.amount <= p.amount

\* A candidate the request could be served with: live, with the payee its catalog claims,
\* within the bounds, with an option its objective can name and, for "cheapest", compare.
Usable(r) ==
    /\ ~r.changed /\ Passes(r, Constraints) /\ Picked(r, Objective, Constraints) # None
    /\ Objective = "cheapest" => Usds(Eligible(r, Constraints)) # {}
    /\ Objective = "fastest_settlement" => SettlementOf(r) # None

\* A miss is one, and says what happened: no usable candidate was seen (pick_winner and the
\* early stop must agree on that), budget or limit only when they cut the search, a candidate's
\* own reason only when every candidate was tried and none answered with a challenge, and
\* unmet constraints exactly those that some live candidate fails (_stop_reason, the
\* miss_reason of route_need and collect_unmet_constraints each read it off `probed`).
MissIsTrue ==
    phase = "answered" /\ answer.code = 503 /\ request.kind = "need" /\ winner = None =>
        /\ \A r \in ToSet(probed) : ~Usable(r)
        /\ answer.stop = "probe_budget_exhausted" => late /\ ~Complete
        /\ answer.stop = "probe_limit_reached" => Len(probed) = request.ceiling /\ ~Complete /\ ~late
        /\ answer.stop = "constraints_unmet" => SomeLive /\ (Complete \/ Enough)
        /\ answer.stop = "candidate_set_exhausted" => Complete /\ ~SomeLive
        /\ answer.miss = "no_candidates" => probed = <<>>
        /\ answer.miss # "constraints_unmet" => answer.unmet = {}
        /\ answer.miss = "constraints_unmet" =>
             \A r \in ToSet(probed) :
                (Payable(r) /\ ~Passes(r, Constraints))
                    = (Payable(r) /\ Unmet(r, Constraints) # {} /\ Unmet(r, Constraints) \subseteq answer.unmet)

\* History never moves a candidate in front of a substantially better match of its rail
\* group (_history_boost_shortlist promises it for what it reorders).
NoLeapfrog ==
    \A i, j \in DOMAIN ranked :
        i < j /\ Preferred(ranked[i]) = Preferred(ranked[j]) =>
            ranked[j].score - ranked[i].score < CloseScore

=============================================================================
