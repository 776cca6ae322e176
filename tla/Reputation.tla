----------------------------- MODULE Reputation -----------------------------
(***************************************************************************)
(* Score V1 of a seller: live402/reputation.py over the evidence            *)
(* history.py keeps.  Rates, scores and weights are in per cent; the log     *)
(* caps of tenure and usage are taken as already applied.                   *)
(***************************************************************************)
EXTENDS Integers, FiniteSetsExt

CONSTANTS
    None,
    WeakMin,   \* WEAK_N
    Mature     \* MATURE_N

ASSUME CountsAssumption == WeakMin \in Nat /\ Mature \in Nat

\* Evidence: n observations in 7 days, a success rate, what changed, and the listing:
\* tenure and usage in per cent of their caps or None, sources or None.
\* changes[k] = [count, at]; at is None, or whether the date lies in the last 7 days.
ChangeClass == {"payTo", "rail", "price", "schema"}
Penalty == [k \in ChangeClass |-> IF k \in {"payTo", "rail"} THEN 35 ELSE 15]
Weight == [observed |-> 50, stability |-> 20, tenure |-> 10, usage |-> 10, distribution |-> 10]
SourceCap == 3
VeryLowConfidenceCap == 15
LowConfidenceCap == 35

\* _recent is handed the ISO text that components_from_evidence made of a date, which
\* _as_int does not read: a change with a date is never recent.
Recent(at) == FALSE
Penalised(change) == change.count > 0 /\ (change.at = None \/ Recent(change.at))

Stability(e) ==
    LET lost == {k \in ChangeClass : Penalised(e.changes[k])}
        left == 100 - MapThenSumSet(LAMBDA k : Penalty[k], lost)
    IN  IF e.n = None THEN None ELSE IF left < 0 THEN 0 ELSE left

Success(e) == IF e.n # None /\ e.n >= WeakMin THEN e.rate ELSE None
Distribution(e) ==
    IF e.sources = None THEN None
    ELSE ((IF e.sources < SourceCap THEN e.sources ELSE SourceCap) * 100) \div SourceCap

Components(e) ==
    [observed |-> Success(e), stability |-> Stability(e), tenure |-> e.tenure,
     usage |-> e.usage, distribution |-> Distribution(e)]
Present(e) == {k \in DOMAIN Weight : Components(e)[k] # None}
PresentWeight(e) == MapThenSumSet(LAMBDA k : Weight[k], Present(e))

\* A missing component is dropped: it weighs neither for nor against.
Score(e) ==
    IF Present(e) = {} THEN None
    ELSE MapThenSumSet(LAMBDA k : Weight[k] * Components(e)[k], Present(e)) \div PresentWeight(e)
Capped(share, cap) == IF share < cap THEN share ELSE cap
Confidence(e) ==
    IF e.n = None \/ e.n < WeakMin THEN Capped(PresentWeight(e), VeryLowConfidenceCap)
    ELSE IF e.n < Mature THEN Capped(PresentWeight(e), LowConfidenceCap)
    ELSE PresentWeight(e)
=============================================================================
