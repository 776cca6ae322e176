--------------------------- MODULE MCRouteHistory ---------------------------
(* Instances of RouteHistory for TLC. *)
EXTENDS RouteHistory, TLC

CONSTANTS b1, b2, u1, u2, A, B

\* Every request compares two candidates.
MCTarget == [b \in Batch |-> {u1, u2}]

\* The first candidate is known from before, the other is new.
MCPrior == u1 :> A @@ u2 :> None

MCSymmetry == Permutations(Batch)
=============================================================================
