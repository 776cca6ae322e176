---------------------------- MODULE MCPaidRoute ----------------------------
(* Instances of PaidRoute for TLC. *)
EXTENDS PaidRoute, TLC

\* Threads, processes, authorizations and resource URLs are interchangeable.
Symmetry == Permutations(Proc) \cup Permutations(Req) \cup Permutations(Auth)
                \cup Permutations(Scope)
============================================================================
