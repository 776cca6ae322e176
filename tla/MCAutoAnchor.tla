---------------------------- MODULE MCAutoAnchor ----------------------------
(* Instances of AutoAnchor for TLC. *)
EXTENDS AutoAnchor, TLC

Day == {[length |-> 2, max |-> 3]}
Hour == {[length |-> 1, max |-> 1]}
Symmetry == Permutations(Controller)
=============================================================================
