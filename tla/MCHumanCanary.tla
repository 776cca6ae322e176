--------------------------- MODULE MCHumanCanary ---------------------------
(* Instances of HumanCanary for TLC. *)
EXTENDS HumanCanary
=============================================================================
