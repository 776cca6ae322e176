---------------------------- MODULE MCFrontDoor ----------------------------
(* An instance of FrontDoor for TLC. *)
EXTENDS FrontDoor

RouteOnly == [route |-> 2]
============================================================================
