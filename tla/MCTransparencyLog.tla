------------------------- MODULE MCTransparencyLog -------------------------
(* A small instance of TransparencyLog: three leaves of the past, or none. *)
EXTENDS TransparencyLog
MCOldBody == <<"old1", "old2", "old3">>
=============================================================================
