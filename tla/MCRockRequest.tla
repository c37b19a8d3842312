--------------------------- MODULE MCRockRequest ---------------------------
(* Small instances of the requests for TLC. *)
EXTENDS RockRequest, TLC

CONSTANTS r1, m1
=============================================================================
