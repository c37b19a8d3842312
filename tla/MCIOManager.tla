---------------------------- MODULE MCIOManager ----------------------------
(* Small instances of the fd event machinery for TLC. *)
EXTENDS IOManager, TLC

CONSTANTS w1, w2, p1, p2

CoSymmetry == Permutations({w1, w2}) \cup Permutations({p1, p2})
=============================================================================
