---------------------------- MODULE MCCheckpoint ----------------------------
(* Small instances of Checkpoint for TLC. *)
EXTENDS Checkpoint, TLC
CONSTANTS r1, r2
Symmetry == Permutations(Revs)
=============================================================================
