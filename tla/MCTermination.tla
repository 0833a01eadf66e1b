---------------------------- MODULE MCTermination ----------------------------
(* Small instances of Termination for TLC. *)
EXTENDS Termination, TLC

TerminationSymmetry == Permutations(Posts) \cup Permutations(Workers)
=============================================================================
