----------------------------- MODULE MCSwitches -----------------------------
(* Small instances of Switches for TLC. *)
EXTENDS Switches, TLC

CONSTANTS i1, i2, i3, i4

InodeSymmetry == Permutations(Inodes)
=============================================================================
