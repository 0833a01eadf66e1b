---------------------------- MODULE MCRefinement ----------------------------
(* Small instances of Refinement, and with it of Appliance, for TLC. *)
EXTENDS Refinement, TLC

CONSTANTS c1, c2, c3, t1, t2

(* The volume moves to a host where c2 does not validate and whose template
   gives another value. *)
OtherHost == {[dflt |-> c1, invalid |-> {}], [dflt |-> c3, invalid |-> {c2}]}

Symmetry == Permutations({t1, t2})
=============================================================================
