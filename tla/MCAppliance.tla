---------------------------- MODULE MCAppliance ----------------------------
(* Small instances of Appliance for TLC. *)
EXTENDS Appliance, TLC

CONSTANTS c1, c2, c3, t1, t2

(* One host and one template. *)
OneEnv == {[dflt |-> c1, invalid |-> {}]}

(* The volume moves to a host where c2 does not validate and whose template
   gives another value. *)
OtherHost == {[dflt |-> c1, invalid |-> {}], [dflt |-> c3, invalid |-> {c2}]}

(* The container is replaced by one whose template gives another value. *)
OtherTemplate == {[dflt |-> c1, invalid |-> {}], [dflt |-> c2, invalid |-> {}]}

Symmetry == Permutations({t1, t2})
=============================================================================
