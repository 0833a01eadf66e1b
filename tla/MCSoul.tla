------------------------------- MODULE MCSoul -------------------------------
(* Small instances of Soul for TLC. *)
EXTENDS Soul
CONSTANTS reach
MCRequires == [c \in {reach} |-> 2]
=============================================================================
