---------------------------- MODULE MCRelocation ----------------------------
(***************************************************************************)
(* Instance of Relocation for TLC: two nodes, a chain through both and a   *)
(* chain of the second one alone.                                          *)
(***************************************************************************)
EXTENDS Relocation

CONSTANTS n1, n2, c1, c2

TwoChains == [c \in {c1, c2} |-> IF c = c1 THEN <<n1, n2>> ELSE <<n2>>]
=============================================================================
