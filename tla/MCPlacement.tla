---------------------------- MODULE MCPlacement -----------------------------
(***************************************************************************)
(* An instance of Placement for TLC: two AWG profiles and a sing-box one.  *)
(***************************************************************************)
EXTENDS Placement, TLC

CONSTANTS p1, p2, p3

TwoAWG == [p \in {p1, p2, p3} |-> IF p = p3 THEN "mieru" ELSE "awg"]
\* Nodes, chains, credentials and the two AWG profiles are interchangeable.
Symmetry ==
    Permutations(Nodes) \cup Permutations(Chains) \cup Permutations(Creds) \cup Permutations({p1, p2})
=============================================================================
