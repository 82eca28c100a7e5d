---------------------------- MODULE MCNodeHealth ----------------------------
(* Small instances of NodeHealth: the default thresholds (3 and 2).          *)
EXTENDS NodeHealth, TLC
=============================================================================
