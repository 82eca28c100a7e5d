----------------------------- MODULE MCDeploys -----------------------------
(* Small instances of Deploys: one node, whose deploys and edits meet.       *)
EXTENDS Deploys, TLC
=============================================================================
