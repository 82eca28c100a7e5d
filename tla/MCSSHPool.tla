----------------------------- MODULE MCSSHPool -----------------------------
(***************************************************************************)
(* Instance of SSHPool for TLC: two borrowers of the connection to one     *)
(* node, and a takeover that dials another node past the pool.             *)
(***************************************************************************)
EXTENDS SSHPool
=============================================================================
