---------------------------- MODULE MCPanelStore ----------------------------
(* Small instances of PanelStore: callers of one Store value, and callers   *)
(* with a value each.                                                       *)
EXTENDS PanelStore, TLC

CONSTANTS c1, c2, s1, s2

OneInstance == [c \in Caller |-> s1]
PerCallerInstance == (c1 :> s1) @@ (c2 :> s2)
=============================================================================
