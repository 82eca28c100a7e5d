----------------------------- MODULE MCTakeover -----------------------------
(***************************************************************************)
(* Clients of an old VPN on one node: two of one native inbound, and one   *)
(* of a raw one.                                                           *)
(***************************************************************************)
EXTENDS Takeover

CONSTANTS c1, c2, c3

Clients    == {c1, c2, c3}
Native     == <<c1, c2>>
EveryKind  == {"singbox", "xray", "awg"}
=============================================================================
