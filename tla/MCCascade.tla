----------------------------- MODULE MCCascade ------------------------------
(***************************************************************************)
(* An instance of Cascade for TLC: four nodes that two chains share, each  *)
(* as an entry of one and a transit or exit of the other.                  *)
(***************************************************************************)
EXTENDS Cascade, TLC

CONSTANTS n1, n2, n3, n4

Form(name, proto, transport, levels) ==
    [name |-> name, proto |-> proto, transport |-> transport, levels |-> levels,
     port |-> IF proto = "vless" THEN 8443 ELSE 51820]

\* An AWG chain over two hops that is reordered and switched to AWG links,
\* and a VLESS chain that starts on a node of it and ends on two nodes, or
\* starts on two nodes and ends where both chains want the transit port.
TwoChains ==
    { Form("a", "awg", "xhttp", << <<n1>>, <<n2>>, <<n3>> >>),
      Form("a", "awg", "awg", << <<n1>>, <<n3>>, <<n2>> >>),
      Form("b", "vless", "xhttp", << <<n2>>, <<n1, n4>> >>),
      Form("b", "vless", "xhttp", << <<n2, n4>>, <<n3>> >>) }
=============================================================================
