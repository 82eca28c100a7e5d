----------------------------- MODULE MCNodePush -----------------------------
(* Small instances of NodePush: deploys of a version that works, of one     *)
(* that does not start and of one that neither `sing-box check` nor           *)
(* awg-quick accepts. The node runs an older version.                         *)
EXTENDS NodePush, TLC

CONSTANTS v0, v1, v2, v3, minimal, awg0, awg1

\* The new versions keep awg0 and move what awg1 did into sing-box (AWG 3).
MCRendered == [v \in Version |-> IF v = v0 THEN {awg0, awg1} ELSE IF v = minimal THEN {} ELSE {awg0}]
MCTornDown == [v \in Version |-> IF v \in {v0, minimal} THEN {} ELSE {awg1}]

\* Only v2 changes the [Interface] section of awg0.
MCSameInterface == ({v0, v1, v3} \X {v0, v1, v3}) \cup {<<v2, v2>>}

\* Both layers deployed and up.
Deployed ==
    [cfg |-> v0, run |-> v0,
     conf |-> [i \in Iface |-> v0], live |-> [i \in Iface |-> v0]]

\* A node without the kernel layer.
WithoutAwg ==
    [Deployed EXCEPT !.conf = [i \in Iface |-> NoFile],
                     !.live = [i \in Iface |-> Down]]

\* A node after installation: nothing deployed.
Fresh == [WithoutAwg EXCEPT !.cfg = NoFile, !.run = Down]

AllNodes == {Deployed, WithoutAwg, Fresh}

OnlyDeployed == {Deployed}
=============================================================================
