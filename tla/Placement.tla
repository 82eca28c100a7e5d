----------------------------- MODULE Placement ------------------------------
(***************************************************************************)
(* Inbound profiles, their placements on nodes, and the chains that use    *)
(* them as entries.                                                        *)
(*                                                                         *)
(* A profile is a template (web/inbounds.go); placing it on a node creates *)
(* a NodeInbound there with credentials of its own                         *)
(* (chain/profile_deploy.go).  A chain made with the levels form           *)
(* (web/chains.go) names one placed profile for every node of level 0, and *)
(* saving or applying the chain adapts that inbound to the chain           *)
(* (chain/chain_entry_material.go).  What the rendered config listens on,  *)
(* and detectPortConflicts, are not modelled.                              *)
(*                                                                         *)
(* A step is one request up to its first write to a NodeInfo, or one such  *)
(* write; a request may fail, or the panel may stop, between any two.      *)
(* Requests do not overlap here: NodeInfo writes of overlapping ones are   *)
(* the subject of PanelStore and Deploys.                                  *)
(***************************************************************************)
EXTENDS Integers, Sequences, FiniteSets

CONSTANTS
    Nodes, Profiles, Chains,
    Protocol,       \* profile -> "awg" or the name of a sing-box inbound
    Ports,          \* ports the operator gives to profiles
    UserPort,       \* defaultUserPort
    Creds,          \* credentials the generators may return
    MaxSubnet,      \* the last subnet allocateAWGServerSubnet tries
    MaxRequests,    \* bound: requests of the operator
    MaxFaults,      \* bound: requests cut short
    None            \* model value

Subnets == 0..MaxSubnet      \* 10.8.s.1/24
AllPorts == Ports \cup UserPort..(UserPort + Cardinality(Nodes) - 1)

\* NodeInbound.
InboundType == [port : AllPorts, cred : Creds, subnet : Subnets]

ASSUME PlacementAssumption ==
    /\ IsFiniteSet(Nodes) /\ IsFiniteSet(Profiles)
    /\ Protocol \in [Profiles -> STRING]
    /\ Ports \subseteq Nat \ {0} /\ UserPort \in Nat \ {0}
    /\ MaxSubnet \in Nat /\ Cardinality(Profiles) <= MaxSubnet
    /\ MaxRequests \in Nat /\ MaxFaults \in Nat
    /\ None \notin Nodes \cup Profiles \cup Chains \cup Ports \cup InboundType

VARIABLES
    hosts,      \* Store.Hosts, each with a NodeInfo
    profiles,   \* Store.InboundProfiles: profile -> port, or None
    inbounds,   \* NodeInfo.Inbounds: node -> profile -> inbound, or None
    chains,     \* Store.Chains: chain -> levels 0 and 1 with InboundRefs, or None
    op,         \* the request in progress
    requests, faults

vars == << hosts, profiles, inbounds, chains, op, requests, faults >>

Placed(n, p) == inbounds[n][p] # None

\* ProfileNodes.
ProfileNodes(p) == {n \in Nodes : Placed(n, p)}

Stored == {c \in Chains : chains[c] # None}

Entries(c) == {chains[c].entry[i] : i \in DOMAIN chains[c].entry}

\* AllNodes of a chain with levels.
AllNodes(c) == Entries(c) \cup chains[c].tail

Idle == [job |-> "idle", prof |-> None, want |-> {}, had |-> {}, left |-> {}, blocked |-> {},
         chain |-> None]

Init ==
    /\ hosts = Nodes
    /\ profiles = [p \in Profiles |-> None]
    /\ inbounds = [n \in Nodes |-> [p \in Profiles |-> None]]
    /\ chains = [c \in Chains |-> None]
    /\ op = Idle
    /\ requests = 0 /\ faults = 0

\* A request of the operator arrives.
Request == op.job = "idle" /\ requests < MaxRequests /\ requests' = requests + 1 /\ UNCHANGED faults

----------------------------------------------------------------------------
\* Ports and subnets of a node.

\* inboundPortConflict: another profile's inbound has the port.
InboundPortConflict(n, q, p) == \E r \in Profiles \ {p} : Placed(n, r) /\ inbounds[n][r].port = q

\* chainEntryPort: the entries of a chain count up from its user port.
ChainEntryPort(c, n) ==
    LET entry == chains[c].entry
        index == CHOOSE i \in DOMAIN entry : entry[i] = n
    IN UserPort + (index - 1)

AWG(p) == Protocol[p] = "awg"

\* awgSubnetsInUseOnNode.
SubnetsInUseOnNode(n) == {inbounds[n][p].subnet : p \in {r \in Profiles : AWG(r) /\ Placed(n, r)}}

\* allocateAWGServerSubnet: the first free one, from 1.
AllocateAWGServerSubnet(taken) ==
    IF \E s \in 1..MaxSubnet : s \notin taken
    THEN CHOOSE s \in 1..MaxSubnet : s \notin taken /\ \A t \in 1..MaxSubnet : t \notin taken => s <= t
    ELSE 0

\* Mutant: no other inbound is looked at.
SubnetUnclaimed(n, s, p) == FALSE

\* awgSubnetClaimedOnNode.
SubnetClaimedOnNode(n, s, p) == \E r \in Profiles \ {p} : AWG(r) /\ Placed(n, r) /\ inbounds[n][r].subnet = s

----------------------------------------------------------------------------
\* Placing a profile: applyProfileAndDeploy, ApplyProfileToNodes.

\* Mutant: only the first entry of a chain is looked at.
ReferencedByFirst(p, n) == \E c \in Stored : chains[c].entry[1] = n /\ chains[c].ref[n] = p

\* chainReferencingProfileOn: in any level.
ChainReferencingProfileOn(p, n) ==
    \E c \in Stored : \/ n \in Entries(c) /\ chains[c].ref[n] = p
                      \/ n \in chains[c].tail /\ chains[c].kept[n] = p

\* The job of ApplyProfileToNodes: nodes are removed, then updated, then added.
PlaceJob(job, p, want) ==
    [Idle EXCEPT !.job = job, !.prof = p, !.want = want, !.had = ProfileNodes(p),
                 !.left = ProfileNodes(p) \cup want]

Rank(n) == CASE n \notin op.want -> 1 [] n \in op.want \cap op.had -> 2 [] OTHER -> 3

Turn(n) == n \in op.left /\ \A m \in op.left : Rank(n) <= Rank(m)

\* handleCreateInbound, handleUpdateInbound: the profile is saved, and every
\* addition is checked before the first NodeInfo is written.
SaveInbound(p, q, want) ==
    /\ Request
    /\ want \subseteq hosts
    /\ profiles' = [profiles EXCEPT ![p] = q]
    /\ op' = IF \E n \in want \ ProfileNodes(p) : InboundPortConflict(n, q, p)
             THEN Idle
             ELSE PlaceJob("place", p, want)
    /\ UNCHANGED << hosts, inbounds, chains >>

\* handleDeleteInbound: the profile is removed from every node first.
DeleteInbound(p) ==
    /\ Request
    /\ profiles[p] # None
    /\ op' = PlaceJob("delete", p, {})
    /\ UNCHANGED << hosts, profiles, inbounds, chains >>

\* The removal pass, one node: refused where a chain uses the profile.
RemoveStep(n) ==
    /\ op.job \in {"place", "delete"} /\ Turn(n) /\ Rank(n) = 1
    /\ inbounds' = IF ChainReferencingProfileOn(op.prof, n)
                   THEN inbounds
                   ELSE [inbounds EXCEPT ![n][op.prof] = None]
    /\ op' = [op EXCEPT !.left = @ \ {n},
                        !.blocked = IF ChainReferencingProfileOn(op.prof, n) THEN @ \cup {n} ELSE @]
    /\ UNCHANGED << hosts, profiles, chains, requests, faults >>

\* Mutant: new keys with the new port.
SyncedAnew(ib, q) == [ib EXCEPT !.port = q, !.cred = CHOOSE k \in Creds : k # ib.cred]

\* The update pass on one inbound: the port follows the profile.
Synced(ib, q) == [ib EXCEPT !.port = q]

SyncStep(n) ==
    /\ op.job = "place" /\ Turn(n) /\ Rank(n) = 2
    /\ inbounds' = [inbounds EXCEPT ![n][op.prof] = Synced(@, profiles[op.prof])]
    /\ op' = [op EXCEPT !.left = @ \ {n}]
    /\ UNCHANGED << hosts, profiles, chains, requests, faults >>

\* buildProfileInbound: credentials and an AWG subnet of the node's own.
BuildProfileInbound(n, p, k) ==
    [port |-> profiles[p], cred |-> k,
     subnet |-> IF AWG(p) THEN AllocateAWGServerSubnet(SubnetsInUseOnNode(n)) ELSE 0]

AddStep(n, k) ==
    /\ op.job = "place" /\ Turn(n) /\ Rank(n) = 3
    /\ inbounds' = [inbounds EXCEPT ![n][op.prof] = BuildProfileInbound(n, op.prof, k)]
    /\ op' = [op EXCEPT !.left = @ \ {n}]
    /\ UNCHANGED << hosts, profiles, chains, requests, faults >>

FinishPlace ==
    /\ op.job = "place" /\ op.left = {}
    /\ op' = Idle
    /\ UNCHANGED << hosts, profiles, inbounds, chains, requests, faults >>

\* The rest of handleDeleteInbound; DeleteInboundProfile checks the chains again.
FinishDelete ==
    /\ op.job = "delete" /\ op.left = {}
    /\ profiles' = IF op.blocked = {} /\ ~\E n \in Nodes : ChainReferencingProfileOn(op.prof, n)
                   THEN [profiles EXCEPT ![op.prof] = None] ELSE profiles
    /\ op' = Idle
    /\ UNCHANGED << hosts, inbounds, chains, requests, faults >>

----------------------------------------------------------------------------
\* Chains.

\* parseLevelsForm: what it accepts.
ParsesLevels(entry, ref, tail) ==
    /\ Len(entry) > 0
    /\ \A i, j \in DOMAIN entry : i # j => entry[i] # entry[j]
    /\ tail \subseteq hosts
    /\ \A i \in DOMAIN entry :
         /\ entry[i] \in hosts
         /\ profiles[ref[entry[i]]] # None
         /\ Placed(entry[i], ref[entry[i]])
         /\ Protocol[ref[entry[i]]] = Protocol[ref[entry[1]]]

\* A node that was in the chain is copied with its old InboundRef, which only
\* level 0 overwrites (NodeByID finds a node of level 0 first).
KeptRef(c, n) ==
    CASE c \in Stored /\ n \in Entries(c) -> chains[c].ref[n]
      [] c \in Stored /\ n \in chains[c].tail \ Entries(c) -> chains[c].kept[n]
      [] OTHER -> None

EnsureJob(c, entries) == [Idle EXCEPT !.job = "ensure", !.chain = c, !.left = entries]

\* handleCreateChain, handleUpdateChain, saveChainFromForm.
SaveChain(c, entry, ref, tail) ==
    /\ Request
    /\ ParsesLevels(entry, ref, tail)
    /\ chains' = [chains EXCEPT ![c] = [entry |-> entry, ref |-> ref, tail |-> tail,
                                           kept |-> [n \in tail |-> KeptRef(c, n)]]]
    /\ op' = EnsureJob(c, {entry[i] : i \in DOMAIN entry})
    /\ UNCHANGED << hosts, profiles, inbounds >>

\* ApplyChain up to its deploys.
ApplyChain(c) ==
    /\ Request
    /\ c \in Stored
    /\ op' = EnsureJob(c, Entries(c))
    /\ UNCHANGED << hosts, profiles, inbounds, chains >>

DeleteChain(c) ==
    /\ Request
    /\ c \in Stored
    /\ chains' = [chains EXCEPT ![c] = None]
    /\ op' = Idle
    /\ UNCHANGED << hosts, profiles, inbounds >>

\* ensureMaterializedEntryInbound: an inbound that is there keeps its keys and
\* moves to the port of the chain, and to subnet 0 if that is free.
Materialized(c, n, p, k) ==
    IF Placed(n, p)
    THEN LET ib == inbounds[n][p]
         IN [ib EXCEPT !.port = ChainEntryPort(c, n),
                       !.subnet = IF AWG(p) /\ ~SubnetClaimedOnNode(n, 0, p) THEN 0 ELSE ib.subnet]
    ELSE [port |-> ChainEntryPort(c, n), cred |-> k, subnet |-> 0]

\* EnsureChainEntryMaterialization, one entry.
EnsureStep(n, k) ==
    /\ op.job = "ensure" /\ n \in op.left
    /\ LET p == chains[op.chain].ref[n]
       IN inbounds' = [inbounds EXCEPT ![n][p] = Materialized(op.chain, n, p, k)]
    /\ op' = [op EXCEPT !.left = @ \ {n}]
    /\ UNCHANGED << hosts, profiles, chains, requests, faults >>

FinishEnsure ==
    /\ op.job = "ensure" /\ op.left = {}
    /\ op' = Idle
    /\ UNCHANGED << hosts, profiles, inbounds, chains, requests, faults >>

----------------------------------------------------------------------------
\* Nodes and failures.

\* DeleteHost refuses a host that a chain uses.
HostDeletable(n) == ~\E c \in Stored : n \in AllNodes(c)

\* handleDeleteNode, DeleteHost: the NodeInfo goes with the host.
DeleteNode(n) ==
    /\ Request
    /\ n \in hosts /\ HostDeletable(n)
    /\ hosts' = hosts \ {n}
    /\ inbounds' = [inbounds EXCEPT ![n] = [p \in Profiles |-> None]]
    /\ op' = Idle
    /\ UNCHANGED << profiles, chains >>

\* handleCaptureNode: the node, known or not, is stored with a NodeInfo without
\* inbounds.
CaptureNode(n) ==
    /\ Request
    /\ hosts' = hosts \cup {n}
    /\ inbounds' = [inbounds EXCEPT ![n] = [p \in Profiles |-> None]]
    /\ op' = Idle
    /\ UNCHANGED << profiles, chains >>

\* A store write fails, or the panel stops: the request ends where it is.
Fault ==
    /\ op.job # "idle" /\ faults < MaxFaults
    /\ faults' = faults + 1
    /\ op' = Idle
    /\ UNCHANGED << hosts, profiles, inbounds, chains, requests >>

Next ==
    \/ \E p \in Profiles, q \in Ports, want \in SUBSET Nodes : SaveInbound(p, q, want)
    \/ \E p \in Profiles : DeleteInbound(p)
    \/ \E n \in Nodes : RemoveStep(n) \/ SyncStep(n)
    \/ \E n \in Nodes, k \in Creds : AddStep(n, k) \/ EnsureStep(n, k)
    \/ FinishPlace \/ FinishDelete \/ FinishEnsure
    \/ \E c \in Chains, entry \in UNION {[1..i -> Nodes] : i \in 1..Cardinality(Nodes)}, tail \in SUBSET Nodes :
         \E ref \in [{entry[i] : i \in DOMAIN entry} -> Profiles] : SaveChain(c, entry, ref, tail)
    \/ \E c \in Chains : ApplyChain(c) \/ DeleteChain(c)
    \/ \E n \in Nodes : DeleteNode(n) \/ CaptureNode(n)
    \/ Fault

Spec == Init /\ [][Next]_vars

----------------------------------------------------------------------------
\* Properties.

\* Types; what a request has left to do are nodes the panel knows, and a node
\* that is not known has no inbounds (DeleteHost drops the NodeInfo).
TypeOK ==
    /\ hosts \subseteq Nodes
    /\ profiles \in [Profiles -> Ports \cup {None}]
    /\ inbounds \in [Nodes -> [Profiles -> InboundType \cup {None}]]
    /\ \A n \in Nodes \ hosts, p \in Profiles : ~Placed(n, p)
    /\ op.job \in {"idle", "place", "delete", "ensure"} /\ op.left \subseteq hosts
    /\ requests \in 0..MaxRequests /\ faults \in 0..MaxFaults

\* A chain never loses the inbound its entry listens on, nor its nodes, nor the
\* profile the inbound came from: a removal of the profile is refused there, and
\* neither a request that stopped half-way nor the deletion of a node gets round
\* it (chainReferencingProfileOn, DeleteInboundProfile, DeleteHost). Capturing the
\* node again empties it, and what is missing then is not lost here; a takeover of
\* the node (takeover.go:64) and a restored backup of the store (backup.go:245)
\* replace its inbounds too, and are not steps of this model.
RefPlaced ==
    [][(\E n \in Nodes : CaptureNode(n)) \/ \A c \in Stored' :
         /\ AllNodes(c)' \subseteq hosts'
         /\ \A n \in Entries(c)' : LET p == chains'[c].ref[n] IN
              /\ profiles'[p] # None
              /\ \/ inbounds'[n][p] # None
                 \/ c \in Stored /\ n \in Entries(c) /\ chains[c].ref[n] = p /\ ~Placed(n, p)]_vars

\* No step brings two AWG inbounds of a node into one /24, neither a placement
\* nor the move of a chain's entry to 10.8.0.1/24 (awgSubnetsInUseOnNode,
\* awgSubnetClaimedOnNode). The exception is the inbound of an entry that a
\* capture took away: ensureMaterializedEntryInbound makes it again on
\* 10.8.0.1/24 without a look at the others.
SubnetsStayDisjoint ==
    [][\A n \in Nodes : \A p, r \in {s \in Profiles : AWG(s) /\ inbounds'[n][s] # None} :
         p # r /\ inbounds'[n][p].subnet = inbounds'[n][r].subnet =>
           \/ Placed(n, p) /\ Placed(n, r) /\ inbounds[n][p].subnet = inbounds[n][r].subnet
           \/ op.job = "ensure" /\ (~Placed(n, p) \/ ~Placed(n, r))]_vars

\* Credentials of an inbound are made once: no later placement, edit or chain
\* changes them while the inbound is there (buildProfileInbound,
\* ensureMaterializedEntryInbound).
CredsStable ==
    [][\A n \in Nodes, p \in Profiles :
         Placed(n, p) /\ inbounds'[n][p] # None => inbounds'[n][p].cred = inbounds[n][p].cred]_vars
=============================================================================
