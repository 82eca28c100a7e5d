----------------------------- MODULE Relocation -----------------------------
(***************************************************************************)
(* Moving a node to another VPS: RelocateNode (chain/relocate.go), called  *)
(* by the operator's handler and by the metrics loop, which moves a node   *)
(* that went down onto a spare (chain/autorelocate.go, startAutoRelocate   *)
(* of web/server.go), and the ApplyChain (chain/applier_build.go) it runs  *)
(* for every chain of the node.                                            *)
(*                                                                         *)
(* The store keeps the address of a node three times: in its Host, in the  *)
(* Host embedded in its NodeInfo, and in every chain with the node, where  *)
(* it is a copy in Levels (chains made with the levels form) or in the     *)
(* flat list.  What a VPS runs is the config of one node, which holds the  *)
(* addresses of the other nodes of its chains.  A step is one call of the  *)
(* store or the work on one VPS.                                           *)
(***************************************************************************)
EXTENDS Naturals, Sequences, FiniteSets, SequencesExt

CONSTANTS
    Nodes,          \* nodes with chains, and the names of their first VPSes
    Spares,         \* spares of the warm pool, likewise
    NewVPS,         \* VPSes an operator moves a node to by hand, spares and others
    Chains,
    Members,        \* chain -> sequence of its nodes
    Levelized,      \* chains that have Levels
    AutoNodes,      \* nodes with NodeInfo.AutoRelocate
    MaxEvents,      \* bound: VPSes or services that fail, deploys that fail on a VPS
                    \* that answers, actions of the operator
    MaxAtOnce,      \* bound: relocations that run at the same time
    Operator,       \* model value: the operator's relocation
    NoOne           \* model value

Ids == Nodes \cup Spares
VPS == Ids \cup NewVPS
Jobs == AutoNodes \cup {Operator}

\* NodeInfo: where the node is, is it a spare, was it moved within the cooldown.
InfoRecords == [addr : VPS, spare : BOOLEAN, stamp : {"old", "recent"}]

ASSUME RelocationAssumption ==
    /\ Members \in [Chains -> Seq(Nodes)]
    /\ \A c \in Chains : IsInjective(Members[c])
    /\ Levelized \subseteq Chains /\ AutoNodes \subseteq Nodes
    /\ MaxEvents \in Nat /\ MaxAtOnce \in Nat
    /\ Operator \notin Nodes /\ NoOne \notin VPS \cup InfoRecords
    /\ IsFiniteSet(Nodes) /\ IsFiniteSet(Spares) /\ Nodes \cap Spares = {}

VARIABLES
    hosts,      \* Store.Hosts: id -> address, or NoOne
    infos,      \* Store.NodeInfos: id -> record, or NoOne
    chains,     \* Store.Chains: chain -> addresses in Nodes and in Levels
    vps,        \* VPS -> what it runs
    state,      \* NodeMetrics.State of a node, as the metrics loop saw it last
    job,        \* relocation -> its progress and locals
    applied,    \* history: outcome of the last ApplyChain of a chain
    events,
    beside,     \* history: the relocations that ran beside another one
    hand        \* history: the addresses an operator moved a node to

store == << hosts, infos, chains >>
vars == << hosts, infos, chains, vps, state, job, applied, events, beside, hand >>

\* A relocation with its locals: the chains it works on are the domain of copy.
NewJob(n, s, to) ==
    [pc |-> "host", node |-> n, spare |-> s, to |-> to, info |-> NoOne,
     copy |-> << >>, todo |-> {}, c |-> NoOne, i |-> 0, ok |-> TRUE]

NoJob == [NewJob(NoOne, NoOne, NoOne) EXCEPT !.pc = "none"]

Idle(j) == job[j].pc = "none"
Running == {j \in Jobs : ~Idle(j)}

Init ==
    /\ hosts = [i \in Ids |-> i]
    /\ infos = [i \in Ids |-> [addr |-> i, spare |-> i \in Spares, stamp |-> "old"]]
    /\ chains = [c \in Chains |-> [nodes |-> [m \in ToSet(Members[c]) |-> m],
                                   levels |-> [m \in IF c \in Levelized THEN ToSet(Members[c]) ELSE {} |-> m]]]
    /\ vps = [v \in VPS |->
                [up |-> TRUE, runs |-> v \in Nodes, id |-> IF v \in Nodes THEN v ELSE NoOne,
                 peers |-> [c \in {k \in Chains : v \in ToSet(Members[k])} |-> [m \in ToSet(Members[c]) |-> m]]]]
    /\ state = [n \in Nodes |-> "healthy"]
    /\ job = [j \in Jobs |-> NoJob]
    /\ applied = [c \in Chains |-> "ok"]
    /\ events = 0
    /\ beside = {} /\ hand = {}

----------------------------------------------------------------------------
\* Chains.

\* AllNodes: Levels are the source of truth where a chain has them.
AllNodes(c, ch) == IF c \in Levelized THEN ch.levels ELSE ch.nodes

\* SaveChain: the flat list of a levelized chain is derived from the levels.
SaveChain(c, ch) ==
    chains' = [chains EXCEPT ![c] = [ch EXCEPT !.nodes = AllNodes(c, ch)]]

InChain(c) == DOMAIN AllNodes(c, chains[c])
GetChainsForNode(n) == {c \in Chains : n \in InChain(c)}

----------------------------------------------------------------------------
\* The decision (autorelocate.go).

\* PickSpare: a spare in no chain.  (Spares carry no inbounds here.)
Pickable(s, n) ==
    /\ infos[s] # NoOne /\ infos[s].spare
    /\ s # n
    /\ GetChainsForNode(s) = {}

\* AutoRelocateDecision: opted in, not itself a spare, outside the cooldown.
AutoRelocateDecision(n, s) ==
    /\ infos[n] # NoOne
    /\ ~infos[n].spare
    /\ n \in AutoNodes
    /\ infos[n].stamp # "recent"
    /\ Pickable(s, n)

\* A relocation that starts while others run, and these, ran beside another.
Beside(j) == beside' = IF Running = {} THEN beside ELSE beside \cup Running \cup {j}

\* Is the service of node n seen as running at the address of its host?
Answers(n) == hosts[n] # NoOne /\ vps[hosts[n]].up /\ vps[hosts[n]].runs

\* collectAllMetrics, once the state machine of NodeHealth changes the state:
\* an incident may start a relocation, unless one of the node is under way
\* (the map s.relocating, here the job of the node).
EnterIncident(n) ==
    /\ state[n] = "healthy" /\ ~Answers(n) /\ Cardinality(Running) < MaxAtOnce
    /\ state' = [state EXCEPT ![n] = "incident"]
    /\ \/ \E s \in Spares :
             /\ AutoRelocateDecision(n, s)
             /\ Idle(n)
             /\ job' = [job EXCEPT ![n] = NewJob(n, s, infos[s].addr)]
             /\ Beside(n)
       \/ /\ \A s \in Spares : ~(AutoRelocateDecision(n, s) /\ Idle(n))
          /\ UNCHANGED << job, beside >>
    /\ UNCHANGED << store, vps, applied, events, hand >>

Recover(n) ==
    /\ state[n] = "incident" /\ Answers(n)
    /\ state' = [state EXCEPT ![n] = "healthy"]
    /\ UNCHANGED << store, vps, job, applied, events, beside, hand >>

\* handleRelocateNode: any address, also one that another node has or that is
\* being given to one, and also while other relocations run.
RelocateByHand(n, v) ==
    /\ Idle(Operator) /\ events < MaxEvents /\ Cardinality(Running) < MaxAtOnce
    /\ events' = events + 1 /\ hand' = hand \cup {v}
    /\ Beside(Operator)
    /\ job' = [job EXCEPT ![Operator] = NewJob(n, NoOne, v)]
    /\ UNCHANGED << store, vps, state, applied >>

----------------------------------------------------------------------------
\* RelocateNode.

Goto(j, pc) == job' = [job EXCEPT ![j].pc = pc]

SaveHost(j) ==
    /\ job[j].pc = "host"
    /\ hosts' = [hosts EXCEPT ![job[j].node] = job[j].to]
    /\ Goto(j, "info")
    /\ UNCHANGED << infos, chains, vps, state, applied, events, beside, hand >>

ReadInfo(j) ==
    /\ job[j].pc = "info"
    /\ job' = [job EXCEPT ![j].info = infos[job[j].node], ![j].pc = "saveInfo"]
    /\ UNCHANGED << store, vps, state, applied, events, beside, hand >>

SaveInfo(j) ==
    /\ job[j].pc = "saveInfo"
    /\ infos' = IF job[j].info = NoOne THEN infos
                ELSE [infos EXCEPT ![job[j].node] = [job[j].info EXCEPT !.addr = job[j].to]]
    /\ job' = [job EXCEPT ![j].info = NoOne, ![j].pc = "list"]
    /\ UNCHANGED << hosts, chains, vps, state, applied, events, beside, hand >>

\* The new address goes into the flat list of a copy.
WithAddr(c, ch, n, a) == [ch EXCEPT !.nodes = [@ EXCEPT ![n] = a]]

\* The affected chains are read once; the copies are worked on until the end.
ListChains(j) ==
    /\ job[j].pc = "list"
    /\ LET S == GetChainsForNode(job[j].node) IN
       job' = [job EXCEPT ![j].copy = [c \in S |-> WithAddr(c, chains[c], job[j].node, job[j].to)],
                          ![j].todo = S, ![j].pc = "snap"]
    /\ UNCHANGED << store, vps, state, applied, events, beside, hand >>

SaveSnapshot(j) ==
    /\ job[j].pc = "snap"
    /\ IF job[j].todo = {}
       THEN /\ job' = [job EXCEPT ![j].todo = DOMAIN job[j].copy, ![j].pc = "resolve"]
            /\ UNCHANGED chains
       ELSE LET c == CHOOSE c \in job[j].todo : TRUE IN
            /\ SaveChain(c, job[j].copy[c])
            /\ job' = [job EXCEPT ![j].todo = @ \ {c}]
    /\ UNCHANGED << hosts, infos, vps, state, applied, events, beside, hand >>

\* ResolveNodes takes every address from the hosts; a missing host is this
\* chain's error.  The result goes into the flat list.
ResolvedCopy(c, ch) == [ch EXCEPT !.nodes = [m \in DOMAIN AllNodes(c, ch) |-> hosts[m]]]

Resolve(j) ==
    /\ job[j].pc = "resolve" /\ job[j].todo # {}
    /\ LET c == CHOOSE c \in job[j].todo : TRUE
           ch == job[j].copy[c] IN
       IF \A m \in DOMAIN AllNodes(c, ch) : hosts[m] # NoOne
       THEN /\ job' = [job EXCEPT ![j].c = c, ![j].copy[c] = ResolvedCopy(c, ch), ![j].todo = @ \ {c}, ![j].pc = "apply"]
            /\ UNCHANGED applied
       ELSE /\ job' = [job EXCEPT ![j].todo = @ \ {c}]
            /\ applied' = [applied EXCEPT ![c] = "failed"]
    /\ UNCHANGED << store, vps, state, events, beside, hand >>

----------------------------------------------------------------------------
\* ApplyChain, on the copy of the relocation.

\* Its nodes are those of the levels, if there are levels.
Targets(j) == AllNodes(job[j].c, job[j].copy[job[j].c])
Order(j) == SetToSeq(DOMAIN Targets(j))

\* The pre-flight check connects to every node; the chain is then saved.
Preflight(j) ==
    /\ job[j].pc = "apply"
    /\ LET c == job[j].c
           t == Targets(j)
           ch == [job[j].copy[c] EXCEPT !.nodes = t] IN
       IF \A m \in DOMAIN t : vps[t[m]].up
       THEN /\ SaveChain(c, ch)
            /\ job' = [job EXCEPT ![j].copy[c] = ch, ![j].i = 1, ![j].ok = TRUE, ![j].pc = "deploy"]
            /\ UNCHANGED applied
       ELSE /\ job' = [job EXCEPT ![j].c = NoOne, ![j].pc = "resolve"]
            /\ applied' = [applied EXCEPT ![c] = "failed"]
            /\ UNCHANGED chains
    /\ UNCHANGED << hosts, infos, vps, state, events, beside, hand >>

\* The config of node m: this chain as it is in hand, the node's other chains
\* as they are in the store.
Rendered(j, m) ==
    [c \in GetChainsForNode(m) |-> IF c = job[j].c THEN Targets(j) ELSE AllNodes(c, chains[c])]

\* Mutants: the service is not started; a failed node is not reported.
StoppedConfig(m, peers) == [up |-> TRUE, runs |-> FALSE, id |-> m, peers |-> peers]
NodeFailedSilently(j) == job' = [job EXCEPT ![j].i = @ + 1]

RunningConfig(m, peers) == [up |-> TRUE, runs |-> TRUE, id |-> m, peers |-> peers]
MinimalConfig == [up |-> TRUE, runs |-> TRUE, id |-> NoOne, peers |-> << >>]
NodeFailed(j) == job' = [job EXCEPT ![j].i = @ + 1, ![j].ok = FALSE]

\* One node after the other; a failure is recorded and the loop goes on.  One
\* after the installation of sing-box leaves the minimal config it writes.
DeployNode(j) ==
    /\ job[j].pc = "deploy" /\ job[j].i <= Len(Order(j))
    /\ LET m == Order(j)[job[j].i]
           v == Targets(j)[m] IN
       \/ /\ vps[v].up
          /\ vps' = [vps EXCEPT ![v] = RunningConfig(m, Rendered(j, m))]
          /\ job' = [job EXCEPT ![j].i = @ + 1]
          /\ UNCHANGED events
       \/ /\ \/ ~vps[v].up /\ UNCHANGED << vps, events >>
             \/ /\ vps[v].up /\ events < MaxEvents /\ events' = events + 1
                /\ UNCHANGED vps \/ vps' = [vps EXCEPT ![v] = MinimalConfig]
          /\ NodeFailed(j)
    /\ UNCHANGED << store, state, applied, beside, hand >>

\* Back in RelocateNode: after a success the chain is saved once more.
ChainDone(j) ==
    /\ job[j].pc = "deploy" /\ job[j].i > Len(Order(j))
    /\ IF job[j].ok THEN SaveChain(job[j].c, job[j].copy[job[j].c]) ELSE UNCHANGED chains
    /\ applied' = [applied EXCEPT ![job[j].c] =
                      IF ~job[j].ok THEN "failed" ELSE IF j \in beside THEN "crossed" ELSE "ok"]
    /\ job' = [job EXCEPT ![j].c = NoOne, ![j].pc = "resolve"]
    /\ UNCHANGED << hosts, infos, vps, state, events, beside, hand >>

\* The end of RelocateNode, whatever became of the chains.
Finish(j) ==
    /\ job[j].pc = "resolve" /\ job[j].todo = {}
    /\ \/ j = Operator /\ job' = [job EXCEPT ![j] = NoJob] /\ beside' = beside \ {j}
       \/ j # Operator /\ Goto(j, "consume") /\ UNCHANGED beside
    /\ UNCHANGED << store, vps, state, applied, events, hand >>

----------------------------------------------------------------------------
\* startAutoRelocate, after RelocateNode.

\* Mutant: the spare stays in the pool.
ConsumeInfoKept(j) ==
    /\ job[j].pc = "consume"
    /\ Goto(j, "consumeHost")
    /\ UNCHANGED << store, vps, state, applied, events, beside, hand >>

\* ConsumeSpare: first the NodeInfo, then the Host, which stays if a chain
\* has the spare by now.
ConsumeInfo(j) ==
    /\ job[j].pc = "consume"
    /\ infos' = [infos EXCEPT ![job[j].spare] = NoOne]
    /\ Goto(j, "consumeHost")
    /\ UNCHANGED << hosts, chains, vps, state, applied, events, beside, hand >>

HostDeletable(i) == GetChainsForNode(i) = {}

ConsumeHost(j) ==
    /\ job[j].pc = "consumeHost"
    /\ hosts' = IF HostDeletable(job[j].spare) THEN [hosts EXCEPT ![job[j].spare] = NoOne] ELSE hosts
    /\ Goto(j, "stamp")
    /\ UNCHANGED << infos, chains, vps, state, applied, events, beside, hand >>

StampRead(j) ==
    /\ job[j].pc = "stamp"
    /\ job' = [job EXCEPT ![j].info = infos[job[j].node], ![j].pc = "saveStamp"]
    /\ UNCHANGED << store, vps, state, applied, events, beside, hand >>

\* The goroutine ends and gives up its place in s.relocating.
StampSave(j) ==
    /\ job[j].pc = "saveStamp"
    /\ infos' = IF job[j].info = NoOne THEN infos
                ELSE [infos EXCEPT ![job[j].node] = [job[j].info EXCEPT !.stamp = "recent"]]
    /\ job' = [job EXCEPT ![j] = NoJob] /\ beside' = beside \ {j}
    /\ UNCHANGED << hosts, chains, vps, state, applied, events, hand >>

----------------------------------------------------------------------------
\* The surroundings.

\* The cooldown passes.
CoolDown(n) ==
    /\ infos[n] # NoOne /\ infos[n].stamp = "recent"
    /\ infos' = [infos EXCEPT ![n].stamp = "old"]
    /\ UNCHANGED << hosts, chains, vps, state, job, applied, events, beside, hand >>

\* A VPS is lost, or only the service on it stops.
Outage(v) ==
    /\ events < MaxEvents
    /\ v \in {hosts[n] : n \in Nodes} /\ vps[v].up /\ vps[v].runs
    /\ vps' \in {[vps EXCEPT ![v].up = FALSE], [vps EXCEPT ![v].runs = FALSE]}
    /\ events' = events + 1
    /\ UNCHANGED << store, state, job, applied, beside, hand >>

\* The operator puts a spare into a chain while a relocation runs.
AddToChain(s, c) ==
    /\ Running # {} /\ events < MaxEvents
    /\ s \notin InChain(c) /\ hosts[s] # NoOne
    /\ events' = events + 1
    /\ LET new == [m \in InChain(c) \cup {s} |-> IF m = s THEN hosts[s] ELSE AllNodes(c, chains[c])[m]] IN
       chains' = [chains EXCEPT ![c] = [nodes |-> new, levels |-> IF c \in Levelized THEN new ELSE @.levels]]
    /\ applied' = [applied EXCEPT ![c] = "edited"]
    /\ UNCHANGED << hosts, infos, vps, state, job, beside, hand >>

JobStep(j) ==
    /\ ~Idle(j)
    /\ \/ SaveHost(j) \/ ReadInfo(j) \/ SaveInfo(j) \/ ListChains(j) \/ SaveSnapshot(j) \/ Resolve(j)
       \/ Preflight(j) \/ DeployNode(j) \/ ChainDone(j) \/ Finish(j)
       \/ ConsumeInfo(j) \/ ConsumeHost(j) \/ StampRead(j) \/ StampSave(j)

Next ==
    \/ \E n \in Nodes : EnterIncident(n) \/ Recover(n) \/ CoolDown(n) \/ \E v \in NewVPS : RelocateByHand(n, v)
    \/ \E j \in Jobs : JobStep(j)
    \/ \E v \in VPS : Outage(v)
    \/ \E s \in Spares, c \in Chains : AddToChain(s, c)

Spec == Init /\ [][Next]_vars

\* A relocation runs on, and the metrics loop comes by.
Fairness ==
    /\ \A j \in Jobs : WF_vars(JobStep(j))
    /\ \A n \in Nodes : WF_vars(EnterIncident(n) \/ Recover(n))

FairSpec == Spec /\ Fairness

----------------------------------------------------------------------------
\* Properties.

Addresses == UNION {[S -> VPS \cup {NoOne}] : S \in SUBSET Ids}
ChainRecords == [nodes : Addresses, levels : Addresses]

\* The types of the store, of the VPSes and of the relocations' locals.
TypeOK ==
    /\ hosts \in [Ids -> VPS \cup {NoOne}]
    /\ infos \in [Ids -> InfoRecords \cup {NoOne}]
    /\ chains \in [Chains -> ChainRecords]
    /\ \A v \in VPS :
          /\ vps[v].up \in BOOLEAN /\ vps[v].runs \in BOOLEAN /\ vps[v].id \in Ids \cup {NoOne}
          /\ DOMAIN vps[v].peers \subseteq Chains
          /\ \A c \in DOMAIN vps[v].peers : vps[v].peers[c] \in Addresses
    /\ state \in [Nodes -> {"healthy", "incident"}]
    /\ \A j \in Running :
          /\ job[j].node \in Nodes /\ job[j].to \in VPS /\ job[j].spare \in Spares \cup {NoOne}
          /\ job[j].info \in InfoRecords \cup {NoOne}
          /\ DOMAIN job[j].copy \subseteq Chains /\ \A c \in DOMAIN job[j].copy : job[j].copy[c] \in ChainRecords
          /\ job[j].todo \subseteq Chains /\ job[j].c \in Chains \cup {NoOne}
    /\ applied \in [Chains -> {"ok", "failed", "crossed", "edited"}]
    /\ events \in 0..MaxEvents
    /\ beside \subseteq Running /\ hand \subseteq VPS

\* A spare is given away once: the metrics loop moves a node to a VPS that
\* another node has, where its deploy would end the other's service, only while
\* the relocation of that one to the same spare still runs (nothing keeps two
\* nodes of one tick from the first spare of the pool), or if an operator moved a
\* node there and left the spare in the pool (PickSpare, ConsumeSpare).
SpareGivenOnce ==
    [][\A n \in AutoNodes, m \in Nodes :
          job[n].pc = "none" /\ job'[n].pc # "none" /\ m # n /\ hosts[m] = job'[n].to =>
              \/ \E j \in Jobs : job[j].node = m /\ job[j].spare = job'[n].spare
              \/ hosts[m] \in hand]_vars

\* A VPS runs the node that was deployed last.  Two have the same one if an
\* operator or two relocations gave them the same address, and if a spare joined a
\* chain after it was picked: it loses its NodeInfo and keeps its Host
\* (ConsumeSpare).
Sharing(c) ==
    \E m \in InChain(c), i \in Ids :
        /\ hosts[i] = hosts[m] /\ hosts[i] # NoOne
        /\ (i # m /\ GetChainsForNode(i) # {}) \/ (i \in Spares /\ infos[i] = NoOne)

\* Once no relocation runs, a chain whose last apply was reported as a success, by
\* a relocation that no other one ran beside, is deployed on the VPSes that the
\* hosts name, and every node of it dials the others there (RelocateNode: "so the
\* new IP propagates to dependent nodes"), unless the failed apply of another chain
\* left a node with the minimal config.
SuccessPropagates ==
    Running = {} =>
        \A c \in Chains : applied[c] = "ok" /\ ~Sharing(c) =>
            \A m \in InChain(c) :
                \/ /\ vps[hosts[m]].id = m
                   /\ vps[hosts[m]].peers[c] = [k \in InChain(c) |-> hosts[k]]
                \/ /\ vps[hosts[m]].id = NoOne
                   /\ \E d \in GetChainsForNode(m) : applied[d] # "ok"

\* The automatic relocation of a node that went down brings its service back,
\* unless the apply of one of its chains failed (RelocateNode) or another
\* relocation ran beside the one that applied it, or something else fails later.
RelocationHeals ==
    \A n \in AutoNodes :
        (job[n].pc = "host" /\ events = MaxEvents) ~>
            (Idle(n) /\ (Answers(n) \/ \E c \in GetChainsForNode(n) : applied[c] # "ok"))
=============================================================================
