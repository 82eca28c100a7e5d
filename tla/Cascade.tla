------------------------------ MODULE Cascade -------------------------------
(***************************************************************************)
(* Chains from the form to the traffic: the operator saves, deletes and    *)
(* applies chains (web/chains.go), ApplyChain makes the missing transit    *)
(* keys, stores them and then goes from node to node: it renders the       *)
(* merged config, installs sing-box, which replaces the config on the node *)
(* by a minimal one, and pushes (chain/applier_build.go). A node may be    *)
(* applied by itself, users are pinned to nodes (web/users.go), and        *)
(* connections of users follow the configs the nodes run.                  *)
(*                                                                         *)
(* A step of a deploy ends where it waits for SSH: after the chain is read *)
(* (the pre-flight connects), after the keys are saved, after a node is    *)
(* rendered, after the installation, after a push.  A push that fails      *)
(* leaves the node with the config it found (NodePush), the minimal one.   *)
(* That the entry inbounds of a chain are placed is the subject of         *)
(* Placement, addresses that of Relocation.                                *)
(***************************************************************************)
EXTENDS MergedConfig, FiniteSets

CONSTANTS
    Forms,          \* what the operator may submit: name, proto, transport, port, levels
    RouteModes,     \* values of AB_ROUTE_DNS=1 to start the panel with
    Jobs,           \* requests that deploy
    MaxGen,         \* bound: applies that make keys
    MaxEdits,       \* bound: forms and pins submitted
    MaxDeploys      \* bound: deploys started

Names == {f.name : f \in Forms}

ValidateChainTopology(f) ==
    /\ \A l \in DOMAIN f.levels : f.levels[l] # <<>>
    /\ f.transport = "awg" => \A l \in DOMAIN f.levels : Len(f.levels[l]) = 1

ASSUME CascadeAssumption ==
    /\ IsFiniteSet(Nodes) /\ IsFiniteSet(Users) /\ AWGNodes \subseteq Nodes
    /\ TransitPort \in Nat /\ MaxGen \in Nat /\ MaxEdits \in Nat /\ MaxDeploys \in Nat
    /\ RouteModes \subseteq BOOLEAN
    /\ NoNode \notin Nodes /\ NoChain \notin Names
    \* No node is twice in a chain.
    /\ \A f \in Forms :
          /\ f.port \in Nat /\ f.levels \in Seq(Seq(Nodes)) /\ f.levels # <<>> /\ ValidateChainTopology(f)
          /\ \A k, l \in DOMAIN f.levels : \A x \in DOMAIN f.levels[k], y \in DOMAIN f.levels[l] :
                f.levels[k][x] = f.levels[l][y] => k = l /\ x = y
          /\ f.proto = "awg" => ToSet(f.levels[1]) \subseteq AWGNodes
    \* A node has one awg0, so the operator gives it one AWG entry.
    /\ \A f, g \in Forms :
          f.name # g.name /\ IsAWG(f) /\ IsAWG(g) => ToSet(f.levels[1]) \cap ToSet(g.levels[1]) = {}

VARIABLES
    routeDNS,   \* AB_ROUTE_DNS of the panel process
    chains,     \* Store.Chains
    pins,       \* User.ChainExit: user -> chain -> node
    jobs,       \* request -> the deploy in progress
    running,    \* node -> the config it runs
    gen,        \* generations of keys made so far
    edits, deploys,
    good        \* chains whose last apply succeeded and that were not touched since

cascadeVars == << routeDNS, chains, pins, jobs, running, gen, edits, deploys, good >>

NoKey == [tr |-> 0, srv |-> 0, cli |-> 0]

Index(c) == {i \in DOMAIN chains : chains[i].name = c}

Stored(c) == chains[CHOOSE i \in Index(c) : TRUE]

\* Store.SaveChain.
Put(c) ==
    chains' = IF Index(c.name) = {} THEN Append(chains, c)
              ELSE [chains EXCEPT ![CHOOSE i \in Index(c.name) : TRUE] = c]

Idle == [step |-> "idle"]

Applying(j) == jobs[j].step \in {"preflight", "hop", "install", "push"}

CascadeInit ==
    /\ routeDNS \in RouteModes
    /\ chains = <<>>
    /\ pins = [u \in Users |-> [c \in Names |-> NoNode]]
    /\ jobs = [j \in Jobs |-> Idle]
    /\ running = [n \in Nodes |-> MinimalConfig]
    /\ gen = 0 /\ edits = 0 /\ deploys = 0
    /\ good = {}

-----------------------------------------------------------------------------
(* Requests that change the store.                                         *)

\* An edit of the chain or of its pins: applies in progress do not cover it.
Touch(c) ==
    /\ good' = good \ {c}
    /\ jobs' = [j \in Jobs |->
                   IF Applying(j) /\ jobs[j].chain.name = c
                   THEN [jobs[j] EXCEPT !.clean = FALSE] ELSE jobs[j]]

\* Nodes that stay in the chain keep their keys.
FormKey(f) ==
    [n \in Nodes |->
        IF Index(f.name) # {} /\ n \in ChainNodes(f) \cap ChainNodes(Stored(f.name))
        THEN Stored(f.name).key[n] ELSE NoKey]

FromForm(f) ==
    [name |-> f.name, proto |-> f.proto, transport |-> f.transport, port |-> f.port, levels |-> f.levels,
     key |-> FormKey(f)]

SaveChain(f) ==
    /\ edits < MaxEdits
    /\ edits' = edits + 1
    /\ Put(FromForm(f))
    /\ Touch(f.name)
    /\ UNCHANGED << routeDNS, pins, running, gen, deploys >>

DeleteChain(c) ==
    /\ edits < MaxEdits /\ Index(c) # {}
    /\ edits' = edits + 1
    /\ chains' = InOrder(chains, {d \in ToSet(chains) : d.name # c})
    /\ Touch(c)
    /\ UNCHANGED << routeDNS, pins, running, gen, deploys >>

SetPin(u, c, n) ==
    /\ edits < MaxEdits /\ Index(c) # {}
    /\ n # pins[u][c] /\ n \in ChainNodes(Stored(c)) \cup {NoNode}
    /\ edits' = edits + 1
    /\ pins' = [pins EXCEPT ![u][c] = n]
    /\ Touch(c)
    /\ UNCHANGED << routeDNS, chains, running, gen, deploys >>

-----------------------------------------------------------------------------
(* ApplyChain.                                                             *)

StartApply(j, c) ==
    /\ jobs[j].step = "idle" /\ deploys < MaxDeploys /\ Index(c) # {}
    /\ deploys' = deploys + 1
    /\ jobs' = [jobs EXCEPT ![j] =
           [step |-> "preflight", chain |-> Stored(c), clean |-> TRUE, ok |-> TRUE, hop |-> 1, cfg |-> MinimalConfig]]
    /\ UNCHANGED << routeDNS, chains, pins, running, gen, edits, good >>

PreflightFails(j) ==
    /\ jobs[j].step = "preflight"
    /\ jobs' = [jobs EXCEPT ![j] = Idle]
    /\ UNCHANGED << routeDNS, chains, pins, running, gen, edits, deploys, good >>

\* Keys of generation g where the chain has none.
WithKeys(c, g) ==
    LET fill(k) == IF k = 0 THEN g ELSE k
        i(n) == NodeIndex(c, n)
        key(n) ==
            [tr  |-> fill(c.key[n].tr),
             srv |-> IF c.transport = "awg" /\ i(n) > 1 THEN fill(c.key[n].srv) ELSE c.key[n].srv,
             cli |-> IF c.transport = "awg" /\ i(n) < Len(AllNodes(c)) THEN fill(c.key[n].cli) ELSE c.key[n].cli]
    IN  [c EXCEPT !.key = [n \in Nodes |-> IF n \in ChainNodes(c) THEN key(n) ELSE c.key[n]]]

SaveKeys(j) ==
    LET keyed == WithKeys(jobs[j].chain, gen + 1)
        fresh == keyed # jobs[j].chain
    IN  /\ jobs[j].step = "preflight"
        /\ fresh => gen < MaxGen
        /\ gen' = IF fresh THEN gen + 1 ELSE gen
        /\ Put(keyed)
        /\ jobs' = [jobs EXCEPT ![j].chain = keyed, ![j].step = "hop"]
        /\ UNCHANGED << routeDNS, pins, running, edits, deploys, good >>

HopNode(j) == AllNodes(jobs[j].chain)[jobs[j].hop]

\* Defect variant: the config of a node has the chain that is applied only.
HopChainsAlone(j, n) == << jobs[j].chain >>

\* The chains of node n with the job's own copy of its chain.
HopChains(j, n) ==
    LET c == jobs[j].chain
        cs == GetChainsForNode(chains, n)
    IN  IF \E d \in ToSet(cs) : d.name = c.name
        THEN [i \in DOMAIN cs |-> IF cs[i].name = c.name THEN c ELSE cs[i]]
        ELSE Append(cs, c)

\* The job after a node: the next one, or the end.
AfterHop(j, ok) ==
    IF jobs[j].hop < Len(AllNodes(jobs[j].chain))
    THEN [jobs[j] EXCEPT !.step = "hop", !.hop = @ + 1, !.ok = @ /\ ok, !.cfg = MinimalConfig]
    ELSE Idle

Finished(j, ok) ==
    good' = IF AfterHop(j, ok) = Idle /\ jobs[j].ok /\ ok /\ jobs[j].clean
            THEN good \cup {jobs[j].chain.name} ELSE good

RenderHop(j) ==
    LET n == HopNode(j)
        cs == HopChains(j, n)
    IN  /\ jobs[j].step = "hop"
        /\ \/ /\ PortConflict(cs, n)
              /\ jobs' = [jobs EXCEPT ![j] = AfterHop(j, FALSE)]
           \/ /\ ~PortConflict(cs, n)
              /\ jobs' = [jobs EXCEPT ![j].step = "install", ![j].cfg = MergedNodeConfig(cs, n, pins, routeDNS)]
        /\ UNCHANGED << routeDNS, chains, pins, running, gen, edits, deploys, good >>

\* The minimal config of the installation; awg0 is not touched.
Installed(n) == [running EXCEPT ![n] = [MinimalConfig EXCEPT !.awg0 = running[n].awg0]]

\* Connect, install sing-box and the AWG module.
InstallHop(j) ==
    /\ jobs[j].step = "install"
    /\ \/ /\ running' = Installed(HopNode(j))
          /\ \/ jobs' = [jobs EXCEPT ![j].step = "push"]
             \/ jobs' = [jobs EXCEPT ![j] = AfterHop(j, FALSE)]
       \/ /\ jobs' = [jobs EXCEPT ![j] = AfterHop(j, FALSE)]
          /\ UNCHANGED running
    /\ UNCHANGED << routeDNS, chains, pins, gen, edits, deploys, good >>

PushHop(j) ==
    /\ jobs[j].step = "push"
    /\ \/ /\ Accepted(jobs[j].cfg)
          /\ running' = [running EXCEPT ![HopNode(j)] = jobs[j].cfg]
          /\ jobs' = [jobs EXCEPT ![j] = AfterHop(j, TRUE)]
          /\ Finished(j, TRUE)
       \/ /\ jobs' = [jobs EXCEPT ![j] = AfterHop(j, FALSE)]
          /\ UNCHANGED << running, good >>
    /\ UNCHANGED << routeDNS, chains, pins, gen, edits, deploys >>

-----------------------------------------------------------------------------
(* ApplyMergedNode: the chains are read, then the node is connected.       *)

StartNodeApply(j, n) ==
    /\ jobs[j].step = "idle" /\ deploys < MaxDeploys
    /\ deploys' = deploys + 1
    /\ jobs' = [jobs EXCEPT ![j] = [step |-> "connect", node |-> n, chains |-> GetChainsForNode(chains, n)]]
    /\ UNCHANGED << routeDNS, chains, pins, running, gen, edits, good >>

\* The node may be out of reach.
RenderNode(j) ==
    /\ jobs[j].step = "connect"
    /\ \/ jobs' = [jobs EXCEPT ![j] = Idle]
       \/ /\ ~PortConflict(jobs[j].chains, jobs[j].node)
          /\ jobs' = [jobs EXCEPT ![j] =
                 [step |-> "installnode", node |-> jobs[j].node,
                  cfg |-> MergedNodeConfig(jobs[j].chains, jobs[j].node, pins, routeDNS)]]
    /\ UNCHANGED << routeDNS, chains, pins, running, gen, edits, deploys, good >>

InstallNode(j) ==
    /\ jobs[j].step = "installnode"
    /\ running' = Installed(jobs[j].node)
    /\ jobs' = [jobs EXCEPT ![j].step = "pushnode"] \/ jobs' = [jobs EXCEPT ![j] = Idle]
    /\ UNCHANGED << routeDNS, chains, pins, gen, edits, deploys, good >>

PushNode(j) ==
    /\ jobs[j].step = "pushnode"
    /\ \/ /\ Accepted(jobs[j].cfg)
          /\ running' = [running EXCEPT ![jobs[j].node] = jobs[j].cfg]
       \/ UNCHANGED running
    /\ jobs' = [jobs EXCEPT ![j] = Idle]
    /\ UNCHANGED << routeDNS, chains, pins, gen, edits, deploys, good >>

-----------------------------------------------------------------------------
CascadeNext ==
    \/ \E f \in Forms : SaveChain(f)
    \/ \E c \in Names : DeleteChain(c)
    \/ \E u \in Users, c \in Names, n \in Nodes \cup {NoNode} : SetPin(u, c, n)
    \/ \E j \in Jobs :
          \/ \E c \in Names : StartApply(j, c)
          \/ PreflightFails(j) \/ SaveKeys(j) \/ RenderHop(j) \/ InstallHop(j) \/ PushHop(j)
          \/ \E n \in Nodes : StartNodeApply(j, n)
          \/ RenderNode(j) \/ InstallNode(j) \/ PushNode(j)

CascadeSpec == CascadeInit /\ [][CascadeNext]_cascadeVars

-----------------------------------------------------------------------------
(* Connections.                                                            *)

Hop(n, in) == [end |-> "hop", at |-> n, in |-> in]
Egress(n) == [end |-> "egress", at |-> n, in |-> <<>>]
Refused(n) == [end |-> "refused", at |-> n, in |-> <<>>]

\* The entries in the config of user u for chain c.
ClientEntries(c, u) ==
    IF pins[u][c.name] \in ToSet(c.levels[1]) THEN {pins[u][c.name]}
    ELSE IF IsAWG(c) THEN {c.levels[1][1]}
    ELSE ToSet(c.levels[1])

Enter(c, n) ==
    IF c.proto = "awg"
    THEN IF running[n].awg0 = c.name /\ \E r \in ToSet(running[n].rules) : r.in = TunIn THEN Hop(n, TunIn) ELSE Refused(n)
    ELSE IF \E i \in running[n].ins : i.tag = UserIn(c) THEN Hop(n, UserIn(c)) ELSE Refused(n)

\* The next hop answers to the credential of one of its transport inbounds.
Dial(o, n) ==
    IF o.tag = Direct THEN Egress(n)
    ELSE LET ins == {i \in running[o.to].ins : i.tag[1] = "transport-in" /\ i.cred = o.cred}
         IN  IF ins = {} THEN Refused(o.to) ELSE Hop(o.to, (CHOOSE i \in ins : TRUE).tag)

Forward(p, u, c, kept) ==
    IF p.end # "hop" THEN {p}
    ELSE {Dial(o, p.at) : o \in Targets(running[p.at], Routed(running[p.at], p.in, u, c, kept))}

\* Where connections of user u of chain c end; one that is still on its way
\* after as many hops as there are nodes is in a loop.
Ends(c, u, kept) ==
    LET after[k \in 0..Cardinality(Nodes)] ==
            IF k = 0 THEN {Enter(c, n) : n \in ClientEntries(c, u)}
            ELSE UNION {Forward(p, u, c, kept) : p \in after[k - 1]}
    IN  after[Cardinality(Nodes)]

EgressAt(c, u, kept) == {e.at : e \in {x \in Ends(c, u, kept) : x.end = "egress"}}

Served(c, u, kept) == \A e \in Ends(c, u, kept) : e.end = "egress"

\* Node n runs the minimal config: a deploy is under way or has failed.
Bare(n) == running[n].ins = {} /\ running[n].rules = <<>>

GoodChains == {c \in ToSet(chains) : c.name \in good /\ \A n \in ChainNodes(c) : ~Bare(n)}

-----------------------------------------------------------------------------
(* Properties.                                                             *)

\* Without AB_ROUTE_DNS a node has no rules of its own for a chain: chain c
\* gets through where nothing else decides the first outbound or the final.
DefaultModeServes(c) ==
    /\ \A n \in ChainNodes(c) :
          /\ \A i \in running[n].ins : i.tag \in {UserIn(c), TransportIn(c)}
          /\ n \in AWGNodes => c.proto = "awg" /\ IsEntry(c, n)
    /\ c.transport = "awg" => c.proto = "awg" /\ Len(c.levels) <= 2

\* Once ApplyChain has reported success, every connection of every user of
\* the chain gets through to the internet, none is refused by the next hop
\* or sent in circles, and users without a pin leave from the last level,
\* from each node of it unless it is also the level of an AWG entry, of which
\* a client has one: whatever is then edited, or deployed one deploy at a
\* time, on the other chains that share its nodes, while it is applied
\* again, and however far the source addresses of AWG users get.  The service
\* stops while a node has the minimal config of the installation, and any
\* later deploy of that node brings it back.
Delivered ==
    \A c \in GoodChains : routeDNS \/ DefaultModeServes(c) =>
        \A u \in Users, kept \in Survivals :
            /\ Served(c, u, kept)
            /\ pins[u][c.name] = NoNode =>
                  /\ EgressAt(c, u, kept) \subseteq LastLevel(c)
                  /\ routeDNS /\ (IsAWG(c) => Len(c.levels) > 1) => EgressAt(c, u, kept) = LastLevel(c)

\* A pin of a user of a kernel AWG chain with one node per level decides where
\* the user leaves exactly as far as the source address is kept: at the node
\* of the pin, on whichever level it is, if the address is still there on the
\* inbound of that node, and otherwise on the last level, like everybody
\* without a pin, and at no third place.  merged_config.go claims the former
\* for every pin.
PinHonoured ==
    \A c \in GoodChains : routeDNS /\ c.proto = "awg" /\ (\A l \in DOMAIN c.levels : Len(c.levels[l]) = 1) =>
        \A u \in Users, kept \in Survivals :
            LET pin == pins[u][c.name]
            IN  pin \in ChainNodes(c) =>
                    EgressAt(c, u, kept) = IF PinInbound(c, pin)[1] \in kept THEN {pin} ELSE LastLevel(c)
=============================================================================
