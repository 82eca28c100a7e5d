------------------------- MODULE Relocation_proofs -------------------------
(***************************************************************************)
(* Relocations for every fleet, pool of spares, set of chains and number   *)
(* of outages, failed deploys and actions of the operator.  What is said   *)
(* of the pool of spares holds for any number of relocations at once; what *)
(* is said of the chains is about the behaviours in which one relocation   *)
(* runs at a time.                                                         *)
(***************************************************************************)
EXTENDS Relocation, FiniteSetTheorems, TLAPS

-----------------------------------------------------------------------------
(* The inductive invariant: addresses *)

JobFields   == {"pc", "node", "spare", "to", "info", "copy", "todo", "c", "i", "ok"}
ChainFields == {"nodes", "levels"}

\* Where a relocation is: before and while it works on the chains, and after it.
Early    == {"host", "info", "saveInfo", "list"}
Listed   == {"snap", "resolve", "apply", "deploy"}
Ending   == {"consume", "consumeHost", "stamp", "saveStamp"}

Shapes ==
    /\ hosts \in [Ids -> VPS \cup {NoOne}]
    /\ infos \in [Ids -> InfoRecords \cup {NoOne}]
    /\ DOMAIN job = Jobs
    /\ \A j \in Jobs : DOMAIN job[j] = JobFields

\* What a behaviour may grant: one relocation runs at a time, and the address an
\* operator gives is that of no known host.  The code demands neither of them.
OneAtATime  == \A i, j \in Jobs : ~Idle(i) /\ ~Idle(j) => i = j
FreshTarget == job[Operator].pc = "host" => \A i \in Ids : hosts[i] # job[Operator].to

JobPlaced(j) ==
    /\ job[j].pc \in Early \cup Listed \cup Ending
    /\ job[j].node \in Nodes /\ job[j].to \in VPS
    /\ \/ j = Operator /\ job[j].spare = NoOne /\ job[j].pc \notin Ending
       \/ j = job[j].node /\ job[j].spare \in Spares /\ job[j].to = job[j].spare

NodesKnown == \A n \in Nodes : hosts[n] \in VPS /\ infos[n] \in InfoRecords

\* A spare of the pool is at its address.
SparesAtHome ==
    \A s \in Spares : /\ hosts[s] \in {s, NoOne}
                      /\ infos[s] # NoOne => infos[s].addr = s /\ hosts[s] = s

\* Nodes have different addresses, and that of a spare in the pool only while the
\* relocation to it is under way.
Apart == \A m, n \in Nodes : m # n => hosts[m] # hosts[n]

UsesSpare(j, n, s) ==
    job[j].node = n /\ job[j].spare = s /\ job[j].pc \in (Early \ {"host"}) \cup Listed \cup {"consume"}

PoolFree ==
    \A n \in Nodes, s \in Spares :
        hosts[n] = s /\ infos[s] # NoOne => \E j \in Jobs : UsesSpare(j, n, s)

\* The target is free until the node moves there, and the spare stays where it is
\* until its host is deleted.
TargetReserved(j) ==
    /\ job[j].pc = "host" => \A i \in Ids : i # job[j].spare => hosts[i] # job[j].to
    /\ job[j].pc # "host" => hosts[job[j].node] = job[j].to
    /\ job[j].spare # NoOne /\ job[j].pc \notin {"stamp", "saveStamp"} => hosts[job[j].spare] = job[j].spare
    /\ job[j].spare # NoOne /\ job[j].pc \notin {"consumeHost", "stamp", "saveStamp"} => infos[job[j].spare] # NoOne

\* The record that will be saved was there when it was read.
CopiesKnown == \A j \in Jobs : job[j].pc \in {"saveInfo", "saveStamp"} => job[j].info \in InfoRecords

AInv ==
    /\ Shapes /\ OneAtATime /\ NodesKnown /\ SparesAtHome /\ Apart /\ PoolFree /\ CopiesKnown
    /\ beside = {}
    /\ \A j \in Jobs : ~Idle(j) => JobPlaced(j) /\ TargetReserved(j)

-----------------------------------------------------------------------------
(* The inductive invariant: chains *)

Mem(c) == ToSet(Members[c])

IsChain(c, ch) ==
    /\ DOMAIN ch = ChainFields
    /\ ch.nodes = [m \in DOMAIN ch.nodes |-> ch.nodes[m]]
    /\ DOMAIN ch.nodes \subseteq Ids /\ DOMAIN ch.nodes \cap Nodes = Mem(c)

ChainShapes ==
    /\ DOMAIN chains = Chains /\ \A c \in Chains : IsChain(c, chains[c])
    /\ DOMAIN applied = Chains
    /\ DOMAIN vps = VPS /\ \A v \in VPS : DOMAIN vps[v] = {"up", "runs", "id", "peers"}

\* The copies of a relocation: of every chain of the node, with no member that the
\* chain in the store has not.
CopiesPlaced(j) ==
    /\ DOMAIN job[j].copy =
          IF job[j].pc \in Listed \cup Ending THEN {c \in Chains : job[j].node \in Mem(c)} ELSE {}
    /\ \A c \in DOMAIN job[j].copy :
          IsChain(c, job[j].copy[c]) /\ DOMAIN job[j].copy[c].nodes \subseteq InChain(c)
    /\ job[j].pc \in Listed => job[j].todo \subseteq DOMAIN job[j].copy
    /\ job[j].pc \in {"apply", "deploy"} => job[j].c \in DOMAIN job[j].copy \ job[j].todo

Located(f) == \A m \in DOMAIN f : f[m] = hosts[m] /\ f[m] # NoOne

\* The relocation has still to apply the chain.
TodoOf(j, c) ==
    /\ job[j].node \in Mem(c)
    /\ \/ job[j].pc \in {"info", "saveInfo", "list", "snap"}
       \/ job[j].pc \in {"resolve", "apply", "deploy"} /\ c \in job[j].todo
       \/ job[j].pc \in {"apply", "deploy"} /\ c = job[j].c

Current(c) == applied[c] = "ok" /\ \A j \in Jobs : ~TodoOf(j, c)

\* The store has the addresses of the members of a current chain.
StoreCurrent ==
    \A c \in Chains : Current(c) =>
        /\ Located(chains[c].nodes)
        /\ \A j \in Jobs : c \in DOMAIN job[j].copy => DOMAIN job[j].copy[c].nodes = InChain(c)

\* A picked spare that joined another chain: that chain waits for its apply.
SpareEdited ==
    \A j \in Jobs, c \in Chains :
        ~Idle(j) /\ job[j].pc \notin {"stamp", "saveStamp"}
          /\ job[j].spare \in InChain(c) /\ job[j].node \notin Mem(c) => applied[c] # "ok"

\* A relocation that deploys a chain with its own spare in it.
Tainted(j) == \E e \in DOMAIN job[j].copy : job[j].spare \in DOMAIN job[j].copy[e].nodes

Consuming(j, s) == job[j].pc = "consumeHost" /\ job[j].spare = s

Burnt(s) == infos[s] = NoOne /\ hosts[s] # NoOne /\ \A j \in Jobs : ~Consuming(j, s)

BurntIn(S) == \E m \in S, s \in Spares : Burnt(s) /\ hosts[m] = hosts[s]

Excused(c) ==
    \/ BurntIn(InChain(c))
    \/ \E j \in Jobs : /\ job[j].pc \in Listed \cup {"consume", "consumeHost"}
                       /\ Tainted(j) /\ job[j].node \in Mem(c)

\* Some chain with this member failed, or is failing, and stays with it.
Failing(d) == \E j \in Jobs : job[j].pc = "deploy" /\ job[j].c = d /\ ~job[j].ok

Broken(m) ==
    \E d \in Chains :
        /\ m \in InChain(d) /\ \A j \in Jobs : d \in DOMAIN job[j].copy => m \in DOMAIN job[j].copy[d].nodes
        /\ applied[d] # "ok" \/ Failing(d)

RunsAt(m, v, c) == vps[v].id = m /\ vps[v].peers[c] = chains[c].nodes
BareAt(m, v)    == vps[v].id = NoOne /\ Broken(m)

\* A current chain is deployed.
Deployed ==
    \A c \in Chains : Current(c) /\ ~Excused(c) =>
        \A m \in InChain(c) : RunsAt(m, hosts[m], c) \/ BareAt(m, hosts[m])

\* The loop over the nodes: without a failure, what it passed is deployed.
Loop(j) ==
    LET t == job[j].copy[job[j].c].nodes IN
    /\ job[j].pc \in {"apply", "deploy"} => Located(t)
    /\ job[j].pc = "deploy" =>
          /\ job[j].i \in Nat \ {0}
          /\ job[j].ok => \A k \in DOMAIN Order(j) : k < job[j].i =>
                LET m == Order(j)[k] IN
                /\ vps[t[m]].id # NoOne
                /\ BurntIn(DOMAIN t) \/ Tainted(j) \/ (vps[t[m]].id = m /\ vps[t[m]].peers[job[j].c] = t)

BInv ==
    /\ ChainShapes /\ StoreCurrent /\ SpareEdited /\ Deployed
    /\ \A j \in Jobs : Idle(j) => DOMAIN job[j].copy = {}
    /\ \A j \in Jobs : ~Idle(j) => CopiesPlaced(j) /\ Loop(j)

-----------------------------------------------------------------------------
(* Orders *)

LEMMA OrderFacts ==
    ASSUME NEW S, IsFiniteSet(S)
    PROVE  /\ SetToSeq(S) \in [1..Cardinality(S) -> S] /\ Cardinality(S) \in Nat
           /\ \A x \in S : \E k \in 1..Cardinality(S) : SetToSeq(S)[k] = x
<1>1. Cardinality(S) \in Nat /\ \E f \in [1..Cardinality(S) -> S] : IsInjective(f)
  BY FS_CardinalityType DEF ExistsBijection, Bijection, Injection, IsInjective
<1>2. SetToSeq(S) \in [1..Cardinality(S) -> S] /\ IsInjective(SetToSeq(S))
  BY <1>1 DEF SetToSeq
<1>3. SetToSeq(S) \in Injection(1..Cardinality(S), S)
  BY <1>2 DEF Injection, IsInjective
<1>4. Cardinality(1..Cardinality(S)) = Cardinality(S)
  BY <1>1, FS_Interval
<1>5. SetToSeq(S) \in Surjection(1..Cardinality(S), S)
  BY <1>3, <1>4, FS_Injection
<1> QED BY <1>1, <1>2, <1>5 DEF Surjection

-----------------------------------------------------------------------------
(* What the steps do to the relocations *)

\* Relocation j changes the given locals.
Moves(j, changed) ==
    /\ DOMAIN job' = Jobs /\ DOMAIN job'[j] = JobFields
    /\ \A i \in Jobs : i # j => job'[i] = job[i]
    /\ \A f \in JobFields \ changed : job'[j][f] = job[j][f]

LEMMA MovesFields ==
    ASSUME NEW j, NEW changed, Moves(j, changed)
    PROVE  /\ "pc" \notin changed => job'[j].pc = job[j].pc
           /\ "node" \notin changed => job'[j].node = job[j].node
           /\ "spare" \notin changed => job'[j].spare = job[j].spare
           /\ "to" \notin changed => job'[j].to = job[j].to
           /\ "info" \notin changed => job'[j].info = job[j].info
           /\ "copy" \notin changed => job'[j].copy = job[j].copy
           /\ "todo" \notin changed => job'[j].todo = job[j].todo
           /\ "c" \notin changed => job'[j].c = job[j].c
           /\ "i" \notin changed => job'[j].i = job[j].i
           /\ "ok" \notin changed => job'[j].ok = job[j].ok
BY DEF Moves, JobFields

\* The whole of the job is new.
Replaces(j, new) ==
    /\ DOMAIN job' = Jobs /\ job'[j] = new
    /\ \A i \in Jobs : i # j => job'[i] = job[i]

LEMMA NoJobFacts ==
    DOMAIN NoJob = JobFields /\ NoJob.pc = "none" /\ NoJob.copy = << >>
BY DEF NoJob, NewJob, JobFields

LEMMA NewJobFacts ==
    ASSUME NEW n, NEW s, NEW to
    PROVE  LET x == NewJob(n, s, to)
           IN  /\ DOMAIN x = JobFields /\ x.pc = "host" /\ x.node = n /\ x.spare = s
               /\ x.to = to /\ x.copy = << >>
BY DEF NewJob, JobFields

LEMMA SaveHostFacts ==
    ASSUME Shapes, NEW j \in Jobs, SaveHost(j)
    PROVE  /\ Moves(j, {"pc"}) /\ job[j].pc = "host" /\ job'[j].pc = "info"
           /\ hosts' = [hosts EXCEPT ![job[j].node] = job[j].to]
           /\ UNCHANGED << infos, chains, vps, applied, beside >>
BY DEF Shapes, SaveHost, Goto, Moves, JobFields

LEMMA ReadInfoFacts ==
    ASSUME Shapes, NEW j \in Jobs, ReadInfo(j)
    PROVE  /\ Moves(j, {"pc", "info"}) /\ job[j].pc = "info" /\ job'[j].pc = "saveInfo"
           /\ job'[j].info = infos[job[j].node]
           /\ UNCHANGED << hosts, infos, chains, vps, applied, beside >>
BY DEF Shapes, ReadInfo, Moves, JobFields, store

LEMMA SaveInfoFacts ==
    ASSUME Shapes, NEW j \in Jobs, SaveInfo(j)
    PROVE  /\ Moves(j, {"pc", "info"}) /\ job[j].pc = "saveInfo" /\ job'[j].pc = "list"
           /\ infos' = IF job[j].info = NoOne THEN infos
                       ELSE [infos EXCEPT ![job[j].node] = [job[j].info EXCEPT !.addr = job[j].to]]
           /\ UNCHANGED << hosts, chains, vps, applied, beside >>
BY DEF Shapes, SaveInfo, Moves, JobFields

LEMMA ListChainsFacts ==
    ASSUME Shapes, NEW j \in Jobs, ListChains(j)
    PROVE  /\ Moves(j, {"pc", "copy", "todo"}) /\ job[j].pc = "list" /\ job'[j].pc = "snap"
           /\ job'[j].copy = [c \in GetChainsForNode(job[j].node) |->
                                 WithAddr(c, chains[c], job[j].node, job[j].to)]
           /\ job'[j].todo = GetChainsForNode(job[j].node)
           /\ UNCHANGED << hosts, infos, chains, vps, applied, beside >>
BY DEF Shapes, ListChains, Moves, JobFields, store

LEMMA SaveSnapshotFacts ==
    ASSUME Shapes, NEW j \in Jobs, SaveSnapshot(j)
    PROVE  /\ Moves(j, {"pc", "todo"}) /\ job[j].pc = "snap" 
           /\ UNCHANGED << hosts, infos, vps, applied, beside >>
           /\ \/ /\ job[j].todo = {} /\ job'[j].pc = "resolve" /\ job'[j].todo = DOMAIN job[j].copy
                 /\ UNCHANGED chains
              \/ \E c \in job[j].todo :
                   /\ SaveChain(c, job[j].copy[c])
                   /\ job'[j].pc = "snap" /\ job'[j].todo = job[j].todo \ {c}
<1>1. CASE job[j].todo = {}
  BY <1>1 DEF Shapes, SaveSnapshot, Moves, JobFields
<1>2. CASE job[j].todo # {}
  <2> DEFINE c == CHOOSE c \in job[j].todo : TRUE
  <2>1. c \in job[j].todo
    BY <1>2
  <2>2. /\ SaveChain(c, job[j].copy[c]) /\ job' = [job EXCEPT ![j].todo = @ \ {c}]
        /\ job[j].pc = "snap" /\ UNCHANGED << hosts, infos, vps, applied, beside >>
    BY <1>2 DEF SaveSnapshot
  <2> HIDE DEF c
  <2> QED BY <2>1, <2>2 DEF Shapes, Moves, JobFields
<1> QED BY <1>1, <1>2

LEMMA ResolveFacts ==
    ASSUME Shapes, NEW j \in Jobs, Resolve(j)
    PROVE  \E c \in job[j].todo :
           /\ Moves(j, {"pc", "c", "copy", "todo"}) /\ job[j].pc = "resolve"
           /\ job'[j].todo = job[j].todo \ {c}
           /\ UNCHANGED << hosts, infos, chains, vps, beside >>
           /\ \/ /\ \A m \in DOMAIN AllNodes(c, job[j].copy[c]) : hosts[m] # NoOne
                 /\ job'[j].pc = "apply" /\ job'[j].c = c
                 /\ job'[j].copy = [job[j].copy EXCEPT ![c] = ResolvedCopy(c, job[j].copy[c])]
                 /\ UNCHANGED applied
              \/ /\ job'[j].pc = "resolve" /\ job'[j].copy = job[j].copy
                 /\ applied' = [applied EXCEPT ![c] = "failed"]
<1> DEFINE c == CHOOSE c \in job[j].todo : TRUE
           ch == job[j].copy[c]
           good == \A m \in DOMAIN AllNodes(c, ch) : hosts[m] # NoOne
<1>1. c \in job[j].todo /\ job[j].pc = "resolve" /\ UNCHANGED << hosts, infos, chains, vps, beside >>
  BY DEF Resolve, store
<1>2. CASE good
  <2>1. /\ job' = [job EXCEPT ![j].c = c, ![j].copy[c] = ResolvedCopy(c, ch), ![j].todo = @ \ {c}, ![j].pc = "apply"]
        /\ UNCHANGED applied
    BY <1>2 DEF Resolve
  <2> HIDE DEF c
  <2>2. /\ Moves(j, {"pc", "c", "copy", "todo"}) /\ job'[j].todo = job[j].todo \ {c}
        /\ job'[j].pc = "apply" /\ job'[j].c = c
        /\ job'[j].copy = [job[j].copy EXCEPT ![c] = ResolvedCopy(c, ch)]
    BY <2>1 DEF Shapes, Moves, JobFields
  <2> QED BY <1>1, <1>2, <2>1, <2>2
<1>3. CASE ~good
  <2>1. /\ job' = [job EXCEPT ![j].todo = @ \ {c}] /\ applied' = [applied EXCEPT ![c] = "failed"]
    BY <1>3 DEF Resolve
  <2> HIDE DEF c, good
  <2>2. /\ Moves(j, {"pc", "c", "copy", "todo"}) /\ job'[j].todo = job[j].todo \ {c}
        /\ job'[j].pc = "resolve" /\ job'[j].copy = job[j].copy
    BY <1>1, <2>1 DEF Shapes, Moves, JobFields
  <2> QED BY <1>1, <2>1, <2>2
<1> QED BY <1>2, <1>3

LEMMA PreflightFacts ==
    ASSUME Shapes, NEW j \in Jobs, Preflight(j)
    PROVE  LET c == job[j].c
               ch == [job[j].copy[c] EXCEPT !.nodes = Targets(j)] IN
           /\ Moves(j, {"pc", "c", "copy", "i", "ok"}) /\ job[j].pc = "apply"
           /\ UNCHANGED << hosts, infos, vps, beside >>
           /\ \/ /\ SaveChain(c, ch) /\ job'[j].copy = [job[j].copy EXCEPT ![c] = ch]
                 /\ job'[j].c = c /\ job'[j].i = 1 /\ job'[j].ok /\ job'[j].pc = "deploy"
                 /\ UNCHANGED applied
              \/ /\ job'[j].pc = "resolve" /\ job'[j].copy = job[j].copy
                 /\ applied' = [applied EXCEPT ![c] = "failed"] /\ UNCHANGED chains
<1> DEFINE c == job[j].c
           t == Targets(j)
           ch == [job[j].copy[c] EXCEPT !.nodes = t]
           good == \A m \in DOMAIN t : vps[t[m]].up
<1>1. job[j].pc = "apply" /\ UNCHANGED << hosts, infos, vps, beside >>
  BY DEF Preflight
<1>2. CASE good
  <2>1. /\ SaveChain(c, ch) /\ UNCHANGED applied
        /\ job' = [job EXCEPT ![j].copy[c] = ch, ![j].i = 1, ![j].ok = TRUE, ![j].pc = "deploy"]
    BY <1>2 DEF Preflight
  <2> HIDE DEF t, ch
  <2>2. /\ Moves(j, {"pc", "c", "copy", "i", "ok"}) /\ job'[j].copy = [job[j].copy EXCEPT ![c] = ch]
        /\ job'[j].c = c /\ job'[j].i = 1 /\ job'[j].ok /\ job'[j].pc = "deploy"
    BY <2>1 DEF Shapes, Moves, JobFields
  <2> QED BY <1>1, <2>1, <2>2 DEF ch, t
<1>3. CASE ~good
  <2>1. /\ UNCHANGED chains /\ applied' = [applied EXCEPT ![c] = "failed"]
        /\ job' = [job EXCEPT ![j].c = NoOne, ![j].pc = "resolve"]
    BY <1>3 DEF Preflight
  <2>2. Moves(j, {"pc", "c", "copy", "i", "ok"}) /\ job'[j].pc = "resolve" /\ job'[j].copy = job[j].copy
    BY <2>1 DEF Shapes, Moves, JobFields
  <2> QED BY <1>1, <2>1, <2>2
<1> QED BY <1>2, <1>3

LEMMA DeployNodeFacts ==
    ASSUME Shapes, NEW j \in Jobs, DeployNode(j)
    PROVE  LET m == Order(j)[job[j].i]
               v == Targets(j)[m] IN
           /\ Moves(j, {"i", "ok"}) /\ job[j].pc = "deploy" /\ job[j].i <= Len(Order(j))
           /\ job'[j].i = job[j].i + 1
           /\ UNCHANGED << hosts, infos, chains, applied, beside >>
           /\ \/ /\ vps' = [vps EXCEPT ![v] = RunningConfig(m, Rendered(j, m))]
                 /\ job'[j].ok = job[j].ok
              \/ /\ UNCHANGED vps \/ vps' = [vps EXCEPT ![v] = MinimalConfig]
                 /\ job'[j].ok = FALSE
<1> DEFINE m == Order(j)[job[j].i]
           v == Targets(j)[m]
<1>1. /\ job[j].pc = "deploy" /\ job[j].i <= Len(Order(j))
      /\ UNCHANGED << hosts, infos, chains, applied, beside >>
  BY DEF DeployNode, store
<1>2. \/ /\ vps' = [vps EXCEPT ![v] = RunningConfig(m, Rendered(j, m))]
         /\ job' = [job EXCEPT ![j].i = @ + 1]
      \/ /\ UNCHANGED vps \/ vps' = [vps EXCEPT ![v] = MinimalConfig]
         /\ job' = [job EXCEPT ![j].i = @ + 1, ![j].ok = FALSE]
  BY Zenon DEF DeployNode, NodeFailed
<1> HIDE DEF m, v
<1>3. /\ Moves(j, {"i", "ok"}) /\ job'[j].i = job[j].i + 1
      /\ \/ /\ vps' = [vps EXCEPT ![v] = RunningConfig(m, Rendered(j, m))]
            /\ job'[j].ok = job[j].ok
         \/ /\ UNCHANGED vps \/ vps' = [vps EXCEPT ![v] = MinimalConfig]
            /\ job'[j].ok = FALSE
  <2>1. CASE job' = [job EXCEPT ![j].i = @ + 1]
    BY <1>2, <2>1 DEF Shapes, Moves, JobFields
  <2>2. CASE job' = [job EXCEPT ![j].i = @ + 1, ![j].ok = FALSE]
    BY <1>2, <2>2 DEF Shapes, Moves, JobFields
  <2> QED BY <1>2, <2>1, <2>2
<1> QED BY <1>1, <1>3 DEF m, v

LEMMA ChainDoneFacts ==
    ASSUME Shapes, NEW j \in Jobs, ChainDone(j)
    PROVE  LET c == job[j].c IN
           /\ Moves(j, {"pc", "c"}) /\ job[j].pc = "deploy" /\ job[j].i > Len(Order(j))
           /\ job'[j].pc = "resolve"
           /\ UNCHANGED << hosts, infos, vps, beside >>
           /\ \/ /\ job[j].ok /\ SaveChain(c, job[j].copy[c])
                 /\ beside = {} => applied' = [applied EXCEPT ![c] = "ok"]
              \/ /\ ~job[j].ok /\ UNCHANGED chains
                 /\ applied' = [applied EXCEPT ![c] = "failed"]
<1>1. /\ job[j].pc = "deploy" /\ job[j].i > Len(Order(j))
      /\ job' = [job EXCEPT ![j].c = NoOne, ![j].pc = "resolve"]
      /\ UNCHANGED << hosts, infos, vps, beside >>
  BY DEF ChainDone
<1>2. Moves(j, {"pc", "c"}) /\ job'[j].pc = "resolve"
  BY <1>1 DEF Shapes, Moves, JobFields
<1>3. CASE job[j].ok
  BY <1>1, <1>2, <1>3 DEF ChainDone
<1>4. CASE ~job[j].ok
  BY <1>1, <1>2, <1>4 DEF ChainDone
<1> QED BY <1>3, <1>4

LEMMA FinishFacts ==
    ASSUME Shapes, NEW j \in Jobs, Finish(j)
    PROVE  /\ job[j].pc = "resolve" /\ job[j].todo = {}
           /\ UNCHANGED << hosts, infos, chains, vps, applied >> /\ beside' \subseteq beside
           /\ \/ j = Operator /\ Replaces(j, NoJob)
              \/ j # Operator /\ Moves(j, {"pc"}) /\ job'[j].pc = "consume"
<1>1. /\ job[j].pc = "resolve" /\ job[j].todo = {} /\ UNCHANGED << hosts, infos, chains, vps, applied >>
      /\ beside' \subseteq beside
  BY DEF Finish, store
<1>2. CASE j = Operator
  BY <1>1, <1>2 DEF Finish, Shapes, Replaces
<1>3. CASE j # Operator
  BY <1>1, <1>3 DEF Finish, Goto, Shapes, Moves, JobFields
<1> QED BY <1>2, <1>3

LEMMA ConsumeInfoFacts ==
    ASSUME Shapes, NEW j \in Jobs, ConsumeInfo(j)
    PROVE  /\ Moves(j, {"pc"}) /\ job[j].pc = "consume" /\ job'[j].pc = "consumeHost"
           /\ infos' = [infos EXCEPT ![job[j].spare] = NoOne]
           /\ UNCHANGED << hosts, chains, vps, applied, beside >>
BY DEF Shapes, ConsumeInfo, Goto, Moves, JobFields

LEMMA ConsumeHostFacts ==
    ASSUME Shapes, NEW j \in Jobs, ConsumeHost(j)
    PROVE  /\ Moves(j, {"pc"}) /\ job[j].pc = "consumeHost" /\ job'[j].pc = "stamp"
           /\ \/ /\ GetChainsForNode(job[j].spare) = {}
                 /\ hosts' = [hosts EXCEPT ![job[j].spare] = NoOne]
              \/ GetChainsForNode(job[j].spare) # {} /\ UNCHANGED hosts
           /\ UNCHANGED << infos, chains, vps, applied, beside >>
BY DEF Shapes, ConsumeHost, HostDeletable, Goto, Moves, JobFields

LEMMA StampReadFacts ==
    ASSUME Shapes, NEW j \in Jobs, StampRead(j)
    PROVE  /\ Moves(j, {"pc", "info"}) /\ job[j].pc = "stamp" /\ job'[j].pc = "saveStamp"
           /\ job'[j].info = infos[job[j].node]
           /\ UNCHANGED << hosts, infos, chains, vps, applied, beside >>
BY DEF Shapes, StampRead, Moves, JobFields, store

LEMMA StampSaveFacts ==
    ASSUME Shapes, NEW j \in Jobs, StampSave(j)
    PROVE  /\ Replaces(j, NoJob) /\ job[j].pc = "saveStamp"
           /\ infos' = IF job[j].info = NoOne THEN infos
                       ELSE [infos EXCEPT ![job[j].node] = [job[j].info EXCEPT !.stamp = "recent"]]
           /\ beside' \subseteq beside
           /\ UNCHANGED << hosts, chains, vps, applied >>
BY DEF Shapes, StampSave, Replaces

LEMMA EnterIncidentFacts ==
    ASSUME Shapes, NEW n \in Nodes, EnterIncident(n)
    PROVE  /\ UNCHANGED << hosts, infos, chains, vps, applied, hand >>
           /\ \/ UNCHANGED << job, beside >>
              \/ \E s \in Spares : /\ AutoRelocateDecision(n, s) /\ Idle(n) /\ Beside(n)
                                   /\ n \in Jobs /\ Replaces(n, NewJob(n, s, infos[s].addr))
<1>1. UNCHANGED << hosts, infos, chains, vps, applied, hand >>
  BY DEF EnterIncident, store
<1>2. ASSUME NEW s \in Spares, AutoRelocateDecision(n, s), Idle(n), Beside(n),
             job' = [job EXCEPT ![n] = NewJob(n, s, infos[s].addr)]
      PROVE  n \in Jobs /\ Replaces(n, NewJob(n, s, infos[s].addr))
  BY <1>2 DEF AutoRelocateDecision, Jobs, Shapes, Replaces
<1>3. \/ UNCHANGED << job, beside >>
      \/ \E s \in Spares : /\ AutoRelocateDecision(n, s) /\ Idle(n) /\ Beside(n)
                           /\ job' = [job EXCEPT ![n] = NewJob(n, s, infos[s].addr)]
  BY Zenon DEF EnterIncident
<1> QED BY <1>1, <1>2, <1>3

LEMMA RelocateByHandFacts ==
    ASSUME Shapes, NEW n \in Nodes, NEW v \in NewVPS, RelocateByHand(n, v)
    PROVE  /\ Operator \in Jobs /\ Idle(Operator) /\ Replaces(Operator, NewJob(n, NoOne, v))
           /\ Beside(Operator) /\ hand' = hand \cup {v}
           /\ UNCHANGED << hosts, infos, chains, vps, applied >>
BY DEF RelocateByHand, Shapes, Replaces, Jobs, store

\* A relocation that starts and has no other beside it is the only one.
LEMMA StartsAlone ==
    ASSUME Shapes, NEW j \in Jobs, NEW new, new.pc = "host", Replaces(j, new), Idle(j), Beside(j), OneAtATime'
    PROVE  Running = {} /\ UNCHANGED beside
<1>1. \A i \in Jobs : i # j => Idle(i)
  BY DEF Replaces, OneAtATime, Idle
<1>2. Running = {}
  BY <1>1 DEF Running
<1> QED BY <1>2 DEF Beside

-----------------------------------------------------------------------------
(* Addresses *)

LEMMA Names ==
    /\ Ids = Nodes \cup Spares /\ VPS = Ids \cup NewVPS /\ NoOne \notin VPS /\ NoOne \notin InfoRecords
    /\ Jobs = AutoNodes \cup {Operator} /\ AutoNodes \subseteq Nodes /\ Operator \notin Nodes
    /\ \A n \in Nodes : n \notin Spares
BY RelocationAssumption DEF Ids, VPS, Jobs

LEMMA InitAInv == Init => AInv
<1> SUFFICES ASSUME Init PROVE AInv
  OBVIOUS
<1>1. Shapes
  BY NoJobFacts DEF Init, Shapes, InfoRecords, VPS
<1>2. \A j \in Jobs : job[j].pc = "none" /\ Idle(j)
  BY NoJobFacts DEF Init, Idle
<1>3. \A i \in Ids : hosts[i] = i /\ infos[i] = [addr |-> i, spare |-> i \in Spares, stamp |-> "old"]
  BY DEF Init
<1>4. Apart /\ PoolFree
  BY <1>3, Names DEF Apart, PoolFree
<1>5. ASSUME NEW i \in Ids PROVE infos[i] \in InfoRecords /\ infos[i].addr = i
  <2> DEFINE r == [addr |-> i, spare |-> i \in Spares, stamp |-> "old"]
  <2> DEFINE b == i \in Spares
  <2>1. r = [addr |-> i, spare |-> b, stamp |-> "old"] /\ b \in BOOLEAN
    OBVIOUS
  <2>2. infos[i] = r
    BY <1>3
  <2> HIDE DEF r, b
  <2>3. i \in VPS /\ infos[i] = [addr |-> i, spare |-> b, stamp |-> "old"]
    BY <2>1, <2>2, Names
  <2>4. infos[i] \in InfoRecords
    BY <2>1, <2>3 DEF InfoRecords
  <2> QED BY <2>3, <2>4
<1>6. NodesKnown /\ SparesAtHome
  BY <1>3, <1>5, Names DEF NodesKnown, SparesAtHome
<1>7. CopiesKnown /\ beside = {}
  BY <1>2 DEF Init, CopiesKnown
<1> QED BY <1>1, <1>2, <1>4, <1>6, <1>7 DEF AInv, OneAtATime

\* Steps between the list of the chains and the end of RelocateNode.
Within == {"list", "consume"} \cup Listed

LEMMA WithinA ==
    ASSUME AInv, NEW j \in Jobs, Moves(j, {"pc", "copy", "todo", "c", "i", "ok"}),
           UNCHANGED << hosts, infos, beside >>,
           job[j].pc \in Within, job'[j].pc \in Within, job'[j].pc = "consume" => j # Operator
    PROVE  AInv'
<1> USE DEF Within, Early, Listed, Ending
<1>1. /\ job'[j].node = job[j].node /\ job'[j].spare = job[j].spare
      /\ job'[j].to = job[j].to /\ job'[j].info = job[j].info
  BY MovesFields
<1>2. DOMAIN job' = Jobs /\ DOMAIN job'[j] = JobFields /\ \A i \in Jobs : i # j => job'[i] = job[i]
  BY DEF Moves
<1>3. Shapes' /\ OneAtATime'
  BY <1>2 DEF AInv, Shapes, OneAtATime, Idle
<1>4. NodesKnown' /\ SparesAtHome' /\ Apart'
  BY DEF AInv, NodesKnown, SparesAtHome, Apart
<1>5. PoolFree'
  BY <1>1, <1>2 DEF AInv, PoolFree, UsesSpare
<1>6. CopiesKnown'
  BY <1>1, <1>2 DEF AInv, CopiesKnown
<1>7. ~Idle(j) /\ JobPlaced(j) /\ TargetReserved(j)
  BY DEF AInv, Idle
<1>8. JobPlaced(j)' /\ TargetReserved(j)'
  BY <1>1, <1>7 DEF JobPlaced, TargetReserved
<1>9. \A i \in Jobs : i # j => Idle(i)'
  BY <1>2, <1>7 DEF AInv, OneAtATime, Idle
<1> QED BY <1>3, <1>4, <1>5, <1>6, <1>8, <1>9 DEF AInv

LEMMA SameA ==
    ASSUME AInv, UNCHANGED << hosts, infos, beside, job >>
    PROVE  AInv'
BY DEF AInv, Shapes, OneAtATime, NodesKnown, SparesAtHome, Apart, PoolFree, CopiesKnown, UsesSpare,
       JobPlaced, TargetReserved, Idle

\* What the running relocation may take for granted.
LEMMA JobFacts ==
    ASSUME AInv, NEW j \in Jobs, ~Idle(j)
    PROVE  /\ job[j].node \in Nodes /\ job[j].to \in VPS /\ JobPlaced(j) /\ TargetReserved(j)
           /\ job[j].spare = NoOne \/ job[j].spare \in Spares
           /\ j # Operator => job[j].spare \in Spares /\ j = job[j].node /\ job[j].to = job[j].spare
           /\ \A i \in Jobs : i # j => Idle(i)
BY Names DEF AInv, JobPlaced, OneAtATime

LEMMA SaveHostA == ASSUME AInv, NEW j \in Jobs, SaveHost(j) PROVE AInv'
<1> USE DEF Early, Listed, Ending
<1>0. ~Idle(j) /\ Shapes
  BY DEF SaveHost, Idle, AInv
<1> DEFINE n == job[j].node
           s == job[j].spare
           a == job[j].to
<1>1. /\ n \in Nodes /\ a \in VPS /\ JobPlaced(j) /\ TargetReserved(j) /\ \A i \in Jobs : i # j => Idle(i)
      /\ s = NoOne \/ s \in Spares
  BY <1>0, JobFacts
<1>2. /\ job[j].pc = "host" /\ job'[j].pc = "info"
      /\ hosts' = [hosts EXCEPT ![n] = a] /\ UNCHANGED << infos, beside >>
      /\ DOMAIN job' = Jobs /\ DOMAIN job'[j] = JobFields /\ \A i \in Jobs : i # j => job'[i] = job[i]
      /\ job'[j].node = n /\ job'[j].spare = s /\ job'[j].to = a /\ job'[j].info = job[j].info
  BY <1>0, SaveHostFacts, MovesFields DEF Moves
<1>3. hosts'[n] = a /\ \A i \in Ids : i # n => hosts'[i] = hosts[i]
  BY <1>0, <1>1, <1>2, Names DEF Shapes
<1>4. Shapes'
  BY <1>0, <1>1, <1>2, Names DEF Shapes
<1>5. OneAtATime' /\ \A i \in Jobs : i # j => Idle(i)'
  BY <1>1, <1>2 DEF OneAtATime, Idle
<1>6. \A i \in Ids : i # s => hosts[i] # a
  BY <1>1, <1>2 DEF TargetReserved
<1>7. NodesKnown' /\ SparesAtHome'
  BY <1>1, <1>2, <1>3, Names DEF AInv, NodesKnown, SparesAtHome
<1>8. Apart'
  BY <1>1, <1>3, <1>6, Names DEF AInv, Apart
<1>9. PoolFree'
  <2> SUFFICES ASSUME NEW m \in Nodes, NEW t \in Spares, hosts'[m] = t, infos'[t] # NoOne
               PROVE  UsesSpare(j, m, t)'
    BY DEF PoolFree
  <2>1. hosts[t] = t /\ t \in Ids
    BY <1>2, Names DEF AInv, SparesAtHome
  <2>2. CASE m = n
    BY <1>2, <1>3, <1>6, <2>1, <2>2 DEF UsesSpare
  <2>3. CASE m # n
    <3>1. \E i \in Jobs : UsesSpare(i, m, t)
      BY <1>2, <1>3, <2>3, Names DEF AInv, PoolFree
    <3> QED BY <1>1, <1>2, <3>1 DEF UsesSpare, Idle
  <2> QED BY <2>2, <2>3
<1>10. CopiesKnown'
  BY <1>2 DEF AInv, CopiesKnown
<1>11. JobPlaced(j)' /\ TargetReserved(j)'
  BY <1>1, <1>2, <1>3, Names DEF JobPlaced, TargetReserved
<1> QED BY <1>2, <1>4, <1>5, <1>7, <1>8, <1>9, <1>10, <1>11 DEF AInv

LEMMA ReadInfoA ==
    ASSUME AInv, NEW j \in Jobs, ReadInfo(j) \/ StampRead(j)
    PROVE  AInv'
<1> USE DEF Early, Listed, Ending
<1>0. ~Idle(j) /\ Shapes
  BY DEF ReadInfo, StampRead, Idle, AInv
<1> DEFINE n == job[j].node
<1>1. n \in Nodes /\ JobPlaced(j) /\ TargetReserved(j) /\ \A i \in Jobs : i # j => Idle(i)
  BY <1>0, JobFacts
<1>2. /\ \/ job[j].pc = "info" /\ job'[j].pc = "saveInfo"
         \/ job[j].pc = "stamp" /\ job'[j].pc = "saveStamp"
      /\ job'[j].info = infos[n] /\ UNCHANGED << hosts, infos, beside >>
      /\ DOMAIN job' = Jobs /\ DOMAIN job'[j] = JobFields /\ \A i \in Jobs : i # j => job'[i] = job[i]
      /\ job'[j].node = n /\ job'[j].spare = job[j].spare /\ job'[j].to = job[j].to
  <2>1. CASE ReadInfo(j)
    BY <1>0, <2>1, ReadInfoFacts, MovesFields DEF Moves
  <2>2. CASE StampRead(j)
    BY <1>0, <2>2, StampReadFacts, MovesFields DEF Moves
  <2> QED BY <2>1, <2>2
<1>3. Shapes' /\ OneAtATime' /\ \A i \in Jobs : i # j => Idle(i)'
  BY <1>0, <1>1, <1>2 DEF Shapes, OneAtATime, Idle
<1>4. NodesKnown' /\ SparesAtHome' /\ Apart'
  BY <1>2 DEF AInv, NodesKnown, SparesAtHome, Apart
<1>5. PoolFree'
  BY <1>2 DEF AInv, PoolFree, UsesSpare
<1>6. CopiesKnown'
  BY <1>1, <1>2 DEF AInv, CopiesKnown, NodesKnown
<1>7. JobPlaced(j)' /\ TargetReserved(j)'
  BY <1>1, <1>2 DEF JobPlaced, TargetReserved
<1> QED BY <1>2, <1>3, <1>4, <1>5, <1>6, <1>7 DEF AInv

LEMMA SaveInfoA == ASSUME AInv, NEW j \in Jobs, SaveInfo(j) PROVE AInv'
<1> USE DEF Early, Listed, Ending
<1>0. ~Idle(j) /\ Shapes
  BY DEF SaveInfo, Idle, AInv
<1> DEFINE n == job[j].node
           new == [job[j].info EXCEPT !.addr = job[j].to]
<1>1. /\ n \in Nodes /\ job[j].to \in VPS /\ JobPlaced(j) /\ TargetReserved(j)
      /\ \A i \in Jobs : i # j => Idle(i)
  BY <1>0, JobFacts
<1>2. /\ job[j].pc = "saveInfo" /\ job'[j].pc = "list" /\ UNCHANGED << hosts, beside >>
      /\ infos' = IF job[j].info = NoOne THEN infos ELSE [infos EXCEPT ![n] = new]
      /\ DOMAIN job' = Jobs /\ DOMAIN job'[j] = JobFields /\ \A i \in Jobs : i # j => job'[i] = job[i]
      /\ job'[j].node = n /\ job'[j].spare = job[j].spare /\ job'[j].to = job[j].to
  BY <1>0, SaveInfoFacts, MovesFields DEF Moves
<1>3. job[j].info \in InfoRecords
  BY <1>2 DEF AInv, CopiesKnown
<1>4. new \in InfoRecords
  BY <1>1, <1>3 DEF InfoRecords
<1> HIDE DEF new
<1>5. infos' = [infos EXCEPT ![n] = new]
  BY <1>2, <1>3, Names
<1>6. infos'[n] = new /\ \A i \in Ids : i # n => infos'[i] = infos[i]
  BY <1>0, <1>1, <1>5, Names DEF Shapes
<1>7. Shapes' /\ OneAtATime' /\ \A i \in Jobs : i # j => Idle(i)'
  <2>1. infos' \in [Ids -> InfoRecords \cup {NoOne}]
    BY <1>0, <1>4, <1>5 DEF Shapes
  <2>2. \A i \in Jobs : DOMAIN job'[i] = JobFields
    BY <1>0, <1>2 DEF Shapes
  <2>3. Shapes'
    BY <1>0, <1>2, <2>1, <2>2 DEF Shapes
  <2>4. \A i \in Jobs : i # j => Idle(i)'
    BY <1>1, <1>2 DEF Idle
  <2> QED BY <2>3, <2>4 DEF OneAtATime
<1>8. NodesKnown' /\ SparesAtHome' /\ Apart'
  BY <1>1, <1>2, <1>4, <1>6, Names DEF AInv, NodesKnown, SparesAtHome, Apart
<1>9. PoolFree'
  BY <1>1, <1>2, <1>6, Names DEF AInv, PoolFree, UsesSpare
<1>10. CopiesKnown'
  BY <1>1, <1>2, <1>3, <1>4, <1>6, <1>7, Names DEF AInv, CopiesKnown, Idle
<1>11. JobPlaced(j)' /\ TargetReserved(j)'
  BY <1>1, <1>2, <1>6, Names DEF JobPlaced, TargetReserved
<1> QED BY <1>2, <1>7, <1>8, <1>9, <1>10, <1>11 DEF AInv

LEMMA FinishA == ASSUME AInv, NEW j \in Jobs, Finish(j) PROVE AInv'
<1> USE DEF Early, Listed, Ending
<1>0. ~Idle(j) /\ Shapes
  BY DEF Finish, Idle, AInv
<1>1. JobPlaced(j) /\ TargetReserved(j) /\ \A i \in Jobs : i # j => Idle(i)
  BY <1>0, JobFacts
<1>2. CASE j # Operator
  <2>1. Moves(j, {"pc"}) /\ job[j].pc = "resolve" /\ job'[j].pc = "consume" /\ UNCHANGED << hosts, infos, beside >>
    BY <1>0, <1>2, FinishFacts DEF AInv
  <2>2. Moves(j, {"pc", "copy", "todo", "c", "i", "ok"})
    BY <2>1 DEF Moves
  <2> QED BY <1>2, <2>1, <2>2, WithinA DEF Within
<1>3. CASE j = Operator
  <2>1. /\ job[j].pc = "resolve" /\ UNCHANGED << hosts, infos, beside >>
        /\ DOMAIN job' = Jobs /\ job'[j] = NoJob /\ \A i \in Jobs : i # j => job'[i] = job[i]
    BY <1>0, <1>3, FinishFacts DEF Replaces, AInv
  <2>2. \A i \in Jobs : Idle(i)' /\ job'[i].pc = "none" /\ DOMAIN job'[i] = JobFields
    BY <1>0, <1>1, <2>1, NoJobFacts DEF Idle, Shapes
  <2>3. Shapes' /\ OneAtATime' /\ NodesKnown' /\ SparesAtHome' /\ Apart'
    BY <2>1, <2>2 DEF AInv, Shapes, OneAtATime, NodesKnown, SparesAtHome, Apart
  <2>4. PoolFree'
    BY <1>1, <1>3, <2>1, Names DEF AInv, PoolFree, UsesSpare, JobPlaced, Idle
  <2>5. CopiesKnown'
    BY <2>1, <2>2 DEF AInv, CopiesKnown
  <2> QED BY <2>1, <2>2, <2>3, <2>4, <2>5 DEF AInv
<1> QED BY <1>2, <1>3

LEMMA ConsumeInfoA == ASSUME AInv, NEW j \in Jobs, ConsumeInfo(j) PROVE AInv'
<1> USE DEF Early, Listed, Ending
<1>0. ~Idle(j) /\ Shapes
  BY DEF ConsumeInfo, Idle, AInv
<1> DEFINE s == job[j].spare
<1>1. JobPlaced(j) /\ TargetReserved(j) /\ \A i \in Jobs : i # j => Idle(i)
  BY <1>0, JobFacts
<1>2. /\ job[j].pc = "consume" /\ job'[j].pc = "consumeHost" /\ UNCHANGED << hosts, beside >>
      /\ infos' = [infos EXCEPT ![s] = NoOne]
      /\ DOMAIN job' = Jobs /\ DOMAIN job'[j] = JobFields /\ \A i \in Jobs : i # j => job'[i] = job[i]
      /\ job'[j].node = job[j].node /\ job'[j].spare = s /\ job'[j].to = job[j].to
  BY <1>0, ConsumeInfoFacts, MovesFields DEF Moves
<1>3. s \in Spares /\ s \in Ids
  BY <1>1, <1>2, Names DEF JobPlaced
<1>4. infos'[s] = NoOne /\ \A i \in Ids : i # s => infos'[i] = infos[i]
  BY <1>0, <1>2, <1>3 DEF Shapes
<1>5. Shapes' /\ OneAtATime' /\ \A i \in Jobs : i # j => Idle(i)'
  BY <1>0, <1>1, <1>2 DEF Shapes, OneAtATime, Idle
<1>6. NodesKnown' /\ SparesAtHome' /\ Apart'
  BY <1>2, <1>3, <1>4, Names DEF AInv, NodesKnown, SparesAtHome, Apart
<1>7. PoolFree'
  BY <1>1, <1>2, <1>3, <1>4, Names DEF AInv, PoolFree, UsesSpare, Idle
<1>8. CopiesKnown'
  BY <1>1, <1>2, <1>3, <1>4, <1>5, Names DEF AInv, CopiesKnown, Idle
<1>9. JobPlaced(j)' /\ TargetReserved(j)'
  BY <1>1, <1>2, <1>4 DEF JobPlaced, TargetReserved
<1> QED BY <1>2, <1>5, <1>6, <1>7, <1>8, <1>9 DEF AInv

LEMMA ConsumeHostA == ASSUME AInv, NEW j \in Jobs, ConsumeHost(j) PROVE AInv'
<1> USE DEF Early, Listed, Ending
<1>0. ~Idle(j) /\ Shapes
  BY DEF ConsumeHost, Idle, AInv
<1> DEFINE s == job[j].spare
<1>1. JobPlaced(j) /\ TargetReserved(j) /\ job[j].node \in Nodes /\ \A i \in Jobs : i # j => Idle(i)
  BY <1>0, JobFacts
<1>2. /\ job[j].pc = "consumeHost" /\ job'[j].pc = "stamp" /\ UNCHANGED << infos, beside >>
      /\ hosts' = [hosts EXCEPT ![s] = NoOne] \/ UNCHANGED hosts
      /\ DOMAIN job' = Jobs /\ DOMAIN job'[j] = JobFields /\ \A i \in Jobs : i # j => job'[i] = job[i]
      /\ job'[j].node = job[j].node /\ job'[j].spare = s /\ job'[j].to = job[j].to
  BY <1>0, ConsumeHostFacts, MovesFields DEF Moves
<1>3. s \in Spares /\ s \in Ids
  BY <1>1, <1>2, Names DEF JobPlaced
<1>4. hosts'[s] \in {hosts[s], NoOne} /\ \A i \in Ids : i # s => hosts'[i] = hosts[i]
  BY <1>0, <1>2, <1>3 DEF Shapes
<1>5. Shapes' /\ OneAtATime' /\ \A i \in Jobs : i # j => Idle(i)'
  BY <1>0, <1>1, <1>2 DEF Shapes, OneAtATime, Idle
<1>6. NodesKnown' /\ Apart'
  BY <1>2, <1>3, <1>4, Names DEF AInv, NodesKnown, Apart
<1>7. infos[s] = NoOne
  BY <1>1, <1>2, <1>3, Names DEF AInv, Apart, PoolFree, UsesSpare, Idle, TargetReserved, JobPlaced
<1>8. SparesAtHome'
  BY <1>2, <1>3, <1>4, <1>7, Names DEF AInv, SparesAtHome
<1>9. PoolFree'
  BY <1>1, <1>2, <1>3, <1>4, Names DEF AInv, PoolFree, UsesSpare, Idle
<1>10. CopiesKnown'
  BY <1>1, <1>2, <1>5 DEF AInv, CopiesKnown, Idle
<1>11. JobPlaced(j)' /\ TargetReserved(j)'
  BY <1>1, <1>2, <1>3, <1>4, Names DEF JobPlaced, TargetReserved
<1> QED BY <1>2, <1>5, <1>6, <1>8, <1>9, <1>10, <1>11 DEF AInv

LEMMA StampSaveA == ASSUME AInv, NEW j \in Jobs, StampSave(j) PROVE AInv'
<1> USE DEF Early, Listed, Ending
<1>0. ~Idle(j) /\ Shapes
  BY DEF StampSave, Idle, AInv
<1> DEFINE n == job[j].node
           new == [job[j].info EXCEPT !.stamp = "recent"]
<1>1. n \in Nodes /\ JobPlaced(j) /\ TargetReserved(j) /\ \A i \in Jobs : i # j => Idle(i)
  BY <1>0, JobFacts
<1>2. /\ job[j].pc = "saveStamp" /\ UNCHANGED hosts
      /\ infos' = IF job[j].info = NoOne THEN infos ELSE [infos EXCEPT ![n] = new]
      /\ beside' \subseteq beside
      /\ DOMAIN job' = Jobs /\ job'[j] = NoJob /\ \A i \in Jobs : i # j => job'[i] = job[i]
  BY <1>0, StampSaveFacts DEF Replaces
<1>3. job[j].info \in InfoRecords
  BY <1>2 DEF AInv, CopiesKnown
<1>4. new \in InfoRecords /\ new.stamp = "recent"
  BY <1>3 DEF InfoRecords
<1> HIDE DEF new
<1>5. infos' = [infos EXCEPT ![n] = new]
  BY <1>2, <1>3, Names
<1>6. infos'[n] = new /\ \A i \in Ids : i # n => infos'[i] = infos[i]
  BY <1>0, <1>1, <1>5, Names DEF Shapes
<1>7. \A i \in Jobs : Idle(i)' /\ job'[i].pc = "none" /\ DOMAIN job'[i] = JobFields
  BY <1>0, <1>1, <1>2, NoJobFacts DEF Idle, Shapes
<1>8. Shapes' /\ OneAtATime'
  BY <1>0, <1>1, <1>2, <1>4, <1>5, <1>7 DEF Shapes, OneAtATime
<1>9. NodesKnown' /\ SparesAtHome' /\ Apart'
  BY <1>1, <1>2, <1>4, <1>6, Names DEF AInv, NodesKnown, SparesAtHome, Apart
<1>10. PoolFree'
  BY <1>1, <1>2, <1>6, Names DEF AInv, PoolFree, UsesSpare, Idle
<1>11. CopiesKnown' /\ beside' = {}
  BY <1>2, <1>7 DEF AInv, CopiesKnown
<1> QED BY <1>7, <1>8, <1>9, <1>10, <1>11 DEF AInv

LEMMA CoolDownA == ASSUME AInv, NEW n \in Nodes, CoolDown(n) PROVE AInv'
<1> DEFINE new == [infos[n] EXCEPT !.stamp = "old"]
<1>0. Shapes /\ infos[n] \in InfoRecords /\ n \in Ids
  BY Names DEF AInv, NodesKnown
<1>1. /\ UNCHANGED << hosts, job, beside >>
      /\ infos' = [infos EXCEPT ![n] = new]
  BY DEF CoolDown
<1>2. new \in InfoRecords
  BY <1>0 DEF InfoRecords
<1> HIDE DEF new
<1>3. infos'[n] \in InfoRecords /\ \A i \in Ids : i # n => infos'[i] = infos[i]
  BY <1>0, <1>1, <1>2 DEF Shapes
<1>5. Shapes' /\ OneAtATime'
  BY <1>0, <1>1, <1>2 DEF AInv, Shapes, OneAtATime, Idle
<1>6. NodesKnown' /\ SparesAtHome' /\ Apart'
  BY <1>1, <1>3, Names DEF AInv, NodesKnown, SparesAtHome, Apart
<1>7. PoolFree'
  <2>1. \A s \in Spares : infos'[s] = infos[s]
    BY <1>3, Names
  <2>2. PoolFree
    BY DEF AInv
  <2>3. \A i \in Jobs, m \in Nodes, s \in Spares : UsesSpare(i, m, s) => UsesSpare(i, m, s)'
    BY <1>1 DEF UsesSpare
  <2> QED BY <1>1, <2>1, <2>2, <2>3 DEF PoolFree
<1>8. CopiesKnown'
  BY <1>1 DEF AInv, CopiesKnown
<1>9. ASSUME NEW i \in Jobs, ~Idle(i)' PROVE JobPlaced(i)' /\ TargetReserved(i)'
  <2>1. JobPlaced(i) /\ TargetReserved(i)
    BY <1>1, <1>9 DEF AInv, Idle
  <2> QED BY <1>1, <1>3, <2>1, Names DEF JobPlaced, TargetReserved
<1> QED BY <1>1, <1>5, <1>6, <1>7, <1>8, <1>9 DEF AInv

LEMMA EnterIncidentA == ASSUME AInv, OneAtATime', NEW n \in Nodes, EnterIncident(n) PROVE AInv'
<1> USE DEF Early, Listed, Ending
<1>0. Shapes /\ UNCHANGED << hosts, infos >>
  BY EnterIncidentFacts DEF AInv
<1>2. CASE UNCHANGED << job, beside >>
  BY <1>0, <1>2, SameA
<1>3. ASSUME NEW s \in Spares, AutoRelocateDecision(n, s), Idle(n), Beside(n),
             n \in Jobs, Replaces(n, NewJob(n, s, infos[s].addr))
      PROVE  AInv'
  <2>0. Running = {} /\ beside' = {}
    BY <1>0, <1>3, NewJobFacts, StartsAlone DEF AInv
  <2>10. \A i \in Jobs : Idle(i) /\ job[i].pc = "none"
    BY <2>0 DEF Running, Idle
  <2>1. infos[s] # NoOne /\ infos[s].addr = s /\ hosts[s] = s /\ s \in Ids /\ s \in VPS
    BY <1>3, Names DEF AutoRelocateDecision, Pickable, AInv, SparesAtHome
  <2>2. /\ DOMAIN job' = Jobs /\ DOMAIN job'[n] = JobFields /\ \A i \in Jobs : i # n => job'[i] = job[i]
        /\ job'[n].pc = "host" /\ job'[n].node = n /\ job'[n].spare = s /\ job'[n].to = s
    BY <1>3, <2>1, NewJobFacts DEF Replaces
  <2>3. Shapes' /\ OneAtATime' /\ \A i \in Jobs : i # n => Idle(i)'
    BY <1>0, <2>10, <2>2 DEF Shapes, OneAtATime, Idle
  <2>4. NodesKnown' /\ SparesAtHome' /\ Apart'
    BY <1>0 DEF AInv, NodesKnown, SparesAtHome, Apart
  <2>5. \A m \in Nodes, t \in Spares : hosts[m] = t => infos[t] = NoOne
    BY <2>10 DEF AInv, PoolFree, UsesSpare
  <2>6. PoolFree'
    BY <1>0, <2>5 DEF PoolFree
  <2>7. CopiesKnown'
    BY <1>0, <2>10, <2>2 DEF AInv, CopiesKnown
  <2>8. \A i \in Ids : i # s => hosts[i] # s
    BY <2>1, <2>5, Names DEF AInv, SparesAtHome
  <2>9. JobPlaced(n)' /\ TargetReserved(n)'
    BY <1>0, <2>1, <2>2, <2>8 DEF JobPlaced, TargetReserved
  <2> QED BY <2>0, <2>3, <2>4, <2>6, <2>7, <2>9 DEF AInv
<1> QED BY <1>0, <1>2, <1>3, EnterIncidentFacts

LEMMA RelocateByHandA ==
    ASSUME AInv, OneAtATime', FreshTarget', NEW n \in Nodes, NEW v \in NewVPS, RelocateByHand(n, v)
    PROVE  AInv'
<1> USE DEF Early, Listed, Ending
<1>0. /\ Shapes /\ UNCHANGED << hosts, infos >> /\ Running = {} /\ beside' = {}
      /\ Operator \in Jobs /\ Replaces(Operator, NewJob(n, NoOne, v))
  BY RelocateByHandFacts, NewJobFacts, StartsAlone DEF AInv
<1>1. \A i \in Jobs : Idle(i) /\ job[i].pc = "none"
  BY <1>0 DEF Running, Idle
<1>2. /\ DOMAIN job' = Jobs /\ DOMAIN job'[Operator] = JobFields
      /\ \A i \in Jobs : i # Operator => job'[i] = job[i]
      /\ job'[Operator].pc = "host" /\ job'[Operator].node = n
      /\ job'[Operator].spare = NoOne /\ job'[Operator].to = v
  BY <1>0, NewJobFacts DEF Replaces
<1>9. \A i \in Ids : hosts[i] # v
  BY <1>0, <1>2 DEF FreshTarget
<1>3. Shapes' /\ OneAtATime' /\ \A i \in Jobs : i # Operator => Idle(i)'
  BY <1>0, <1>1, <1>2 DEF Shapes, OneAtATime, Idle
<1>4. NodesKnown' /\ SparesAtHome' /\ Apart'
  BY <1>0 DEF AInv, NodesKnown, SparesAtHome, Apart
<1>5. \A m \in Nodes, t \in Spares : hosts[m] = t => infos[t] = NoOne
  BY <1>1 DEF AInv, PoolFree, UsesSpare
<1>6. PoolFree'
  BY <1>0, <1>5 DEF PoolFree
<1>7. CopiesKnown'
  BY <1>0, <1>1, <1>2 DEF AInv, CopiesKnown
<1>8. JobPlaced(Operator)' /\ TargetReserved(Operator)'
  BY <1>0, <1>2, <1>9, Names DEF JobPlaced, TargetReserved
<1> QED BY <1>0, <1>3, <1>4, <1>6, <1>7, <1>8 DEF AInv

\* The steps on the chains do not touch what AInv is about.
LEMMA ChainStepA ==
    ASSUME AInv, NEW j \in Jobs,
           \/ ListChains(j) \/ SaveSnapshot(j) \/ Resolve(j) \/ Preflight(j)
           \/ DeployNode(j) \/ ChainDone(j)
    PROVE  AInv'
<1>0. Shapes /\ beside = {}
  BY DEF AInv
<1> DEFINE all == {"pc", "copy", "todo", "c", "i", "ok"}
<1> SUFFICES /\ Moves(j, all) /\ UNCHANGED << hosts, infos, beside >>
             /\ job[j].pc \in Within /\ job'[j].pc \in Within /\ job'[j].pc # "consume"
  BY WithinA
<1>1. CASE ListChains(j)
  BY <1>0, <1>1, ListChainsFacts DEF Moves, Within, Listed
<1>2. CASE SaveSnapshot(j)
  BY <1>0, <1>2, SaveSnapshotFacts DEF Moves, Within, Listed
<1>3. CASE Resolve(j)
  BY <1>0, <1>3, ResolveFacts DEF Moves, Within, Listed
<1>4. CASE Preflight(j)
  BY <1>0, <1>4, PreflightFacts DEF Moves, Within, Listed
<1>5. CASE DeployNode(j)
  <2>1. Moves(j, {"i", "ok"}) /\ job[j].pc = "deploy" /\ UNCHANGED << hosts, infos, beside >>
    BY <1>0, <1>5, DeployNodeFacts
  <2>2. job'[j].pc = "deploy"
    BY <2>1, MovesFields
  <2>3. Moves(j, all)
    BY <2>1 DEF Moves
  <2> QED BY <2>1, <2>2, <2>3 DEF Within, Listed
<1>6. CASE ChainDone(j)
  BY <1>0, <1>6, ChainDoneFacts DEF Moves, Within, Listed
<1> QED BY <1>1, <1>2, <1>3, <1>4, <1>5, <1>6

LEMMA JobStepMoves ==
    ASSUME Shapes, NEW j \in Jobs, JobStep(j)
    PROVE  (\E S : Moves(j, S)) \/ Replaces(j, NoJob)
<1>1. CASE SaveHost(j) \/ ReadInfo(j) \/ SaveInfo(j) \/ ListChains(j)
  BY <1>1, SaveHostFacts, ReadInfoFacts, SaveInfoFacts, ListChainsFacts
<1>2. CASE SaveSnapshot(j) \/ ConsumeInfo(j) \/ ConsumeHost(j) \/ StampRead(j)
  BY <1>2, SaveSnapshotFacts, ConsumeInfoFacts, ConsumeHostFacts, StampReadFacts
<1>3. CASE Resolve(j) \/ Preflight(j)
  BY <1>3, ResolveFacts, PreflightFacts
<1>4. CASE DeployNode(j) \/ ChainDone(j)
  BY <1>4, DeployNodeFacts, ChainDoneFacts
<1>5. CASE Finish(j) \/ StampSave(j)
  BY <1>5, FinishFacts, StampSaveFacts
<1> QED BY <1>1, <1>2, <1>3, <1>4, <1>5 DEF JobStep

LEMMA NextA == ASSUME AInv, OneAtATime', FreshTarget', [Next]_vars PROVE AInv'
<1>1. ASSUME NEW n \in Nodes, EnterIncident(n) PROVE AInv'
  BY <1>1, EnterIncidentA
<1>2. ASSUME NEW n \in Nodes, Recover(n) PROVE AInv'
  BY <1>2, SameA DEF Recover, store
<1>3. ASSUME NEW n \in Nodes, CoolDown(n) PROVE AInv'
  BY <1>3, CoolDownA
<1>4. ASSUME NEW n \in Nodes, NEW v \in NewVPS, RelocateByHand(n, v) PROVE AInv'
  BY <1>4, RelocateByHandA
<1>5. ASSUME NEW j \in Jobs, JobStep(j) PROVE AInv'
  BY <1>5, SaveHostA, ReadInfoA, SaveInfoA, ChainStepA, FinishA, ConsumeInfoA, ConsumeHostA, StampSaveA
     DEF JobStep
<1>6. ASSUME NEW v \in VPS, Outage(v) PROVE AInv'
  BY <1>6, SameA DEF Outage, store
<1>7. ASSUME NEW s \in Spares, NEW c \in Chains, AddToChain(s, c) PROVE AInv'
  BY <1>7, SameA DEF AddToChain
<1>8. CASE UNCHANGED vars
  BY <1>8, SameA DEF vars
<1> QED BY <1>1, <1>2, <1>3, <1>4, <1>5, <1>6, <1>7, <1>8 DEF Next

\* AInv holds at every step of a behaviour with one relocation at a time and
\* fresh targets.
LEMMA AddressInvariant == Spec /\ []OneAtATime /\ []FreshTarget => []AInv
<1>1. AInv /\ OneAtATime' /\ FreshTarget' /\ [Next]_vars => AInv'
  BY NextA
<1> QED BY <1>1, InitAInv, PTL DEF Spec

-----------------------------------------------------------------------------
(* The pool of spares, with any number of relocations at once *)

\* While a relocation has these steps ahead, its spare is still in the pool.
BeforeConsume == (Early \ {"host"}) \cup Listed \cup {"consume"}

\* An operator's relocation goes to an address he gave, an automatic one to its spare.
Aimed(j) ==
    /\ job[j].node \in Nodes /\ job[j].to \in VPS
    /\ \/ j = Operator /\ job[j].spare = NoOne /\ job[j].to \in hand /\ job[j].pc \notin Ending
       \/ j = job[j].node /\ job[j].spare \in Spares /\ job[j].to = job[j].spare

\* A node has the address of a spare of the pool only if its relocation to it has
\* not yet consumed the spare, or an operator gave the address.
PoolHeld ==
    \A n \in Nodes, s \in Spares :
        hosts[n] = s /\ infos[s] # NoOne => s \in hand \/ \E j \in Jobs : UsesSpare(j, n, s)

PInv ==
    /\ Shapes /\ PoolHeld
    /\ \A s \in Spares : infos[s] # NoOne => infos[s].addr = s
    /\ \A j \in Jobs : ~Idle(j) => Aimed(j)
    /\ \A j \in Jobs : job[j].pc \in {"saveInfo", "saveStamp"} => job[j].info \in InfoRecords \cup {NoOne}

LEMMA InitP == Init => PInv
<1> SUFFICES ASSUME Init PROVE PInv
  OBVIOUS
<1>1. AInv
  BY InitAInv
<1>2. \A j \in Jobs : job[j].pc = "none" /\ Idle(j)
  BY NoJobFacts DEF Init, Idle
<1>3. PoolHeld
  BY <1>1 DEF AInv, PoolFree, PoolHeld
<1> QED BY <1>1, <1>2, <1>3 DEF AInv, SparesAtHome, PInv

\* A step of relocation j that leaves the store's hosts and infos alone.
LEMMA QuietP ==
    ASSUME PInv, NEW j \in Jobs, UNCHANGED << hosts, infos, hand >>, ~Idle(j),
           Moves(j, {"pc", "info", "copy", "todo", "c", "i", "ok"}),
           job[j].pc \in BeforeConsume => job'[j].pc \in BeforeConsume,
           job'[j].pc \in Ending => j # Operator,
           job'[j].pc \in {"saveInfo", "saveStamp"} => job'[j].info \in InfoRecords \cup {NoOne}
    PROVE  PInv'
<1>1. job'[j].node = job[j].node /\ job'[j].spare = job[j].spare /\ job'[j].to = job[j].to
  BY MovesFields
<1>2. DOMAIN job' = Jobs /\ DOMAIN job'[j] = JobFields /\ \A i \in Jobs : i # j => job'[i] = job[i]
  BY DEF Moves
<1>3. Shapes'
  BY <1>2 DEF PInv, Shapes
<1>4. \A i \in Jobs, n \in Nodes, s \in Spares : UsesSpare(i, n, s) => UsesSpare(i, n, s)'
  BY <1>1, <1>2 DEF UsesSpare, BeforeConsume
<1>5. PoolHeld'
  BY <1>4 DEF PInv, PoolHeld
<1>6. Aimed(j)'
  BY <1>1, Names DEF PInv, Aimed
<1>7. \A i \in Jobs : ~Idle(i)' => Aimed(i)'
  BY <1>2, <1>6 DEF PInv, Aimed, Idle
<1>8. \A i \in Jobs : job'[i].pc \in {"saveInfo", "saveStamp"} => job'[i].info \in InfoRecords \cup {NoOne}
  BY <1>2 DEF PInv
<1> QED BY <1>3, <1>5, <1>7, <1>8 DEF PInv

\* A relocation that ends or starts, where it was idle or past its spare.
LEMMA ReplacedP ==
    ASSUME PInv, NEW j \in Jobs, NEW new, Replaces(j, new), DOMAIN new = JobFields,
           hosts' = hosts, hand \subseteq hand', infos' \in [Ids -> InfoRecords \cup {NoOne}],
           \A s \in Spares : infos'[s] = infos[s],
           \A n \in Nodes, s \in Spares : ~UsesSpare(j, n, s),
           new.pc \in {"none", "host"}, new.pc = "host" => Aimed(j)'
    PROVE  PInv'
<1>1. DOMAIN job' = Jobs /\ job'[j] = new /\ \A i \in Jobs : i # j => job'[i] = job[i]
  BY DEF Replaces
<1>2. Shapes'
  BY <1>1 DEF PInv, Shapes
<1>3. \A i \in Jobs, n \in Nodes, s \in Spares : UsesSpare(i, n, s) => UsesSpare(i, n, s)'
  BY <1>1 DEF UsesSpare
<1>4. PoolHeld'
  <2>1. \A n \in Nodes, s \in Spares :
           hosts[n] = s /\ infos[s] # NoOne => s \in hand \/ \E i \in Jobs : UsesSpare(i, n, s)
    BY DEF PInv, PoolHeld
  <2> QED BY <1>3, <2>1 DEF PoolHeld
<1>5. ASSUME NEW i \in Jobs, ~Idle(i)' PROVE Aimed(i)'
  <2>1. CASE i = j
    BY <1>1, <1>5, <2>1 DEF Idle
  <2>2. CASE i # j
    BY <1>1, <1>5, <2>2 DEF PInv, Aimed, Idle
  <2> QED BY <2>1, <2>2
<1>6. \A i \in Jobs : job'[i].pc \in {"saveInfo", "saveStamp"} => job'[i].info \in InfoRecords \cup {NoOne}
  BY <1>1 DEF PInv
<1>7. \A s \in Spares : infos'[s] # NoOne => infos'[s].addr = s
  BY DEF PInv
<1> QED BY <1>2, <1>4, <1>5, <1>6, <1>7 DEF PInv

\* The record of a node changes, and those of the spares stay.
LEMMA NodeInfoP ==
    ASSUME PInv, NEW n \in Nodes, NEW r \in InfoRecords
    PROVE  /\ [infos EXCEPT ![n] = r] \in [Ids -> InfoRecords \cup {NoOne}]
           /\ \A s \in Spares : [infos EXCEPT ![n] = r][s] = infos[s]
<1>1. infos \in [Ids -> InfoRecords \cup {NoOne}] /\ n \in Ids /\ \A s \in Spares : s # n /\ s \in Ids
  BY Names DEF PInv, Shapes
<1> QED BY <1>1

LEMMA JobStepHand == ASSUME NEW j \in Jobs, JobStep(j) PROVE UNCHANGED hand /\ ~Idle(j)
BY Zenon DEF JobStep, SaveHost, ReadInfo, SaveInfo, ListChains, SaveSnapshot, Resolve, Preflight, DeployNode,
             ChainDone, Finish, ConsumeInfo, ConsumeHost, StampRead, StampSave

LEMMA SaveHostP == ASSUME PInv, NEW j \in Jobs, SaveHost(j), UNCHANGED hand, ~Idle(j) PROVE PInv'
<1> DEFINE n == job[j].node
           a == job[j].to
<1>1. Shapes /\ Aimed(j)
  BY DEF PInv
<1>2. /\ job[j].pc = "host" /\ job'[j].pc = "info" /\ hosts' = [hosts EXCEPT ![n] = a] /\ UNCHANGED infos
      /\ DOMAIN job' = Jobs /\ DOMAIN job'[j] = JobFields /\ \A i \in Jobs : i # j => job'[i] = job[i]
      /\ job'[j].node = n /\ job'[j].spare = job[j].spare /\ job'[j].to = a /\ job'[j].info = job[j].info
  BY <1>1, SaveHostFacts, MovesFields DEF Moves
<1>3. n \in Nodes /\ n \in Ids /\ a \in VPS
  BY <1>1, Names DEF Aimed, PInv
<1>4. hosts'[n] = a /\ \A i \in Ids : i # n => hosts'[i] = hosts[i]
  BY <1>1, <1>2, <1>3 DEF Shapes
<1>5. Shapes'
  BY <1>1, <1>2, <1>3 DEF Shapes
<1>6. Aimed(j)' /\ \A i \in Jobs : i # j /\ ~Idle(i)' => Aimed(i)'
  BY <1>1, <1>2 DEF PInv, Aimed, Idle, Ending
<1>7. \A i \in Jobs, m \in Nodes, s \in Spares : UsesSpare(i, m, s) => UsesSpare(i, m, s)'
  BY <1>2 DEF UsesSpare, Early, Listed
<1>8. PoolHeld'
  <2> SUFFICES ASSUME NEW m \in Nodes, NEW s \in Spares, hosts'[m] = s, infos[s] # NoOne
               PROVE  s \in hand \/ \E i \in Jobs : UsesSpare(i, m, s)'
    BY <1>2 DEF PoolHeld
  <2>1. CASE m = n
    BY <1>1, <1>2, <1>4, <2>1 DEF Aimed, UsesSpare, Early
  <2>2. CASE m # n
    BY <1>4, <1>7, <2>2, Names DEF PInv, PoolHeld
  <2> QED BY <2>1, <2>2
<1>9. \A i \in Jobs : job'[i].pc \in {"saveInfo", "saveStamp"} => job'[i].info \in InfoRecords \cup {NoOne}
  BY <1>2 DEF PInv
<1> QED BY <1>2, <1>5, <1>6, <1>8, <1>9 DEF PInv

LEMMA SaveInfoP == ASSUME PInv, NEW j \in Jobs, SaveInfo(j), UNCHANGED hand, ~Idle(j) PROVE PInv'
<1> DEFINE n == job[j].node
           new == [job[j].info EXCEPT !.addr = job[j].to]
<1>1. Shapes /\ Aimed(j)
  BY DEF PInv
<1>2. /\ job[j].pc = "saveInfo" /\ job'[j].pc = "list" /\ UNCHANGED hosts
      /\ infos' = IF job[j].info = NoOne THEN infos ELSE [infos EXCEPT ![n] = new]
      /\ DOMAIN job' = Jobs /\ DOMAIN job'[j] = JobFields /\ \A i \in Jobs : i # j => job'[i] = job[i]
      /\ job'[j].node = n /\ job'[j].spare = job[j].spare /\ job'[j].to = job[j].to
  BY <1>1, SaveInfoFacts, MovesFields DEF Moves
<1>3. n \in Nodes /\ job[j].to \in VPS /\ job[j].info \in InfoRecords \cup {NoOne}
  BY <1>1, <1>2, Names DEF Aimed, PInv
<1>4. job[j].info # NoOne => new \in InfoRecords
  BY <1>3 DEF InfoRecords
<1> HIDE DEF new
<1>5. infos' \in [Ids -> InfoRecords \cup {NoOne}] /\ \A s \in Spares : infos'[s] = infos[s]
  BY <1>1, <1>2, <1>3, <1>4, NodeInfoP DEF Shapes
<1>6. Shapes'
  BY <1>1, <1>2, <1>5 DEF Shapes
<1>7. Aimed(j)' /\ \A i \in Jobs : i # j /\ ~Idle(i)' => Aimed(i)'
  BY <1>1, <1>2 DEF PInv, Aimed, Idle, Ending
<1>8. \A i \in Jobs, m \in Nodes, s \in Spares : UsesSpare(i, m, s) => UsesSpare(i, m, s)'
  BY <1>2 DEF UsesSpare, Early, Listed
<1>9. PoolHeld'
  BY <1>2, <1>5, <1>8 DEF PInv, PoolHeld
<1>10. \A i \in Jobs : job'[i].pc \in {"saveInfo", "saveStamp"} => job'[i].info \in InfoRecords \cup {NoOne}
  BY <1>2 DEF PInv
<1> QED BY <1>5, <1>6, <1>7, <1>9, <1>10 DEF PInv

LEMMA ConsumeP ==
    ASSUME PInv, NEW j \in Jobs, ConsumeInfo(j) \/ ConsumeHost(j), UNCHANGED hand, ~Idle(j)
    PROVE  PInv'
<1> DEFINE s == job[j].spare
<1>1. Shapes /\ Aimed(j) /\ j # Operator /\ s \in Spares /\ s \in Ids
  BY Names DEF PInv, Aimed, ConsumeInfo, ConsumeHost, Ending
<1>2. /\ DOMAIN job' = Jobs /\ DOMAIN job'[j] = JobFields /\ \A i \in Jobs : i # j => job'[i] = job[i]
      /\ job'[j].node = job[j].node /\ job'[j].spare = s /\ job'[j].to = job[j].to
      /\ \/ /\ job[j].pc = "consume" /\ job'[j].pc = "consumeHost" /\ UNCHANGED hosts
            /\ infos' = [infos EXCEPT ![s] = NoOne]
         \/ /\ job[j].pc = "consumeHost" /\ job'[j].pc = "stamp" /\ UNCHANGED infos
            /\ hosts' = [hosts EXCEPT ![s] = NoOne] \/ UNCHANGED hosts
  <2>1. CASE ConsumeInfo(j)
    BY <1>1, <2>1, ConsumeInfoFacts, MovesFields DEF Moves
  <2>2. CASE ConsumeHost(j)
    BY <1>1, <2>2, ConsumeHostFacts, MovesFields DEF Moves
  <2> QED BY <2>1, <2>2
<1>3. Shapes'
  BY <1>1, <1>2 DEF Shapes
<1>4. /\ \A n \in Nodes : hosts'[n] = hosts[n]
      /\ \A t \in Spares : infos'[t] # NoOne => infos'[t] = infos[t]
      /\ job[j].pc = "consume" => infos'[s] = NoOne
  BY <1>1, <1>2, Names DEF Shapes
<1>5. \A i \in Jobs, n \in Nodes, t \in Spares : UsesSpare(i, n, t) /\ infos'[t] # NoOne => UsesSpare(i, n, t)'
  BY <1>1, <1>2, <1>4 DEF UsesSpare, Early, Listed
<1>6. PoolHeld'
  <2> SUFFICES ASSUME NEW m \in Nodes, NEW t \in Spares, hosts'[m] = t, infos'[t] # NoOne
               PROVE  t \in hand \/ \E i \in Jobs : UsesSpare(i, m, t)'
    BY DEF PoolHeld
  <2>1. t \in hand \/ \E i \in Jobs : UsesSpare(i, m, t)
    BY <1>4 DEF PInv, PoolHeld
  <2> QED BY <1>5, <2>1
<1>7. Aimed(j)' /\ \A i \in Jobs : i # j /\ ~Idle(i)' => Aimed(i)'
  BY <1>1, <1>2 DEF PInv, Aimed, Idle
<1>8. \A i \in Jobs : job'[i].pc \in {"saveInfo", "saveStamp"} => job'[i].info \in InfoRecords \cup {NoOne}
  BY <1>2 DEF PInv
<1>9. \A t \in Spares : infos'[t] # NoOne => infos'[t].addr = t
  BY <1>4 DEF PInv
<1> QED BY <1>3, <1>6, <1>7, <1>8, <1>9 DEF PInv

LEMMA EndP == ASSUME PInv, NEW j \in Jobs, StampSave(j) \/ (Finish(j) /\ j = Operator), UNCHANGED hand, ~Idle(j)
              PROVE  PInv'
<1> DEFINE n == job[j].node
           new == [job[j].info EXCEPT !.stamp = "recent"]
<1>1. Shapes /\ Aimed(j) /\ n \in Nodes
  BY DEF PInv, Aimed
<1>2. CASE StampSave(j)
  <2>1. /\ Replaces(j, NoJob) /\ job[j].pc = "saveStamp" /\ UNCHANGED hosts
        /\ infos' = IF job[j].info = NoOne THEN infos ELSE [infos EXCEPT ![n] = new]
    BY <1>1, <1>2, StampSaveFacts
  <2>2. job[j].info # NoOne => new \in InfoRecords
    BY <2>1 DEF PInv, InfoRecords
  <2> HIDE DEF new
  <2>3. infos' \in [Ids -> InfoRecords \cup {NoOne}] /\ \A s \in Spares : infos'[s] = infos[s]
    BY <1>1, <2>1, <2>2, NodeInfoP DEF Shapes
  <2>4. \A m \in Nodes, s \in Spares : ~UsesSpare(j, m, s)
    BY <2>1 DEF UsesSpare, Early, Listed
  <2> QED BY <2>1, <2>3, <2>4, NoJobFacts, ReplacedP
<1>3. CASE Finish(j) /\ j = Operator
  <2>1. Replaces(j, NoJob) /\ UNCHANGED << hosts, infos >>
    BY <1>1, <1>3, FinishFacts
  <2>2. \A m \in Nodes, s \in Spares : ~UsesSpare(j, m, s)
    BY <1>1, <1>3, Names DEF UsesSpare, Aimed
  <2> QED BY <1>1, <2>1, <2>2, NoJobFacts, ReplacedP DEF Shapes
<1> QED BY <1>2, <1>3

LEMMA StartP ==
    ASSUME PInv, NEW n \in Nodes, EnterIncident(n) \/ \E v \in NewVPS : RelocateByHand(n, v)
    PROVE  PInv'
<1>1. Shapes /\ infos \in [Ids -> InfoRecords \cup {NoOne}]
  BY DEF PInv, Shapes
<1>2. \A j \in Jobs : Idle(j) => \A m \in Nodes, s \in Spares : ~UsesSpare(j, m, s)
  BY DEF Idle, UsesSpare, Early, Listed
<1>3. CASE EnterIncident(n)
  <2>1. CASE UNCHANGED << job, beside >>
    <3>1. UNCHANGED << hosts, infos, hand, job >>
      BY <1>1, <1>3, <2>1, EnterIncidentFacts
    <3> QED BY <3>1 DEF PInv, Shapes, PoolHeld, UsesSpare, Aimed, Idle
  <2>2. ASSUME NEW s \in Spares, AutoRelocateDecision(n, s), Idle(n), n \in Jobs,
               Replaces(n, NewJob(n, s, infos[s].addr)), UNCHANGED << hosts, infos, hand >>
        PROVE  PInv'
    <3>1. infos[s].addr = s /\ s \in VPS /\ n # Operator
      BY <2>2, Names DEF PInv, AutoRelocateDecision, Pickable
    <3> DEFINE new == NewJob(n, s, s)
    <3>2. DOMAIN new = JobFields /\ new.pc = "host" /\ new.node = n /\ new.spare = s /\ new.to = s
      BY NewJobFacts
    <3>3. Replaces(n, new)
      BY <2>2, <3>1
    <3> HIDE DEF new
    <3>4. Aimed(n)'
      BY <3>1, <3>2, <3>3 DEF Replaces, Aimed
    <3> QED BY <1>1, <1>2, <2>2, <3>2, <3>3, <3>4, ReplacedP
  <2> QED BY <1>1, <1>3, <2>1, <2>2, EnterIncidentFacts
<1>4. ASSUME NEW v \in NewVPS, RelocateByHand(n, v) PROVE PInv'
  <2> DEFINE new == NewJob(n, NoOne, v)
  <2>1. /\ Operator \in Jobs /\ Idle(Operator) /\ Replaces(Operator, new)
        /\ hand' = hand \cup {v} /\ UNCHANGED << hosts, infos >>
    BY <1>1, <1>4, RelocateByHandFacts
  <2>2. DOMAIN new = JobFields /\ new.pc = "host" /\ new.node = n /\ new.spare = NoOne /\ new.to = v
    BY NewJobFacts
  <2> HIDE DEF new
  <2>3. Aimed(Operator)'
    BY <2>1, <2>2, Names DEF Replaces, Aimed, Ending
  <2> QED BY <1>1, <1>2, <2>1, <2>2, <2>3, ReplacedP
<1> QED BY <1>3, <1>4

LEMMA JobStepP == ASSUME PInv, NEW j \in Jobs, JobStep(j) PROVE PInv'
<1> USE DEF BeforeConsume, Early, Listed, Ending
<1> DEFINE all == {"pc", "info", "copy", "todo", "c", "i", "ok"}
<1>0. Shapes /\ ~Idle(j) /\ UNCHANGED hand /\ Aimed(j) /\ job[j].node \in Ids
  BY JobStepHand, Names DEF PInv, Aimed
<1>1. CASE SaveHost(j) \/ SaveInfo(j) \/ ConsumeInfo(j) \/ ConsumeHost(j) \/ StampSave(j) \/ (Finish(j) /\ j = Operator)
  BY <1>0, <1>1, SaveHostP, SaveInfoP, ConsumeP, EndP
<1>2. CASE ReadInfo(j) \/ StampRead(j)
  <2>1. /\ Moves(j, {"pc", "info"}) /\ UNCHANGED << hosts, infos >> /\ job'[j].info = infos[job[j].node]
        /\ \/ job[j].pc = "info" /\ job'[j].pc = "saveInfo"
           \/ job[j].pc = "stamp" /\ job'[j].pc = "saveStamp"
    <3>1. CASE ReadInfo(j)
      BY <1>0, <3>1, ReadInfoFacts
    <3>2. CASE StampRead(j)
      BY <1>0, <3>2, StampReadFacts
    <3> QED BY <1>2, <3>1, <3>2
  <2>2. Moves(j, all)
    BY <2>1 DEF Moves
  <2>3. job'[j].info \in InfoRecords \cup {NoOne}
    BY <1>0, <2>1 DEF Shapes
  <2>4. job'[j].pc \in Ending => j # Operator
    BY <1>0, <2>1, Names DEF Aimed
  <2> QED BY <1>0, <2>1, <2>2, <2>3, <2>4, QuietP
<1>3. CASE \/ ListChains(j) \/ SaveSnapshot(j) \/ Resolve(j) \/ Preflight(j) \/ DeployNode(j) \/ ChainDone(j)
           \/ (Finish(j) /\ j # Operator)
  <2>1. /\ Moves(j, all) /\ UNCHANGED << hosts, infos >> /\ job'[j].pc \in Listed \cup {"consume"}
        /\ job'[j].pc = "consume" => j # Operator
    <3>1. CASE ListChains(j)
      BY <1>0, <3>1, ListChainsFacts DEF Moves
    <3>2. CASE SaveSnapshot(j)
      BY <1>0, <3>2, SaveSnapshotFacts DEF Moves
    <3>3. CASE Resolve(j)
      BY <1>0, <3>3, ResolveFacts DEF Moves
    <3>4. CASE Preflight(j)
      BY <1>0, <3>4, PreflightFacts DEF Moves
    <3>5. CASE DeployNode(j)
      <4>1. Moves(j, {"i", "ok"}) /\ job[j].pc = "deploy" /\ UNCHANGED << hosts, infos >>
        BY <1>0, <3>5, DeployNodeFacts
      <4>2. job'[j].pc = "deploy"
        BY <4>1, MovesFields
      <4>3. Moves(j, all)
        BY <4>1 DEF Moves
      <4> QED BY <4>1, <4>2, <4>3
    <3>6. CASE ChainDone(j)
      BY <1>0, <3>6, ChainDoneFacts DEF Moves
    <3>7. CASE Finish(j) /\ j # Operator
      BY <1>0, <3>7, FinishFacts DEF Moves
    <3> QED BY <1>3, <3>1, <3>2, <3>3, <3>4, <3>5, <3>6, <3>7
  <2> QED BY <1>0, <2>1, QuietP
<1> QED BY <1>1, <1>2, <1>3 DEF JobStep

LEMMA NextP == ASSUME PInv, [Next]_vars PROVE PInv'
<1>1. CASE UNCHANGED << hosts, infos, hand, job >>
  BY <1>1 DEF PInv, Shapes, PoolHeld, UsesSpare, Aimed, Idle
<1>2. ASSUME NEW n \in Nodes, CoolDown(n) PROVE PInv'
  <2> DEFINE new == [infos[n] EXCEPT !.stamp = "old"]
  <2>1. infos' = [infos EXCEPT ![n] = new] /\ infos[n] # NoOne /\ UNCHANGED << hosts, job, hand >>
    BY <1>2 DEF CoolDown
  <2>2. infos[n] \in InfoRecords
    BY <2>1, Names DEF PInv, Shapes
  <2>3. new \in InfoRecords
    BY <2>2 DEF InfoRecords
  <2> HIDE DEF new
  <2>4. infos' \in [Ids -> InfoRecords \cup {NoOne}] /\ \A s \in Spares : infos'[s] = infos[s]
    BY <2>1, <2>3, NodeInfoP
  <2> QED BY <2>1, <2>4 DEF PInv, Shapes, PoolHeld, UsesSpare, Aimed, Idle
<1>3. ASSUME NEW n \in Nodes, EnterIncident(n) \/ \E v \in NewVPS : RelocateByHand(n, v) PROVE PInv'
  BY <1>3, StartP
<1>4. ASSUME NEW j \in Jobs, JobStep(j) PROVE PInv'
  BY <1>4, JobStepP
<1>5. \/ \E n \in Nodes : EnterIncident(n) \/ CoolDown(n) \/ \E v \in NewVPS : RelocateByHand(n, v)
      \/ \E j \in Jobs : JobStep(j)
      \/ UNCHANGED << hosts, infos, hand, job >>
  BY Zenon DEF Next, vars, store, Recover, Outage, AddToChain
<1> QED BY <1>1, <1>2, <1>3, <1>4, <1>5

\* A spare is given away once, for every fleet and pool and any number of
\* relocations at once: the metrics loop moves a node to the VPS of another one
\* only while that one's relocation to the same spare runs, or after an operator
\* gave the address (PickSpare, ConsumeSpare, startAutoRelocate).
THEOREM SpareGivenOnceThm == Spec => SpareGivenOnce
<1> DEFINE Prop ==
        \A n \in AutoNodes, m \in Nodes :
          job[n].pc = "none" /\ job'[n].pc # "none" /\ m # n /\ hosts[m] = job'[n].to =>
              \/ \E j \in Jobs : job[j].node = m /\ job[j].spare = job'[n].spare
              \/ hosts[m] \in hand
<1>1. ASSUME PInv, [Next]_vars PROVE Prop
  <2> SUFFICES ASSUME NEW n \in AutoNodes, NEW m \in Nodes, job[n].pc = "none", job'[n].pc # "none",
                      m # n, hosts[m] = job'[n].to
               PROVE  \/ \E j \in Jobs : job[j].node = m /\ job[j].spare = job'[n].spare
                      \/ hosts[m] \in hand
    OBVIOUS
  <2>0. Shapes /\ n \in Jobs /\ n \in Nodes /\ n # Operator
    BY <1>1, Names DEF PInv
  <2>1. ASSUME NEW k \in Nodes, EnterIncident(k)
        PROVE  \/ \E j \in Jobs : job[j].node = m /\ job[j].spare = job'[n].spare
               \/ hosts[m] \in hand
    <3>1. PICK s \in Spares : AutoRelocateDecision(k, s) /\ k \in Jobs /\ Replaces(k, NewJob(k, s, infos[s].addr))
      BY <2>0, <2>1, EnterIncidentFacts
    <3>2. k = n
      BY <2>0, <3>1 DEF Replaces
    <3>3. infos[s] # NoOne /\ infos[s].addr = s
      BY <1>1, <3>1 DEF AutoRelocateDecision, Pickable, PInv
    <3>4. job'[n].spare = s /\ job'[n].to = s
      BY <3>1, <3>2, <3>3, NewJobFacts DEF Replaces
    <3>5. s \in hand \/ \E j \in Jobs : UsesSpare(j, m, s)
      BY <1>1, <3>3, <3>4 DEF PInv, PoolHeld
    <3> QED BY <3>4, <3>5 DEF UsesSpare
  <2>2. ASSUME NEW k \in Nodes, NEW v \in NewVPS, RelocateByHand(k, v) PROVE FALSE
    BY <2>0, <2>2, RelocateByHandFacts DEF Replaces
  <2>3. ASSUME NEW j \in Jobs, JobStep(j) PROVE FALSE
    <3>1. j # n
      BY <2>3 DEF JobStep, Idle
    <3>2. (\E S : Moves(j, S)) \/ Replaces(j, NoJob)
      BY <2>0, <2>3, JobStepMoves
    <3> QED BY <2>0, <3>1, <3>2 DEF Moves, Replaces
  <2>4. CASE UNCHANGED job
    BY <2>4
  <2>5. \/ \E k \in Nodes : EnterIncident(k) \/ \E v \in NewVPS : RelocateByHand(k, v)
        \/ \E j \in Jobs : JobStep(j)
        \/ UNCHANGED job
    BY <1>1, Zenon DEF Next, vars, Recover, CoolDown, Outage, AddToChain
  <2> QED BY <2>1, <2>2, <2>3, <2>4, <2>5
<1>2. PInv /\ [Next]_vars => PInv'
  BY NextP
<1>3. PInv /\ [Next]_vars => [Prop]_vars
  BY <1>1
<1> QED BY <1>2, <1>3, InitP, PTL DEF Spec, SpareGivenOnce

-----------------------------------------------------------------------------
(* Chains: the parts of the invariant for the one relocation that may run *)

\* No other relocation runs.
Solo(j) == \A i \in Jobs : i # j => job[i].pc = "none" /\ DOMAIN job[i].copy = {}

CurrentJ(j, c) == applied[c] = "ok" /\ ~TodoOf(j, c)

BurntInJ(j, S) ==
    \E m \in S, s \in Spares :
        infos[s] = NoOne /\ hosts[s] # NoOne /\ ~Consuming(j, s) /\ hosts[m] = hosts[s]

TaintedIn(j, c) ==
    job[j].pc \in Listed \cup {"consume", "consumeHost"} /\ Tainted(j) /\ job[j].node \in Mem(c)

BrokenBy(j, m, d) ==
    /\ m \in InChain(d) /\ (d \in DOMAIN job[j].copy => m \in DOMAIN job[j].copy[d].nodes)
    /\ applied[d] # "ok" \/ (job[j].pc = "deploy" /\ job[j].c = d /\ ~job[j].ok)

LEMMA SoloViews ==
    ASSUME NEW j \in Jobs, Solo(j)
    PROVE  /\ \A c \in Chains : Current(c) <=> CurrentJ(j, c)
           /\ \A S \in SUBSET Ids : BurntIn(S) <=> BurntInJ(j, S)
           /\ \A c \in Chains : Excused(c) <=> BurntIn(InChain(c)) \/ TaintedIn(j, c)
           /\ \A m \in Ids : Broken(m) <=> \E d \in Chains : BrokenBy(j, m, d)
<1>1. \A i \in Jobs : i # j => job[i].pc = "none" /\ DOMAIN job[i].copy = {}
  BY DEF Solo
<1>2. \A c \in Chains : Current(c) <=> CurrentJ(j, c)
  BY <1>1 DEF Current, CurrentJ, TodoOf
<1>3. \A S \in SUBSET Ids : BurntIn(S) <=> BurntInJ(j, S)
  BY <1>1 DEF BurntIn, BurntInJ, Burnt, Consuming
<1>4. \A c \in Chains : Excused(c) <=> BurntIn(InChain(c)) \/ TaintedIn(j, c)
  BY <1>1 DEF Excused, TaintedIn, Listed
<1>5. \A m \in Ids : Broken(m) <=> \E d \in Chains : BrokenBy(j, m, d)
  BY <1>1 DEF Broken, BrokenBy, Failing
<1> QED BY <1>2, <1>3, <1>4, <1>5

LEMMA SoloViewsNext ==
    ASSUME NEW j \in Jobs, Solo(j)'
    PROVE  /\ \A c \in Chains : Current(c)' <=> CurrentJ(j, c)'
           /\ \A S \in SUBSET Ids : BurntIn(S)' <=> BurntInJ(j, S)'
           /\ \A c \in Chains : Excused(c)' <=> BurntIn(InChain(c))' \/ TaintedIn(j, c)'
           /\ \A m \in Ids : Broken(m)' <=> \E d \in Chains : BrokenBy(j, m, d)'
<1>1. \A i \in Jobs : i # j => job'[i].pc = "none" /\ DOMAIN job'[i].copy = {}
  BY DEF Solo
<1>2. \A c \in Chains : Current(c)' <=> CurrentJ(j, c)'
  BY <1>1 DEF Current, CurrentJ, TodoOf
<1>3. \A S \in SUBSET Ids : BurntIn(S)' <=> BurntInJ(j, S)'
  BY <1>1 DEF BurntIn, BurntInJ, Burnt, Consuming
<1>4. \A c \in Chains : Excused(c)' <=> BurntIn(InChain(c))' \/ TaintedIn(j, c)'
  BY <1>1 DEF Excused, TaintedIn, Listed
<1>5. \A m \in Ids : Broken(m)' <=> \E d \in Chains : BrokenBy(j, m, d)'
  BY <1>1 DEF Broken, BrokenBy, Failing
<1> QED BY <1>2, <1>3, <1>4, <1>5

\* Without levels, the flat list is the chain.
LEMMA Flat ==
    ASSUME Levelized = {}
    PROVE  /\ \A c, ch : AllNodes(c, ch) = ch.nodes
           /\ \A c : InChain(c) = DOMAIN chains[c].nodes
           /\ \A c : InChain(c)' = DOMAIN chains'[c].nodes
           /\ \A n : GetChainsForNode(n) = {c \in Chains : n \in DOMAIN chains[c].nodes}
BY DEF AllNodes, InChain, GetChainsForNode

LEMMA SaveChainFacts ==
    ASSUME Levelized = {}, ChainShapes, NEW c \in Chains, NEW ch, IsChain(c, ch), SaveChain(c, ch)
    PROVE  /\ DOMAIN chains' = Chains /\ IsChain(c, chains'[c]) /\ chains'[c].nodes = ch.nodes
           /\ \A d \in Chains : d # c => chains'[d] = chains[d]
<1>1. chains' = [chains EXCEPT ![c] = [ch EXCEPT !.nodes = ch.nodes]]
  BY Flat DEF SaveChain
<1> DEFINE new == [ch EXCEPT !.nodes = ch.nodes]
<1>2. IsChain(c, new) /\ new.nodes = ch.nodes
  BY DEF IsChain, ChainFields
<1> HIDE DEF new
<1> QED BY <1>1, <1>2 DEF ChainShapes, new

-----------------------------------------------------------------------------
(* What a step has to keep *)

SpareEditedJ(j) ==
    \A c \in Chains :
        ~Idle(j) /\ job[j].pc \notin {"stamp", "saveStamp"}
          /\ job[j].spare \in InChain(c) /\ job[j].node \notin Mem(c) => applied[c] # "ok"

CopiesCurrent(j) ==
    \A c \in Chains : CurrentJ(j, c) /\ c \in DOMAIN job[j].copy =>
                          DOMAIN job[j].copy[c].nodes = InChain(c)

\* All but that a current chain has its addresses and is deployed.
Rest(j) ==
    /\ Solo(j) /\ ChainShapes /\ CopiesCurrent(j) /\ SpareEditedJ(j)
    /\ Idle(j) => DOMAIN job[j].copy = {}
    /\ ~Idle(j) => CopiesPlaced(j) /\ Loop(j)

LEMMA SoloRest ==
    ASSUME BInv, NEW j \in Jobs, \A i \in Jobs : i # j => Idle(i)
    PROVE  Rest(j) /\ StoreCurrent /\ Deployed
<1>1. Solo(j)
  BY DEF BInv, Solo, Idle
<1>2. CopiesCurrent(j) /\ SpareEditedJ(j)
  BY <1>1, SoloViews DEF BInv, CopiesCurrent, StoreCurrent, SpareEdited, SpareEditedJ
<1> QED BY <1>1, <1>2 DEF BInv, Rest

\* The chains that are current stay as they are.
KeepsCurrent(j) ==
    \A c \in Chains : CurrentJ(j, c)' => /\ CurrentJ(j, c) /\ chains'[c] = chains[c]
                                         /\ \A m \in InChain(c) : hosts'[m] = hosts[m]

KeepsExcuses(j) ==
    \A c \in Chains : CurrentJ(j, c)' =>
        /\ BurntInJ(j, InChain(c)) => BurntInJ(j, InChain(c))' \/ TaintedIn(j, c)'
        /\ TaintedIn(j, c) => BurntInJ(j, InChain(c))' \/ TaintedIn(j, c)'

KeepsBroken(j) ==
    \A m \in Ids, d \in Chains : BrokenBy(j, m, d) => BrokenBy(j, m, d)'

KeepsConfigs == \A v \in VPS : vps'[v].id = vps[v].id /\ vps'[v].peers = vps[v].peers

LEMMA Assemble ==
    ASSUME NEW j \in Jobs, Rest(j)', Deployed', \A c \in Chains : Current(c)' => Located(chains[c].nodes)'
    PROVE  BInv'
<1>1. Solo(j)'
  BY DEF Rest
<1>2. \A i \in Jobs : i # j => job'[i].pc = "none" /\ DOMAIN job'[i].copy = {} /\ Idle(i)'
  BY <1>1 DEF Solo, Idle
<1>3. StoreCurrent'
  BY <1>1, <1>2, SoloViewsNext DEF Rest, StoreCurrent, CopiesCurrent
<1>4. SpareEdited'
  BY <1>2 DEF Rest, SpareEdited, SpareEditedJ
<1> QED BY <1>2, <1>3, <1>4 DEF Rest, BInv

LEMMA StepB ==
    ASSUME Levelized = {}, Shapes, NEW j \in Jobs, Rest(j), StoreCurrent, Deployed,
           Rest(j)', KeepsCurrent(j), KeepsExcuses(j), KeepsBroken(j), KeepsConfigs
    PROVE  BInv'
<1>1. Solo(j) /\ Solo(j)' /\ ChainShapes /\ ChainShapes'
  BY DEF Rest
<1>2. ASSUME NEW c \in Chains, Current(c)'
      PROVE  /\ Current(c) /\ chains'[c] = chains[c] /\ InChain(c)' = InChain(c) /\ InChain(c) \subseteq Ids
             /\ \A m \in InChain(c) : hosts'[m] = hosts[m] /\ hosts[m] \in VPS
             /\ Located(chains[c].nodes)'
             /\ Excused(c) => Excused(c)'
  <2>1. CurrentJ(j, c)'
    BY <1>1, <1>2, SoloViewsNext
  <2>2. CurrentJ(j, c) /\ chains'[c] = chains[c] /\ \A m \in InChain(c) : hosts'[m] = hosts[m]
    BY <2>1 DEF KeepsCurrent
  <2>3. Current(c)
    BY <1>1, <2>2, SoloViews
  <2>4. InChain(c) = DOMAIN chains[c].nodes /\ InChain(c)' = InChain(c)
    BY <2>2, Flat
  <2>5. InChain(c) \subseteq Ids
    BY <1>1, <2>4 DEF ChainShapes, IsChain
  <2>6. Located(chains[c].nodes)
    BY <2>3 DEF StoreCurrent
  <2>7. \A m \in InChain(c) : hosts[m] \in VPS
    BY <2>4, <2>5, <2>6 DEF Located, Shapes
  <2>8. Located(chains[c].nodes)'
    BY <2>2, <2>4, <2>6 DEF Located
  <2>9. Excused(c) <=> BurntInJ(j, InChain(c)) \/ TaintedIn(j, c)
    BY <1>1, <2>5, SoloViews
  <2>10. Excused(c)' <=> BurntInJ(j, InChain(c))' \/ TaintedIn(j, c)'
    <3>1. Excused(c)' <=> BurntIn(InChain(c))' \/ TaintedIn(j, c)'
      BY <1>1, SoloViewsNext
    <3>2. BurntIn(InChain(c))' <=> BurntInJ(j, InChain(c))'
      <4>1. \A i \in Jobs : i # j => job'[i].pc = "none"
        BY <1>1 DEF Solo
      <4> QED BY <4>1 DEF BurntIn, BurntInJ, Burnt, Consuming
    <3> QED BY <3>1, <3>2
  <2>11. Excused(c) => Excused(c)'
    BY <2>1, <2>9, <2>10 DEF KeepsExcuses
  <2> QED BY <2>2, <2>3, <2>4, <2>5, <2>7, <2>8, <2>11
<1>3. \A m \in Ids : Broken(m) => Broken(m)'
  BY <1>1, SoloViews, SoloViewsNext DEF KeepsBroken
<1>4. Deployed'
  <2> SUFFICES ASSUME NEW c \in Chains, Current(c)', ~Excused(c)', NEW m \in InChain(c)'
               PROVE  RunsAt(m, hosts[m], c)' \/ BareAt(m, hosts[m])'
    BY DEF Deployed
  <2>1. /\ Current(c) /\ ~Excused(c) /\ chains'[c] = chains[c] /\ m \in InChain(c) /\ m \in Ids
        /\ hosts'[m] = hosts[m] /\ hosts[m] \in VPS
    BY <1>2
  <2>2. RunsAt(m, hosts[m], c) \/ BareAt(m, hosts[m])
    BY <2>1 DEF Deployed
  <2> QED BY <1>3, <2>1, <2>2 DEF RunsAt, BareAt, KeepsConfigs
<1> QED BY <1>2, <1>4, Assemble

-----------------------------------------------------------------------------
(* Chains: the steps of a relocation *)

LEMMA NodeIn ==
    ASSUME Levelized = {}, ChainShapes, NEW n \in Nodes, NEW c \in Chains
    PROVE  n \in InChain(c) <=> n \in Mem(c)
<1>1. InChain(c) \cap Nodes = Mem(c)
  BY Flat DEF ChainShapes, IsChain
<1> QED BY <1>1

LEMMA JobB ==
    ASSUME AInv, BInv, NEW j \in Jobs, ~Idle(j)
    PROVE  /\ Rest(j) /\ StoreCurrent /\ Deployed /\ Shapes
           /\ Solo(j) /\ ChainShapes /\ CopiesCurrent(j) /\ SpareEditedJ(j) /\ CopiesPlaced(j) /\ Loop(j)
           /\ JobPlaced(j) /\ TargetReserved(j) /\ job[j].node \in Nodes
<1>1. /\ \A i \in Jobs : i # j => Idle(i)
      /\ JobPlaced(j) /\ TargetReserved(j) /\ job[j].node \in Nodes
  BY JobFacts
<1>2. Rest(j) /\ StoreCurrent /\ Deployed
  BY <1>1, SoloRest
<1> QED BY <1>1, <1>2 DEF Rest, AInv

\* Steps that leave the hosts and the spares alone.
Quiet(j) ==
    /\ UNCHANGED hosts /\ \A s \in Spares : infos'[s] = infos[s]
    /\ job'[j].spare = job[j].spare /\ job'[j].node = job[j].node
    /\ job'[j].pc = "consumeHost" <=> job[j].pc = "consumeHost"

QuietCurrent(j) ==
    \A c \in Chains : CurrentJ(j, c)' => CurrentJ(j, c) /\ chains'[c] = chains[c]

LEMMA QuietB ==
    ASSUME Levelized = {}, AInv, BInv, NEW j \in Jobs, ~Idle(j), Rest(j)', Quiet(j), QuietCurrent(j),
           \A c \in Chains : TaintedIn(j, c) => TaintedIn(j, c)', KeepsBroken(j), KeepsConfigs
    PROVE  BInv'
<1>1. Rest(j) /\ StoreCurrent /\ Deployed /\ Shapes
  BY JobB
<1>2. KeepsCurrent(j)
  BY DEF KeepsCurrent, QuietCurrent, Quiet
<1>3. KeepsExcuses(j)
  <2> SUFFICES ASSUME NEW c \in Chains, CurrentJ(j, c)'
               PROVE  BurntInJ(j, InChain(c)) => BurntInJ(j, InChain(c))'
    BY DEF KeepsExcuses
  <2>1. InChain(c)' = InChain(c)
    BY Flat DEF QuietCurrent
  <2> QED BY <2>1 DEF BurntInJ, Quiet, Consuming
<1> QED BY <1>1, <1>2, <1>3, StepB

LEMMA SoloMoves ==
    ASSUME NEW j \in Jobs, NEW changed, Solo(j), Moves(j, changed)
    PROVE  Solo(j)'
BY DEF Solo, Moves

LEMMA InfoStepB ==
    ASSUME Levelized = {}, AInv, BInv, NEW j \in Jobs,
           ReadInfo(j) \/ SaveInfo(j) \/ StampRead(j)
    PROVE  BInv'
<1> USE DEF Early, Listed, Ending
<1>0. ~Idle(j)
  BY DEF Idle, ReadInfo, SaveInfo, StampRead
<1>1. /\ Shapes /\ Solo(j) /\ ChainShapes /\ CopiesCurrent(j) /\ SpareEditedJ(j) /\ CopiesPlaced(j)
      /\ job[j].node \in Nodes
  BY <1>0, JobB
<1>2. /\ Moves(j, {"pc", "info"}) /\ UNCHANGED << hosts, chains, vps, applied >>
      /\ \/ job[j].pc = "info" /\ job'[j].pc = "saveInfo"
         \/ job[j].pc = "saveInfo" /\ job'[j].pc = "list"
         \/ job[j].pc = "stamp" /\ job'[j].pc = "saveStamp"
      /\ \A s \in Spares : infos'[s] = infos[s]
  <2>1. CASE ReadInfo(j)
    BY <1>1, <2>1, ReadInfoFacts
  <2>2. CASE SaveInfo(j)
    <3>1. /\ Moves(j, {"pc", "info"}) /\ UNCHANGED << hosts, chains, vps, applied >>
          /\ job[j].pc = "saveInfo" /\ job'[j].pc = "list"
          /\ infos' = IF job[j].info = NoOne THEN infos
                      ELSE [infos EXCEPT ![job[j].node] = [job[j].info EXCEPT !.addr = job[j].to]]
      BY <1>1, <2>2, SaveInfoFacts
    <3>2. \A s \in Spares : s # job[j].node
      BY <1>1, Names
    <3>3. \A s \in Spares : infos'[s] = infos[s]
      BY <1>1, <3>1, <3>2, Names DEF Shapes
    <3> QED BY <3>1, <3>3
  <2>3. CASE StampRead(j)
    BY <1>1, <2>3, StampReadFacts
  <2> QED BY <2>1, <2>2, <2>3
<1>3. /\ job'[j].node = job[j].node /\ job'[j].spare = job[j].spare /\ job'[j].copy = job[j].copy
      /\ job'[j].todo = job[j].todo /\ job'[j].c = job[j].c
  BY <1>2, MovesFields
<1>4. Solo(j)'
  BY <1>1, <1>2, SoloMoves
<1>5. \A c \in Chains : InChain(c)' = InChain(c)
  BY <1>2, Flat
<1>6. \A c \in Chains : CurrentJ(j, c)' <=> CurrentJ(j, c)
  BY <1>2, <1>3 DEF CurrentJ, TodoOf
<1>7. ChainShapes' /\ CopiesCurrent(j)' /\ SpareEditedJ(j)'
  BY <1>0, <1>1, <1>2, <1>3, <1>5, <1>6 DEF ChainShapes, CopiesCurrent, SpareEditedJ, IsChain
<1>8. CopiesPlaced(j)'
  BY <1>1, <1>2, <1>3, <1>5, <1>7 DEF CopiesPlaced, ChainShapes
<1>9. Loop(j)' /\ ~Idle(j)'
  BY <1>2 DEF Loop, Idle
<1>10. Rest(j)'
  BY <1>4, <1>7, <1>8, <1>9 DEF Rest
<1>11. Quiet(j) /\ QuietCurrent(j) /\ KeepsConfigs
  BY <1>2, <1>3, <1>6 DEF Quiet, QuietCurrent, KeepsConfigs
<1>12. KeepsBroken(j)
  BY <1>2, <1>3, <1>5 DEF KeepsBroken, BrokenBy
<1>13. \A c \in Chains : ~TaintedIn(j, c)
  BY <1>2 DEF TaintedIn
<1> QED BY <1>0, <1>10, <1>11, <1>12, <1>13, QuietB

LEMMA ListChainsB == ASSUME Levelized = {}, AInv, BInv, NEW j \in Jobs, ListChains(j) PROVE BInv'
<1> USE DEF Early, Listed, Ending
<1>0. ~Idle(j)
  BY DEF Idle, ListChains
<1> DEFINE n == job[j].node
           S == {c \in Chains : n \in Mem(c)}
<1>1. /\ Shapes /\ Solo(j) /\ ChainShapes /\ SpareEditedJ(j) /\ CopiesPlaced(j) /\ n \in Nodes
  BY <1>0, JobB
<1>2. /\ Moves(j, {"pc", "copy", "todo"}) /\ job[j].pc = "list" /\ job'[j].pc = "snap"
      /\ job'[j].copy = [c \in GetChainsForNode(n) |-> WithAddr(c, chains[c], n, job[j].to)]
      /\ job'[j].todo = GetChainsForNode(n)
      /\ UNCHANGED << hosts, infos, chains, vps, applied >>
  BY <1>1, ListChainsFacts
<1>3. job'[j].node = n /\ job'[j].spare = job[j].spare
  BY <1>2, MovesFields
<1>4. Solo(j)'
  BY <1>1, <1>2, SoloMoves
<1>5. \A c \in Chains : InChain(c)' = InChain(c) /\ InChain(c) = DOMAIN chains[c].nodes
  BY <1>2, Flat
<1>6. GetChainsForNode(n) = S
  <2>1. \A c \in Chains : n \in InChain(c) <=> n \in Mem(c)
    BY <1>1, NodeIn
  <2> QED BY <2>1 DEF GetChainsForNode
<1>7. DOMAIN job'[j].copy = S /\ job'[j].todo = S /\ DOMAIN job[j].copy = {}
  BY <1>1, <1>2, <1>6 DEF CopiesPlaced
<1>8. ASSUME NEW c \in S
      PROVE  IsChain(c, job'[j].copy[c]) /\ DOMAIN job'[j].copy[c].nodes = InChain(c)
  <2> DEFINE new == [chains[c].nodes EXCEPT ![n] = job[j].to]
             ch == [chains[c] EXCEPT !.nodes = new]
  <2>1. job'[j].copy[c] = ch
    BY <1>2, <1>6 DEF WithAddr
  <2>2. IsChain(c, chains[c])
    BY <1>1 DEF ChainShapes
  <2>3. new = [m \in DOMAIN new |-> new[m]] /\ DOMAIN new = DOMAIN chains[c].nodes
    OBVIOUS
  <2> HIDE DEF new
  <2>4. DOMAIN ch = ChainFields /\ ch.nodes = new
    BY <2>2 DEF IsChain, ChainFields
  <2> QED BY <1>5, <2>1, <2>2, <2>3, <2>4 DEF IsChain
<1>9. \A c \in Chains : CurrentJ(j, c)' <=> CurrentJ(j, c)
  BY <1>2, <1>3 DEF CurrentJ, TodoOf
<1>10. ChainShapes' /\ SpareEditedJ(j)'
  BY <1>0, <1>1, <1>2, <1>3, <1>5 DEF ChainShapes, SpareEditedJ, IsChain
<1>11. CopiesCurrent(j)' /\ CopiesPlaced(j)'
  BY <1>2, <1>3, <1>5, <1>7, <1>8 DEF CopiesCurrent, CopiesPlaced
<1>12. Loop(j)' /\ ~Idle(j)'
  BY <1>2 DEF Loop, Idle
<1>13. Rest(j)'
  BY <1>4, <1>10, <1>11, <1>12 DEF Rest
<1>14. Quiet(j) /\ QuietCurrent(j) /\ KeepsConfigs
  BY <1>2, <1>3, <1>9 DEF Quiet, QuietCurrent, KeepsConfigs
<1>15. KeepsBroken(j)
  BY <1>2, <1>5, <1>7, <1>8 DEF KeepsBroken, BrokenBy
<1>16. \A c \in Chains : ~TaintedIn(j, c)
  BY <1>2 DEF TaintedIn
<1> QED BY <1>0, <1>13, <1>14, <1>15, <1>16, QuietB

\* Steps between the list of the chains and the end that report no success: the
\* copies keep their members, a chain is stored only from its copy, and only
\* while it waits for its apply.
CopiesKept(j) ==
    /\ DOMAIN job'[j].copy = DOMAIN job[j].copy
    /\ \A c \in DOMAIN job[j].copy : /\ IsChain(c, job'[j].copy[c])
                                     /\ DOMAIN job'[j].copy[c].nodes = DOMAIN job[j].copy[c].nodes

StoredFromCopy(j) ==
    /\ DOMAIN chains' = Chains
    /\ \A d \in Chains :
          \/ chains'[d] = chains[d]
          \/ /\ d \in DOMAIN job[j].copy /\ ~CurrentJ(j, d)'
             /\ IsChain(d, chains'[d]) /\ DOMAIN chains'[d].nodes = DOMAIN job[j].copy[d].nodes

NoSuccess(j) ==
    /\ DOMAIN applied' = Chains
    /\ \A d \in Chains : /\ CurrentJ(j, d)' => CurrentJ(j, d)
                         /\ applied[d] # "ok" => applied'[d] # "ok"
    /\ \A d \in Chains : job[j].pc = "deploy" /\ job[j].c = d /\ ~job[j].ok => applied'[d] # "ok"

WorkPlaced(j) ==
    /\ job[j].pc \in Listed => job[j].todo \subseteq DOMAIN job[j].copy
    /\ job[j].pc \in {"apply", "deploy"} => job[j].c \in DOMAIN job[j].copy \ job[j].todo

ListedStep(j) ==
    /\ job[j].pc \in Listed /\ job'[j].pc \in Listed \cup {"consume"}
    /\ Quiet(j) /\ UNCHANGED vps /\ Solo(j)'
    /\ CopiesKept(j) /\ StoredFromCopy(j) /\ NoSuccess(j) /\ WorkPlaced(j)' /\ Loop(j)'

LEMMA ListedB ==
    ASSUME Levelized = {}, AInv, BInv, NEW j \in Jobs, ListedStep(j)
    PROVE  BInv'
<1> USE DEF Listed, Ending
<1>0. ~Idle(j) /\ ~Idle(j)'
  BY DEF Idle, ListedStep
<1>1. /\ ChainShapes /\ CopiesCurrent(j) /\ SpareEditedJ(j) /\ CopiesPlaced(j)
  BY <1>0, JobB
<1>2. /\ job[j].pc \in Listed /\ job'[j].pc \in Listed \cup {"consume"}
      /\ Quiet(j) /\ UNCHANGED vps /\ Solo(j)'
      /\ CopiesKept(j) /\ StoredFromCopy(j) /\ NoSuccess(j) /\ WorkPlaced(j)' /\ Loop(j)'
  BY DEF ListedStep
<1>3. job'[j].spare = job[j].spare /\ job'[j].node = job[j].node
  BY <1>2 DEF Quiet
<1>4. DOMAIN job[j].copy = {c \in Chains : job[j].node \in Mem(c)}
  BY <1>1, <1>2 DEF CopiesPlaced
<1>5. \A c \in Chains : InChain(c)' = DOMAIN chains'[c].nodes /\ InChain(c) = DOMAIN chains[c].nodes
  BY Flat
<1>6. ChainShapes'
  BY <1>1, <1>2 DEF ChainShapes, StoredFromCopy, NoSuccess
<1>7. CopiesCurrent(j)'
  <2> SUFFICES ASSUME NEW c \in Chains, CurrentJ(j, c)', c \in DOMAIN job'[j].copy
               PROVE  DOMAIN job'[j].copy[c].nodes = InChain(c)'
    BY DEF CopiesCurrent
  <2>1. CurrentJ(j, c) /\ chains'[c] = chains[c] /\ c \in DOMAIN job[j].copy
    BY <1>2 DEF NoSuccess, StoredFromCopy, CopiesKept
  <2> QED BY <1>1, <1>2, <1>5, <2>1 DEF CopiesCurrent, CopiesKept
<1>8. SpareEditedJ(j)'
  <2> SUFFICES ASSUME NEW c \in Chains, job'[j].spare \in InChain(c)', job'[j].node \notin Mem(c)
               PROVE  applied'[c] # "ok"
    BY DEF SpareEditedJ
  <2>1. chains'[c] = chains[c]
    BY <1>2, <1>3, <1>4 DEF StoredFromCopy
  <2>2. applied[c] # "ok"
    BY <1>0, <1>1, <1>2, <1>3, <1>5, <2>1 DEF SpareEditedJ
  <2> QED BY <1>2, <2>2 DEF NoSuccess
<1>9. CopiesPlaced(j)'
  <2>1. DOMAIN job'[j].copy = {c \in Chains : job'[j].node \in Mem(c)}
    BY <1>2, <1>3, <1>4 DEF CopiesKept
  <2>2. ASSUME NEW c \in DOMAIN job'[j].copy
        PROVE  IsChain(c, job'[j].copy[c]) /\ DOMAIN job'[j].copy[c].nodes \subseteq InChain(c)'
    <3>1. /\ c \in DOMAIN job[j].copy /\ c \in Chains /\ IsChain(c, job'[j].copy[c])
          /\ DOMAIN job'[j].copy[c].nodes = DOMAIN job[j].copy[c].nodes
      BY <1>2, <1>4 DEF CopiesKept
    <3>2. DOMAIN job[j].copy[c].nodes \subseteq InChain(c)
      BY <1>1, <3>1 DEF CopiesPlaced
    <3>3. DOMAIN job[j].copy[c].nodes \subseteq InChain(c)'
      BY <1>2, <1>5, <3>1, <3>2 DEF StoredFromCopy
    <3> QED BY <3>1, <3>3
  <2> QED BY <1>2, <2>1, <2>2 DEF CopiesPlaced, WorkPlaced
<1>10. Rest(j)'
  BY <1>0, <1>2, <1>6, <1>7, <1>8, <1>9 DEF Rest
<1>11. QuietCurrent(j) /\ KeepsConfigs
  BY <1>2 DEF QuietCurrent, KeepsConfigs, NoSuccess, StoredFromCopy
<1>12. KeepsBroken(j)
  <2> SUFFICES ASSUME NEW m \in Ids, NEW d \in Chains, BrokenBy(j, m, d)
               PROVE  BrokenBy(j, m, d)'
    BY DEF KeepsBroken
  <2>1. m \in InChain(d) /\ (d \in DOMAIN job[j].copy => m \in DOMAIN job[j].copy[d].nodes)
    BY DEF BrokenBy
  <2>2. m \in InChain(d)' /\ (d \in DOMAIN job'[j].copy => m \in DOMAIN job'[j].copy[d].nodes)
    BY <1>2, <1>5, <2>1 DEF StoredFromCopy, CopiesKept
  <2>3. applied'[d] # "ok"
    BY <1>2 DEF BrokenBy, NoSuccess
  <2> QED BY <2>2, <2>3 DEF BrokenBy
<1>13. \A c \in Chains : TaintedIn(j, c) => TaintedIn(j, c)'
  BY <1>2, <1>3 DEF TaintedIn, Tainted, CopiesKept
<1> QED BY <1>0, <1>2, <1>10, <1>11, <1>12, <1>13, QuietB

\* The context of a step on the copies.
LEMMA ListedFacts ==
    ASSUME Levelized = {}, AInv, BInv, NEW j \in Jobs, job[j].pc \in Listed
    PROVE  /\ Shapes /\ Solo(j) /\ ChainShapes /\ ~Idle(j)
           /\ job[j].node \in Nodes /\ DOMAIN job[j].copy = {c \in Chains : job[j].node \in Mem(c)}
           /\ \A c \in DOMAIN job[j].copy : IsChain(c, job[j].copy[c])
           /\ WorkPlaced(j) /\ Loop(j)
<1>1. ~Idle(j)
  BY DEF Idle, Listed
<1>2. Shapes /\ Solo(j) /\ ChainShapes /\ CopiesPlaced(j) /\ Loop(j) /\ job[j].node \in Nodes
  BY <1>1, JobB
<1> QED BY <1>1, <1>2 DEF CopiesPlaced, WorkPlaced

LEMMA SaveSnapshotB == ASSUME Levelized = {}, AInv, BInv, NEW j \in Jobs, SaveSnapshot(j) PROVE BInv'
<1> USE DEF Listed
<1>0. job[j].pc = "snap"
  BY DEF SaveSnapshot
<1>1. /\ Shapes /\ Solo(j) /\ ChainShapes
      /\ DOMAIN job[j].copy = {c \in Chains : job[j].node \in Mem(c)}
      /\ \A c \in DOMAIN job[j].copy : IsChain(c, job[j].copy[c])
      /\ WorkPlaced(j)
  BY <1>0, ListedFacts
<1>2. /\ Moves(j, {"pc", "todo"}) /\ UNCHANGED << hosts, infos, vps, applied >>
      /\ job'[j].node = job[j].node /\ job'[j].spare = job[j].spare /\ job'[j].copy = job[j].copy
  BY <1>1, SaveSnapshotFacts, MovesFields
<1>3. Solo(j)'
  BY <1>1, <1>2, SoloMoves
<1>4. CopiesKept(j)
  BY <1>1, <1>2 DEF CopiesKept
<1>5. DOMAIN applied' = Chains
  BY <1>1, <1>2 DEF ChainShapes
<1>6. CASE /\ job[j].todo = {} /\ job'[j].pc = "resolve" /\ job'[j].todo = DOMAIN job[j].copy
           /\ UNCHANGED chains
  <2>1. \A d \in Chains : TodoOf(j, d)' <=> TodoOf(j, d)
    BY <1>0, <1>1, <1>2, <1>6 DEF TodoOf
  <2>2. StoredFromCopy(j) /\ NoSuccess(j)
    BY <1>0, <1>1, <1>2, <1>5, <1>6, <2>1 DEF StoredFromCopy, NoSuccess, CurrentJ, ChainShapes
  <2>3. Quiet(j) /\ WorkPlaced(j)' /\ Loop(j)'
    BY <1>0, <1>2, <1>6 DEF Quiet, WorkPlaced, Loop
  <2> QED BY <1>0, <1>2, <1>3, <1>4, <1>6, <2>2, <2>3, ListedB DEF ListedStep
<1>7. ASSUME NEW c \in job[j].todo, SaveChain(c, job[j].copy[c]),
             job'[j].pc = "snap", job'[j].todo = job[j].todo \ {c}
      PROVE  BInv'
  <2>1. c \in DOMAIN job[j].copy /\ c \in Chains /\ IsChain(c, job[j].copy[c])
    BY <1>0, <1>1 DEF WorkPlaced
  <2>2. /\ DOMAIN chains' = Chains /\ IsChain(c, chains'[c]) /\ chains'[c].nodes = job[j].copy[c].nodes
        /\ \A d \in Chains : d # c => chains'[d] = chains[d]
    BY <1>1, <1>7, <2>1, SaveChainFacts
  <2>3. \A d \in Chains : TodoOf(j, d)' <=> TodoOf(j, d)
    BY <1>0, <1>2, <1>7 DEF TodoOf
  <2>4. TodoOf(j, c)'
    BY <1>1, <1>2, <1>7, <2>1 DEF TodoOf
  <2>5. StoredFromCopy(j)
    BY <2>1, <2>2, <2>4 DEF StoredFromCopy, CurrentJ
  <2>6. NoSuccess(j)
    BY <1>0, <1>2, <1>5, <2>3 DEF NoSuccess, CurrentJ
  <2>7. Quiet(j) /\ WorkPlaced(j)' /\ Loop(j)'
    BY <1>0, <1>1, <1>2, <1>7 DEF Quiet, WorkPlaced, Loop
  <2> QED BY <1>0, <1>2, <1>3, <1>4, <1>7, <2>5, <2>6, <2>7, ListedB DEF ListedStep
<1> QED BY <1>1, <1>6, <1>7, SaveSnapshotFacts

LEMMA ResolveB == ASSUME Levelized = {}, AInv, BInv, NEW j \in Jobs, Resolve(j) PROVE BInv'
<1> USE DEF Listed
<1>0. job[j].pc = "resolve"
  BY DEF Resolve
<1>1. /\ Shapes /\ Solo(j) /\ ChainShapes
      /\ DOMAIN job[j].copy = {c \in Chains : job[j].node \in Mem(c)}
      /\ \A c \in DOMAIN job[j].copy : IsChain(c, job[j].copy[c])
      /\ WorkPlaced(j)
  BY <1>0, ListedFacts
<1>2. PICK c \in job[j].todo :
           /\ Moves(j, {"pc", "c", "copy", "todo"}) /\ job[j].pc = "resolve"
           /\ job'[j].todo = job[j].todo \ {c}
           /\ UNCHANGED << hosts, infos, chains, vps, beside >>
           /\ \/ /\ \A m \in DOMAIN AllNodes(c, job[j].copy[c]) : hosts[m] # NoOne
                 /\ job'[j].pc = "apply" /\ job'[j].c = c
                 /\ job'[j].copy = [job[j].copy EXCEPT ![c] = ResolvedCopy(c, job[j].copy[c])]
                 /\ UNCHANGED applied
              \/ /\ job'[j].pc = "resolve" /\ job'[j].copy = job[j].copy
                 /\ applied' = [applied EXCEPT ![c] = "failed"]
  BY <1>1, ResolveFacts
<1>3. job'[j].node = job[j].node /\ job'[j].spare = job[j].spare
  BY <1>2, MovesFields
<1>4. Solo(j)'
  BY <1>1, <1>2, SoloMoves
<1>5. c \in DOMAIN job[j].copy /\ c \in Chains /\ job[j].todo \subseteq DOMAIN job[j].copy
  BY <1>0, <1>1, <1>2 DEF WorkPlaced
<1>6. CASE /\ \A m \in DOMAIN AllNodes(c, job[j].copy[c]) : hosts[m] # NoOne
           /\ job'[j].pc = "apply" /\ job'[j].c = c
           /\ job'[j].copy = [job[j].copy EXCEPT ![c] = ResolvedCopy(c, job[j].copy[c])]
           /\ UNCHANGED applied
  <2> DEFINE old == job[j].copy[c]
             t == [m \in DOMAIN old.nodes |-> hosts[m]]
             new == [old EXCEPT !.nodes = t]
  <2>1. new = ResolvedCopy(c, old) /\ \A m \in DOMAIN old.nodes : hosts[m] # NoOne
    BY <1>6, Flat DEF ResolvedCopy
  <2>2. IsChain(c, old)
    BY <1>1, <1>5
  <2>3. t = [m \in DOMAIN t |-> t[m]] /\ DOMAIN t = DOMAIN old.nodes
    OBVIOUS
  <2>4. \A m \in DOMAIN t : t[m] = hosts[m] /\ t[m] # NoOne
    BY <2>1
  <2> HIDE DEF t
  <2>5. DOMAIN new = ChainFields /\ new.nodes = t
    BY <2>2 DEF IsChain, ChainFields
  <2>6. IsChain(c, new)
    BY <2>2, <2>3, <2>5 DEF IsChain
  <2> HIDE DEF new
  <2>7. job'[j].copy[c] = new /\ DOMAIN job'[j].copy = DOMAIN job[j].copy
        /\ \A d \in DOMAIN job[j].copy : d # c => job'[j].copy[d] = job[j].copy[d]
    BY <1>5, <1>6, <2>1
  <2>8. CopiesKept(j)
    BY <1>1, <2>3, <2>5, <2>6, <2>7 DEF CopiesKept
  <2>9. \A d \in Chains : TodoOf(j, d)' <=> TodoOf(j, d)
    BY <1>0, <1>1, <1>2, <1>3, <1>5, <1>6 DEF TodoOf
  <2>10. StoredFromCopy(j)
    BY <1>1, <1>2 DEF StoredFromCopy, ChainShapes
  <2>11. NoSuccess(j)
    BY <1>0, <1>1, <1>6, <2>9 DEF NoSuccess, CurrentJ, ChainShapes
  <2>12. Loop(j)'
    BY <1>2, <1>6, <2>4, <2>5, <2>7 DEF Loop, Located
  <2>13. WorkPlaced(j)'
    BY <1>2, <1>5, <1>6, <2>7 DEF WorkPlaced
  <2>14. Quiet(j)
    BY <1>0, <1>2, <1>3, <1>6 DEF Quiet
  <2> QED BY <1>0, <1>2, <1>4, <1>6, <2>8, <2>10, <2>11, <2>12, <2>13, <2>14, ListedB DEF ListedStep
<1>7. CASE /\ job'[j].pc = "resolve" /\ job'[j].copy = job[j].copy
           /\ applied' = [applied EXCEPT ![c] = "failed"]
  <2>1. /\ DOMAIN applied' = Chains /\ applied'[c] # "ok"
        /\ \A d \in Chains : d # c => applied'[d] = applied[d]
    BY <1>1, <1>5, <1>7 DEF ChainShapes
  <2>2. \A d \in Chains : d # c => (TodoOf(j, d)' <=> TodoOf(j, d))
    BY <1>0, <1>2, <1>3, <1>7 DEF TodoOf
  <2>3. NoSuccess(j)
    BY <1>0, <2>1, <2>2 DEF NoSuccess, CurrentJ
  <2>4. StoredFromCopy(j) /\ CopiesKept(j)
    BY <1>1, <1>2, <1>7 DEF StoredFromCopy, ChainShapes, CopiesKept
  <2>5. Loop(j)' /\ WorkPlaced(j)' /\ Quiet(j)
    BY <1>0, <1>2, <1>3, <1>5, <1>7 DEF Loop, WorkPlaced, Quiet
  <2> QED BY <1>0, <1>2, <1>4, <1>7, <2>3, <2>4, <2>5, ListedB DEF ListedStep
<1> QED BY <1>2, <1>6, <1>7

LEMMA FiniteMembers ==
    ASSUME NEW c \in Chains, NEW ch, IsChain(c, ch)
    PROVE  IsFiniteSet(DOMAIN ch.nodes)
<1>1. IsFiniteSet(Ids)
  BY RelocationAssumption, FS_Union DEF Ids
<1> QED BY <1>1, FS_Subset DEF IsChain

LEMMA PreflightB == ASSUME Levelized = {}, AInv, BInv, NEW j \in Jobs, Preflight(j) PROVE BInv'
<1> USE DEF Listed
<1>0. job[j].pc = "apply"
  BY DEF Preflight
<1>1. /\ Shapes /\ Solo(j) /\ ChainShapes
      /\ DOMAIN job[j].copy = {c \in Chains : job[j].node \in Mem(c)}
      /\ \A c \in DOMAIN job[j].copy : IsChain(c, job[j].copy[c])
      /\ WorkPlaced(j) /\ Loop(j)
  BY <1>0, ListedFacts
<1> DEFINE c == job[j].c
           old == job[j].copy[c]
           ch == [old EXCEPT !.nodes = Targets(j)]
<1>2. /\ Moves(j, {"pc", "c", "copy", "i", "ok"}) /\ UNCHANGED << hosts, infos, vps >>
      /\ \/ /\ SaveChain(c, ch) /\ job'[j].copy = [job[j].copy EXCEPT ![c] = ch]
            /\ job'[j].c = c /\ job'[j].i = 1 /\ job'[j].ok /\ job'[j].pc = "deploy"
            /\ UNCHANGED applied
         \/ /\ job'[j].pc = "resolve" /\ job'[j].copy = job[j].copy
            /\ applied' = [applied EXCEPT ![c] = "failed"] /\ UNCHANGED chains
  BY <1>1, PreflightFacts
<1>3. job'[j].node = job[j].node /\ job'[j].spare = job[j].spare /\ job'[j].todo = job[j].todo
  BY <1>2, MovesFields
<1>4. Solo(j)'
  BY <1>1, <1>2, SoloMoves
<1>5. /\ c \in DOMAIN job[j].copy /\ c \in Chains /\ job[j].todo \subseteq DOMAIN job[j].copy
      /\ c \notin job[j].todo /\ IsChain(c, old)
  BY <1>0, <1>1 DEF WorkPlaced
<1>6. Targets(j) = old.nodes /\ Located(old.nodes)
  BY <1>0, <1>1, Flat DEF Targets, Loop
<1>7. IsChain(c, ch) /\ ch.nodes = old.nodes
  BY <1>5, <1>6 DEF IsChain, ChainFields
<1> HIDE DEF ch
<1>8. CASE /\ SaveChain(c, ch) /\ job'[j].copy = [job[j].copy EXCEPT ![c] = ch]
           /\ job'[j].c = c /\ job'[j].i = 1 /\ job'[j].ok /\ job'[j].pc = "deploy"
           /\ UNCHANGED applied
  <2>1. /\ DOMAIN chains' = Chains /\ IsChain(c, chains'[c]) /\ chains'[c].nodes = old.nodes
        /\ \A d \in Chains : d # c => chains'[d] = chains[d]
    BY <1>1, <1>5, <1>7, <1>8, SaveChainFacts
  <2>2. /\ job'[j].copy[c] = ch /\ DOMAIN job'[j].copy = DOMAIN job[j].copy
        /\ \A d \in DOMAIN job[j].copy : d # c => job'[j].copy[d] = job[j].copy[d]
    BY <1>5, <1>8
  <2>3. \A d \in Chains : TodoOf(j, d)' <=> TodoOf(j, d)
    BY <1>0, <1>3, <1>8 DEF TodoOf
  <2>4. TodoOf(j, c)'
    BY <1>1, <1>3, <1>5, <1>8 DEF TodoOf
  <2>5. CopiesKept(j)
    BY <1>1, <1>7, <2>2 DEF CopiesKept
  <2>6. StoredFromCopy(j)
    BY <1>5, <1>8, <2>1, <2>4 DEF StoredFromCopy, CurrentJ
  <2>7. NoSuccess(j)
    BY <1>0, <1>1, <1>8, <2>3 DEF NoSuccess, CurrentJ, ChainShapes
  <2>8. WorkPlaced(j)' /\ Quiet(j)
    BY <1>0, <1>2, <1>3, <1>5, <1>8, <2>2 DEF WorkPlaced, Quiet
  <2>9. Located(job[j].copy[job[j].c].nodes)'
    BY <1>2, <1>6, <1>7, <1>8, <2>2 DEF Located
  <2>10. \A k \in DOMAIN Order(j)' : ~(k < job'[j].i)
    <3>1. DOMAIN Order(j)' \subseteq Nat \ {0}
      <4>1. DOMAIN Targets(j)' = DOMAIN old.nodes
        BY <1>7, <1>8, <2>2, Flat DEF Targets
      <4>2. IsFiniteSet(DOMAIN old.nodes)
        BY <1>5, FiniteMembers
      <4> QED BY <4>1, <4>2, OrderFacts DEF Order
    <3> QED BY <1>8, <3>1
  <2>11. Loop(j)'
    <3>1. job'[j].i \in Nat \ {0}
      BY <1>8
    <3> QED BY <2>9, <2>10, <3>1 DEF Loop
  <2> QED BY <1>0, <1>2, <1>4, <1>8, <2>5, <2>6, <2>7, <2>8, <2>11, ListedB DEF ListedStep
<1>9. CASE /\ job'[j].pc = "resolve" /\ job'[j].copy = job[j].copy
           /\ applied' = [applied EXCEPT ![c] = "failed"] /\ UNCHANGED chains
  <2>1. /\ DOMAIN applied' = Chains /\ applied'[c] # "ok"
        /\ \A d \in Chains : d # c => applied'[d] = applied[d]
    BY <1>1, <1>5, <1>9 DEF ChainShapes
  <2>2. \A d \in Chains : d # c => (TodoOf(j, d)' <=> TodoOf(j, d))
    BY <1>0, <1>3, <1>9 DEF TodoOf
  <2>3. NoSuccess(j)
    BY <1>0, <2>1, <2>2 DEF NoSuccess, CurrentJ
  <2>4. StoredFromCopy(j) /\ CopiesKept(j)
    BY <1>1, <1>9 DEF StoredFromCopy, ChainShapes, CopiesKept
  <2>5. Loop(j)' /\ WorkPlaced(j)' /\ Quiet(j)
    BY <1>0, <1>2, <1>3, <1>5, <1>9 DEF Loop, WorkPlaced, Quiet
  <2> QED BY <1>0, <1>2, <1>4, <1>9, <2>3, <2>4, <2>5, ListedB DEF ListedStep
<1> QED BY <1>2, <1>8, <1>9

\* What the loop over the nodes has in hand.
LEMMA DeployFacts ==
    ASSUME Levelized = {}, AInv, BInv, NEW j \in Jobs, job[j].pc = "deploy"
    PROVE  LET c == job[j].c
               t == job[j].copy[c].nodes IN
           /\ c \in Chains /\ c \in DOMAIN job[j].copy /\ c \notin job[j].todo
           /\ job[j].node \in Mem(c) /\ IsChain(c, job[j].copy[c])
           /\ Targets(j) = t /\ Located(t) /\ DOMAIN t \subseteq InChain(c) /\ DOMAIN t \subseteq Ids
           /\ Order(j) \in [1..Len(Order(j)) -> DOMAIN t] /\ Len(Order(j)) \in Nat
           /\ \A m \in DOMAIN t : \E k \in 1..Len(Order(j)) : Order(j)[k] = m
           /\ job[j].i \in Nat \ {0} /\ TodoOf(j, c)
<1> USE DEF Listed
<1> DEFINE c == job[j].c
           t == job[j].copy[c].nodes
<1>1. ~Idle(j)
  BY DEF Idle
<1>2. CopiesPlaced(j) /\ Loop(j) /\ ChainShapes
  BY <1>1, JobB
<1>3. /\ c \in DOMAIN job[j].copy /\ c \in Chains /\ c \notin job[j].todo /\ job[j].node \in Mem(c)
      /\ IsChain(c, job[j].copy[c]) /\ DOMAIN t \subseteq InChain(c)
  BY <1>2 DEF CopiesPlaced
<1>4. Targets(j) = t
  BY Flat DEF Targets
<1>5. Located(t) /\ job[j].i \in Nat \ {0}
  BY <1>2 DEF Loop
<1>6. DOMAIN t \subseteq Ids /\ IsFiniteSet(DOMAIN t)
  BY <1>3, FiniteMembers DEF IsChain
<1>7. /\ Order(j) \in [1..Cardinality(DOMAIN t) -> DOMAIN t] /\ Cardinality(DOMAIN t) \in Nat
      /\ \A m \in DOMAIN t : \E k \in 1..Cardinality(DOMAIN t) : Order(j)[k] = m
  <2>1. Order(j) = SetToSeq(DOMAIN t)
    BY <1>4 DEF Order
  <2>2. /\ SetToSeq(DOMAIN t) \in [1..Cardinality(DOMAIN t) -> DOMAIN t] /\ Cardinality(DOMAIN t) \in Nat
        /\ \A m \in DOMAIN t : \E k \in 1..Cardinality(DOMAIN t) : SetToSeq(DOMAIN t)[k] = m
    BY <1>6, OrderFacts, Zenon
  <2> QED BY <2>1, <2>2, Zenon
<1>8. Len(Order(j)) = Cardinality(DOMAIN t)
  <2> DEFINE o == Order(j)
             k == Cardinality(DOMAIN t)
  <2>1. o \in [1..k -> DOMAIN t] /\ k \in Nat
    BY <1>7
  <2> HIDE DEF o, k
  <2>2. Len(o) = k
    BY <2>1
  <2> QED BY <2>2 DEF o, k
<1>9. TodoOf(j, c)
  BY <1>3 DEF TodoOf
<1> QED BY <1>3, <1>4, <1>5, <1>6, <1>7, <1>8, <1>9

LEMMA FinishB == ASSUME Levelized = {}, AInv, BInv, NEW j \in Jobs, j # Operator, Finish(j) PROVE BInv'
<1> USE DEF Listed
<1>0. job[j].pc = "resolve" /\ job[j].todo = {}
  BY DEF Finish
<1>1. /\ Shapes /\ Solo(j) /\ ChainShapes
      /\ DOMAIN job[j].copy = {c \in Chains : job[j].node \in Mem(c)}
      /\ \A c \in DOMAIN job[j].copy : IsChain(c, job[j].copy[c])
  BY <1>0, ListedFacts
<1>2. /\ Moves(j, {"pc"}) /\ UNCHANGED << hosts, infos, chains, vps, applied >> /\ job'[j].pc = "consume"
      /\ job'[j].node = job[j].node /\ job'[j].spare = job[j].spare /\ job'[j].copy = job[j].copy
  BY <1>1, FinishFacts, MovesFields
<1>3. Solo(j)'
  BY <1>1, <1>2, SoloMoves
<1>4. \A d \in Chains : ~TodoOf(j, d)' /\ ~TodoOf(j, d)
  BY <1>0, <1>2 DEF TodoOf
<1>5. NoSuccess(j)
  BY <1>0, <1>1, <1>2, <1>4 DEF NoSuccess, CurrentJ, ChainShapes
<1>6. StoredFromCopy(j) /\ CopiesKept(j)
  BY <1>1, <1>2 DEF StoredFromCopy, ChainShapes, CopiesKept
<1>7. Loop(j)' /\ WorkPlaced(j)' /\ Quiet(j)
  BY <1>0, <1>2 DEF Loop, WorkPlaced, Quiet
<1> QED BY <1>0, <1>2, <1>3, <1>5, <1>6, <1>7, ListedB DEF ListedStep

\* Two members of the fleet with one address are a node and a spare that it took.
LEMMA Clash ==
    ASSUME AInv, NEW j \in Jobs, job[j].pc = "deploy",
           NEW x \in Ids, NEW y \in Ids, x # y, hosts[x] = hosts[y], hosts[x] # NoOne
    PROVE  \E n \in Nodes, s \in Spares :
              /\ (x = n /\ y = s) \/ (x = s /\ y = n)
              /\ hosts[n] = s /\ hosts[s] = s
              /\ infos[s] = NoOne \/ (job[j].node = n /\ job[j].spare = s)
<1>1. /\ \A m \in Nodes : \A n \in Nodes : m # n => hosts[m] # hosts[n]
      /\ \A s \in Spares : hosts[s] \in {s, NoOne}
      /\ Ids = Nodes \cup Spares
  BY Names DEF AInv, Apart, SparesAtHome
<1>2. PICK n \in Nodes, s \in Spares : (x = n /\ y = s) \/ (x = s /\ y = n)
  BY <1>1
<1>3. hosts[n] = s /\ hosts[s] = s
  BY <1>1, <1>2
<1>4. ~Idle(j)
  BY DEF Idle
<1>5. \A i \in Jobs : i # j => job[i].pc = "none"
  BY <1>4, JobFacts DEF Idle
<1>6. infos[s] = NoOne \/ \E i \in Jobs : UsesSpare(i, n, s)
  BY <1>3 DEF AInv, PoolFree
<1>7. infos[s] = NoOne \/ (job[j].node = n /\ job[j].spare = s)
  BY <1>5, <1>6 DEF UsesSpare, Early, Listed
<1> QED BY <1>2, <1>3, <1>7

LEMMA DeployNodeB == ASSUME Levelized = {}, AInv, BInv, NEW j \in Jobs, DeployNode(j) PROVE BInv'
<1> USE DEF Listed
<1>0. job[j].pc = "deploy" /\ ~Idle(j)
  BY DEF DeployNode, Idle
<1>1. /\ Shapes /\ Solo(j) /\ ChainShapes /\ CopiesCurrent(j) /\ SpareEditedJ(j) /\ CopiesPlaced(j) /\ Loop(j)
      /\ StoreCurrent /\ Deployed /\ job[j].node \in Nodes
  BY <1>0, JobB
<1>2. PICK c \in Chains : c = job[j].c
  BY <1>0, DeployFacts
<1> DEFINE t == job[j].copy[c].nodes
<1>3. /\ c \in DOMAIN job[j].copy /\ Targets(j) = t /\ Located(t) /\ TodoOf(j, c)
      /\ DOMAIN t \subseteq InChain(c) /\ DOMAIN t \subseteq Ids
      /\ Order(j) \in [1..Len(Order(j)) -> DOMAIN t] /\ Len(Order(j)) \in Nat /\ job[j].i \in Nat \ {0}
  BY <1>0, <1>2, DeployFacts
<1>4. PICK m : m = Order(j)[job[j].i]
  OBVIOUS
<1>5. PICK v : v = t[m]
  OBVIOUS
<1>6. /\ Moves(j, {"i", "ok"}) /\ job[j].i <= Len(Order(j)) /\ job'[j].i = job[j].i + 1
      /\ UNCHANGED << hosts, infos, chains, applied >>
      /\ \/ /\ vps' = [vps EXCEPT ![v] = RunningConfig(m, Rendered(j, m))]
            /\ job'[j].ok = job[j].ok
         \/ /\ UNCHANGED vps \/ vps' = [vps EXCEPT ![v] = MinimalConfig]
            /\ job'[j].ok = FALSE
  BY <1>1, <1>3, <1>4, <1>5, DeployNodeFacts
<1>7. /\ job'[j].pc = job[j].pc /\ job'[j].node = job[j].node /\ job'[j].spare = job[j].spare
      /\ job'[j].copy = job[j].copy /\ job'[j].todo = job[j].todo /\ job'[j].c = job[j].c
  BY <1>6, MovesFields
<1>8. m \in DOMAIN t /\ m \in Ids /\ v = hosts[m] /\ v # NoOne /\ v \in VPS /\ m # NoOne
  <2>1. job[j].i \in 1..Len(Order(j))
    BY <1>3, <1>6
  <2>2. m \in DOMAIN t /\ m \in Ids
    BY <1>3, <1>4, <2>1
  <2>3. v = hosts[m] /\ v # NoOne
    BY <1>3, <1>5, <2>2 DEF Located
  <2> QED BY <1>1, <2>2, <2>3, Names DEF Shapes
<1>9. Solo(j)' /\ \A i \in Jobs : i # j => job'[i] = job[i]
  BY <1>1, <1>6, SoloMoves DEF Moves
<1>10. /\ \A d \in Chains : InChain(d)' = InChain(d) /\ InChain(d) = DOMAIN chains[d].nodes
       /\ \A d \in Chains : CurrentJ(j, d)' <=> CurrentJ(j, d)
  BY <1>6, <1>7, Flat DEF CurrentJ, TodoOf
<1>11. \A S \in SUBSET Ids : BurntIn(S)' <=> BurntIn(S)
  BY <1>6, <1>7, <1>9 DEF BurntIn, Burnt, Consuming
<1>12. (Tainted(j)' <=> Tainted(j)) /\ (BurntIn(DOMAIN t)' <=> BurntIn(DOMAIN t))
  BY <1>6, <1>7, <1>9 DEF Tainted, BurntIn, Burnt, Consuming
<1>13. /\ c \in GetChainsForNode(m) /\ Rendered(j, m)[c] = t
       /\ \A d \in Chains : m \in InChain(d) /\ d # c => Rendered(j, m)[d] = chains[d].nodes
  <2>1. Rendered(j, m) = [d \in GetChainsForNode(m) |-> IF d = c THEN t ELSE chains[d].nodes]
    BY <1>2, <1>3, Flat DEF Rendered
  <2>2. GetChainsForNode(m) = {d \in Chains : m \in InChain(d)}
    BY DEF GetChainsForNode
  <2> QED BY <1>3, <1>8, <2>1, <2>2
<1>14. /\ \A w \in VPS : w # v => vps'[w] = vps[w]
       /\ \/ job'[j].ok = job[j].ok /\ vps'[v].id = m /\ vps'[v].peers = Rendered(j, m)
          \/ job'[j].ok = FALSE /\ (vps'[v] = vps[v] \/ vps'[v].id = NoOne)
  <2>1. DOMAIN vps = VPS
    BY <1>1 DEF ChainShapes
  <2> QED BY <1>6, <1>8, <2>1 DEF RunningConfig, MinimalConfig
<1>15. ChainShapes'
  <2>1. DOMAIN vps' = VPS /\ \A w \in VPS : DOMAIN vps'[w] = {"up", "runs", "id", "peers"}
    BY <1>1, <1>6, <1>8 DEF ChainShapes, RunningConfig, MinimalConfig
  <2> QED BY <1>1, <1>6, <2>1 DEF ChainShapes
\* Another member with the address.
<1>16. ASSUME NEW x \in Ids, x # m, hosts[x] = v
       PROVE  \E n \in Nodes, s \in Spares :
                 /\ (x = n /\ m = s) \/ (x = s /\ m = n)
                 /\ hosts[n] = s /\ hosts[s] = s
                 /\ infos[s] = NoOne \/ (job[j].node = n /\ job[j].spare = s)
  BY <1>0, <1>8, <1>16, Clash
<1>17. ASSUME NEW x \in Ids, x # m, hosts[x] = v, NEW d \in Chains, CurrentJ(j, d), x \in InChain(d)
       PROVE  Excused(d)
  <2>1. PICK n \in Nodes, s \in Spares :
                 /\ (x = n /\ m = s) \/ (x = s /\ m = n)
                 /\ hosts[n] = s /\ hosts[s] = s
                 /\ infos[s] = NoOne \/ (job[j].node = n /\ job[j].spare = s)
    BY <1>16, <1>17
  <2>2. InChain(d) \subseteq Ids
    BY <1>1, <1>10 DEF ChainShapes, IsChain
  <2>3. CASE infos[s] = NoOne
    <3>1. BurntInJ(j, InChain(d))
      BY <1>0, <1>8, <1>17, <2>1, <2>3 DEF BurntInJ, Consuming
    <3> QED BY <1>1, <2>2, <3>1, SoloViews
  <2>4. CASE job[j].node = n /\ job[j].spare = s /\ x = n /\ m = s
    <3>1. Tainted(j)
      BY <1>3, <1>8, <2>4 DEF Tainted
    <3>2. job[j].node \in Mem(d)
      BY <1>1, <1>17, <2>4, NodeIn
    <3> QED BY <1>0, <1>1, <3>1, <3>2, SoloViews DEF TaintedIn
  <2>5. CASE job[j].node = n /\ job[j].spare = s /\ x = s /\ m = n
    <3>1. job[j].node \in Mem(d)
      BY <1>0, <1>1, <1>17, <2>5 DEF SpareEditedJ, CurrentJ
    <3>2. d \in DOMAIN job[j].copy
      BY <1>0, <1>1, <3>1 DEF CopiesPlaced
    <3>3. Tainted(j)
      BY <1>1, <1>17, <2>5, <3>2 DEF CopiesCurrent, Tainted
    <3> QED BY <1>0, <1>1, <3>1, <3>3, SoloViews DEF TaintedIn
  <2> QED BY <2>1, <2>3, <2>4, <2>5
<1>18. Deployed'
  <2> SUFFICES ASSUME NEW d \in Chains, Current(d)', ~Excused(d)', NEW x \in InChain(d)'
               PROVE  RunsAt(x, hosts[x], d)' \/ BareAt(x, hosts[x])'
    BY DEF Deployed
  <2>1. CurrentJ(j, d) /\ Current(d) /\ d # c /\ x \in InChain(d) /\ InChain(d) \subseteq Ids
    <3>1. CurrentJ(j, d)
      BY <1>9, <1>10, SoloViewsNext
    <3> QED BY <1>1, <1>3, <1>10, <3>1, SoloViews DEF CurrentJ, ChainShapes, IsChain
  <2>2. ~Excused(d)
    BY <1>1, <1>7, <1>9, <1>10, <1>11, <1>12, <2>1, SoloViews, SoloViewsNext DEF TaintedIn
  <2>3. \A y \in Ids : Broken(y) => Broken(y)'
    <3>1. \A y \in Ids, e \in Chains : BrokenBy(j, y, e) => BrokenBy(j, y, e)'
      BY <1>6, <1>7, <1>10 DEF BrokenBy
    <3> QED BY <1>1, <1>9, <3>1, SoloViews, SoloViewsNext
  <2>4. RunsAt(x, hosts[x], d) \/ BareAt(x, hosts[x])
    BY <1>1, <2>1, <2>2 DEF Deployed
  <2>5. x = m \/ hosts[x] # v
    BY <1>17, <2>1, <2>2
  <2>6. hosts[x] \in VPS /\ x \in Ids
    BY <1>1, <1>10, <2>1 DEF StoreCurrent, Located, Shapes
  <2>7. CASE hosts[x] # v
    BY <1>6, <1>14, <2>3, <2>4, <2>6, <2>7 DEF RunsAt, BareAt
  <2>8. CASE x = m
    <3>1. CASE job'[j].ok = job[j].ok /\ vps'[v].id = m /\ vps'[v].peers = Rendered(j, m)
      BY <1>6, <1>8, <1>13, <2>1, <2>8, <3>1 DEF RunsAt
    <3>2. CASE job'[j].ok = FALSE /\ vps'[v] = vps[v]
      BY <1>6, <1>8, <2>3, <2>4, <2>6, <2>8, <3>2 DEF RunsAt, BareAt
    <3>3. CASE job'[j].ok = FALSE /\ vps'[v].id = NoOne
      <4>1. BrokenBy(j, m, c)'
        BY <1>0, <1>2, <1>3, <1>7, <1>8, <1>10, <3>3 DEF BrokenBy
      <4>2. Broken(m)'
        BY <1>8, <1>9, <4>1, SoloViewsNext
      <4> QED BY <1>6, <1>8, <2>8, <3>3, <4>2 DEF BareAt
    <3> QED BY <1>14, <3>1, <3>2, <3>3
  <2> QED BY <2>5, <2>7, <2>8
<1>19. Loop(j)'
  <2>1. Order(j)' = Order(j) /\ Located(t)'
    BY <1>3, <1>6, <1>7 DEF Order, Targets, Located, AllNodes
  <2>2. ASSUME job'[j].ok, NEW k \in DOMAIN Order(j), k < job'[j].i
        PROVE  LET x == Order(j)[k] IN
               /\ vps'[t[x]].id # NoOne
               /\ \/ BurntIn(DOMAIN t)' \/ Tainted(j)'
                  \/ vps'[t[x]].id = x /\ vps'[t[x]].peers[c] = t
    <3> DEFINE x == Order(j)[k]
    <3>1. job[j].ok /\ vps'[v].id = m /\ vps'[v].peers = Rendered(j, m)
      BY <1>14, <2>2
    <3>2. x \in DOMAIN t /\ x \in Ids /\ t[x] = hosts[x] /\ t[x] \in VPS /\ k \in Nat
      BY <1>1, <1>3 DEF Located, Shapes
    <3>3. CASE x = m
      BY <1>5, <1>8, <1>13, <3>1, <3>3
    <3>4. CASE x # m /\ t[x] = v
      <4>1. PICK n \in Nodes, s \in Spares :
                 /\ (x = n /\ m = s) \/ (x = s /\ m = n)
                 /\ hosts[n] = s /\ hosts[s] = s
                 /\ infos[s] = NoOne \/ (job[j].node = n /\ job[j].spare = s)
        BY <1>16, <3>2, <3>4
      <4>2. CASE infos[s] = NoOne
        <5>1. BurntInJ(j, DOMAIN t)
          BY <1>0, <1>8, <3>2, <3>4, <4>1, <4>2 DEF BurntInJ, Consuming
        <5>2. BurntIn(DOMAIN t)
          BY <1>1, <1>3, <5>1, SoloViews
        <5> QED BY <1>8, <1>12, <3>1, <3>4, <5>2
      <4>3. CASE job[j].spare = s
        BY <1>3, <1>8, <1>12, <3>1, <3>2, <3>4, <4>1, <4>3 DEF Tainted
      <4> QED BY <4>1, <4>2, <4>3
    <3>5. CASE t[x] # v
      <4>1. k # job[j].i
        BY <1>4, <1>5, <3>5
      <4>2. k < job[j].i
        BY <1>3, <1>6, <2>2, <3>2, <4>1
      <4>3. /\ vps[t[x]].id # NoOne
            /\ BurntIn(DOMAIN t) \/ Tainted(j) \/ (vps[t[x]].id = x /\ vps[t[x]].peers[c] = t)
        BY <1>0, <1>1, <1>2, <2>2, <3>1, <4>2 DEF Loop
      <4> QED BY <1>3, <1>12, <1>14, <3>2, <3>5, <4>3
    <3> QED BY <3>3, <3>4, <3>5
  <2>3. job'[j].copy[job'[j].c].nodes = t /\ job'[j].c = c /\ job'[j].i \in Nat \ {0}
    BY <1>2, <1>3, <1>6, <1>7
  <2> QED BY <2>1, <2>2, <2>3 DEF Loop
<1>20. CopiesCurrent(j)' /\ SpareEditedJ(j)'
  BY <1>0, <1>1, <1>6, <1>7, <1>10 DEF CopiesCurrent, SpareEditedJ
<1>21. CopiesPlaced(j)'
  BY <1>0, <1>1, <1>7, <1>10 DEF CopiesPlaced
<1>22. Rest(j)'
  BY <1>0, <1>7, <1>9, <1>15, <1>19, <1>20, <1>21 DEF Rest, Idle
<1>23. \A d \in Chains : Current(d)' => Located(chains[d].nodes)'
  BY <1>1, <1>6, <1>9, <1>10, SoloViews, SoloViewsNext DEF StoreCurrent, Located
<1> QED BY <1>18, <1>22, <1>23, Assemble

LEMMA ChainFailedB ==
    ASSUME Levelized = {}, AInv, BInv, NEW j \in Jobs, ChainDone(j), ~job[j].ok
    PROVE  BInv'
<1> USE DEF Listed
<1>0. job[j].pc = "deploy"
  BY DEF ChainDone
<1>1. /\ Shapes /\ Solo(j) /\ ChainShapes /\ WorkPlaced(j)
      /\ \A c \in DOMAIN job[j].copy : IsChain(c, job[j].copy[c])
  BY <1>0, ListedFacts
<1>2. PICK c \in Chains : c = job[j].c
  BY <1>0, DeployFacts
<1>3. /\ Moves(j, {"pc", "c"}) /\ job'[j].pc = "resolve" /\ UNCHANGED << hosts, infos, vps, chains >>
      /\ applied' = [applied EXCEPT ![c] = "failed"]
  BY <1>1, <1>2, ChainDoneFacts
<1>4. /\ job'[j].node = job[j].node /\ job'[j].spare = job[j].spare
      /\ job'[j].copy = job[j].copy /\ job'[j].todo = job[j].todo
  BY <1>3, MovesFields
<1>5. Solo(j)'
  BY <1>1, <1>3, SoloMoves
<1>6. /\ DOMAIN applied' = Chains /\ applied'[c] # "ok"
      /\ \A d \in Chains : d # c => applied'[d] = applied[d]
  BY <1>1, <1>3 DEF ChainShapes
<1>7. \A d \in Chains : d # c => (TodoOf(j, d)' <=> TodoOf(j, d))
  BY <1>0, <1>2, <1>3, <1>4 DEF TodoOf
<1>8. NoSuccess(j)
  BY <1>2, <1>6, <1>7 DEF NoSuccess, CurrentJ
<1>9. StoredFromCopy(j) /\ CopiesKept(j)
  BY <1>1, <1>3, <1>4 DEF StoredFromCopy, ChainShapes, CopiesKept
<1>10. Loop(j)' /\ WorkPlaced(j)' /\ Quiet(j)
  BY <1>0, <1>1, <1>3, <1>4 DEF Loop, WorkPlaced, Quiet
<1> QED BY <1>0, <1>3, <1>5, <1>8, <1>9, <1>10, ListedB DEF ListedStep

LEMMA ChainAppliedB ==
    ASSUME Levelized = {}, AInv, BInv, NEW j \in Jobs, ChainDone(j), job[j].ok
    PROVE  BInv'
<1> USE DEF Listed
<1>0. job[j].pc = "deploy" /\ ~Idle(j)
  BY DEF ChainDone, Idle
<1>1. /\ Shapes /\ Solo(j) /\ ChainShapes /\ CopiesCurrent(j) /\ SpareEditedJ(j) /\ CopiesPlaced(j) /\ Loop(j)
      /\ StoreCurrent /\ Deployed /\ job[j].node \in Nodes
  BY <1>0, JobB
<1>2. PICK c \in Chains : c = job[j].c
  BY <1>0, DeployFacts
<1>3. PICK t : t = job[j].copy[c].nodes
  OBVIOUS
<1>4. /\ c \in DOMAIN job[j].copy /\ IsChain(c, job[j].copy[c]) /\ Located(t) /\ c \notin job[j].todo
      /\ job[j].node \in Mem(c) /\ DOMAIN t \subseteq Ids /\ job[j].i \in Nat
      /\ Order(j) \in [1..Len(Order(j)) -> DOMAIN t] /\ Len(Order(j)) \in Nat
      /\ \A m \in DOMAIN t : \E k \in 1..Len(Order(j)) : Order(j)[k] = m
  BY <1>0, <1>2, <1>3, DeployFacts
<1>5. /\ Moves(j, {"pc", "c"}) /\ job'[j].pc = "resolve" /\ UNCHANGED << hosts, infos, vps >>
      /\ job[j].i > Len(Order(j))
      /\ SaveChain(c, job[j].copy[c]) /\ applied' = [applied EXCEPT ![c] = "ok"]
  BY <1>1, <1>2, ChainDoneFacts DEF AInv
<1>6. /\ job'[j].node = job[j].node /\ job'[j].spare = job[j].spare
      /\ job'[j].copy = job[j].copy /\ job'[j].todo = job[j].todo
  BY <1>5, MovesFields
<1>7. Solo(j)' /\ \A i \in Jobs : i # j => job'[i] = job[i]
  BY <1>1, <1>5, SoloMoves DEF Moves
<1>8. /\ DOMAIN chains' = Chains /\ IsChain(c, chains'[c]) /\ chains'[c].nodes = t
      /\ \A d \in Chains : d # c => chains'[d] = chains[d]
  BY <1>1, <1>3, <1>4, <1>5, SaveChainFacts
<1>9. /\ DOMAIN applied' = Chains /\ applied'[c] = "ok"
      /\ \A d \in Chains : d # c => applied'[d] = applied[d]
  BY <1>1, <1>5 DEF ChainShapes
<1>10. /\ InChain(c)' = DOMAIN t
       /\ \A d \in Chains : InChain(d) = DOMAIN chains[d].nodes
       /\ \A d \in Chains : d # c => InChain(d)' = InChain(d)
  BY <1>8, Flat
<1>11. \A d \in Chains : d # c => (CurrentJ(j, d)' <=> CurrentJ(j, d))
  BY <1>0, <1>2, <1>5, <1>6, <1>9 DEF CurrentJ, TodoOf
<1>12. \A S \in SUBSET Ids : BurntIn(S)' <=> BurntIn(S)
  BY <1>0, <1>5, <1>6, <1>7 DEF BurntIn, Burnt, Consuming
<1>13. \A d \in Chains : TaintedIn(j, d)' <=> TaintedIn(j, d)
  BY <1>0, <1>5, <1>6 DEF TaintedIn, Tainted
<1>14. ChainShapes'
  BY <1>1, <1>5, <1>8, <1>9 DEF ChainShapes
<1>15. CopiesCurrent(j)'
  BY <1>1, <1>3, <1>6, <1>10, <1>11 DEF CopiesCurrent
<1>16. SpareEditedJ(j)'
  BY <1>0, <1>1, <1>4, <1>6, <1>9, <1>10 DEF SpareEditedJ
<1>17. CopiesPlaced(j)'
  BY <1>0, <1>1, <1>3, <1>5, <1>6, <1>10 DEF CopiesPlaced
<1>18. Rest(j)'
  BY <1>5, <1>7, <1>14, <1>15, <1>16, <1>17 DEF Rest, Idle, Loop
<1>19. \A d \in Chains : Current(d)' => Located(chains[d].nodes)'
  <2>1. Located(chains[c].nodes)'
    BY <1>4, <1>5, <1>8 DEF Located
  <2>2. \A d \in Chains : d # c /\ Current(d)' => Located(chains[d].nodes)'
    BY <1>1, <1>5, <1>7, <1>8, <1>11, SoloViews, SoloViewsNext DEF StoreCurrent, Located
  <2> QED BY <2>1, <2>2
\* The loop passed every node.
<1>20. ASSUME NEW m \in DOMAIN t
       PROVE  /\ t[m] = hosts[m] /\ vps[hosts[m]].id # NoOne
              /\ BurntIn(DOMAIN t) \/ Tainted(j) \/ (vps[hosts[m]].id = m /\ vps[hosts[m]].peers[c] = t)
  <2>1. PICK k \in 1..Len(Order(j)) : Order(j)[k] = m
    BY <1>4, <1>20
  <2>2. k \in DOMAIN Order(j) /\ k < job[j].i
    BY <1>4, <1>5, <2>1
  <2>3. t[m] = hosts[m]
    BY <1>4, <1>20 DEF Located
  <2> QED BY <1>0, <1>1, <1>2, <1>3, <2>1, <2>2, <2>3 DEF Loop
<1>21. ASSUME NEW m \in Ids, NEW e \in Chains, BrokenBy(j, m, e), vps[hosts[m]].id = NoOne
       PROVE  BrokenBy(j, m, e)'
  <2>1. e # c
    BY <1>3, <1>4, <1>20, <1>21 DEF BrokenBy
  <2> QED BY <1>2, <1>5, <1>6, <1>9, <1>10, <1>21, <2>1 DEF BrokenBy
<1>22. Deployed'
  <2> SUFFICES ASSUME NEW d \in Chains, Current(d)', ~Excused(d)', NEW x \in InChain(d)'
               PROVE  RunsAt(x, hosts[x], d)' \/ BareAt(x, hosts[x])'
    BY DEF Deployed
  <2>1. CASE d = c
    <3>1. Excused(c)' <=> BurntIn(InChain(c))' \/ TaintedIn(j, c)'
      BY <1>7, SoloViewsNext
    <3>2. BurntIn(InChain(c))' <=> BurntIn(DOMAIN t)
      <4>1. BurntIn(DOMAIN t)' <=> BurntIn(DOMAIN t)
        BY <1>4, <1>12
      <4> QED BY <1>10, <4>1 DEF BurntIn
    <3>3. ~BurntIn(DOMAIN t) /\ ~TaintedIn(j, c)
      BY <1>13, <2>1, <3>1, <3>2
    <3>4. ~Tainted(j)
      BY <1>0, <1>4, <3>3 DEF TaintedIn
    <3> QED BY <1>5, <1>8, <1>10, <1>20, <2>1, <3>3, <3>4 DEF RunsAt
  <2>2. CASE d # c
    <3>1. Current(d) /\ x \in InChain(d) /\ InChain(d) \subseteq Ids /\ InChain(d)' = InChain(d)
      <4>1. CurrentJ(j, d)
        BY <1>7, <1>11, <2>2, SoloViewsNext
      <4>2. Current(d)
        BY <1>1, <4>1, SoloViews
      <4>3. InChain(d) \subseteq Ids
        <5>1. IsChain(d, chains[d])
          BY <1>1 DEF ChainShapes
        <5>2. InChain(d) = DOMAIN chains[d].nodes
          BY Flat
        <5> QED BY <5>1, <5>2 DEF IsChain
      <4> QED BY <1>10, <2>2, <4>2, <4>3
    <3>2. ~Excused(d)
      <4>1. BurntIn(InChain(d))' <=> BurntIn(InChain(d))
        BY <1>5, <1>6, <1>0, <1>7, <3>1 DEF BurntIn, Burnt, Consuming
      <4> QED BY <1>1, <1>7, <1>13, <4>1, SoloViews, SoloViewsNext
    <3>3. RunsAt(x, hosts[x], d) \/ BareAt(x, hosts[x])
      BY <1>1, <3>1, <3>2 DEF Deployed
    <3>4. CASE RunsAt(x, hosts[x], d)
      BY <1>5, <1>8, <2>2, <3>4 DEF RunsAt
    <3>5. CASE BareAt(x, hosts[x])
      <4>1. PICK e \in Chains : BrokenBy(j, x, e)
        BY <1>1, <3>1, <3>5, SoloViews DEF BareAt
      <4>2. BrokenBy(j, x, e)'
        BY <1>21, <3>1, <3>5, <4>1 DEF BareAt
      <4>3. Broken(x)'
        BY <1>7, <3>1, <4>2, SoloViewsNext
      <4> QED BY <1>5, <3>5, <4>3 DEF BareAt
    <3> QED BY <3>3, <3>4, <3>5
  <2> QED BY <2>1, <2>2
<1> QED BY <1>18, <1>19, <1>22, Assemble

LEMMA SaveHostB == ASSUME Levelized = {}, AInv, BInv, NEW j \in Jobs, SaveHost(j) PROVE BInv'
<1> USE DEF Early, Listed, Ending
<1>0. ~Idle(j)
  BY DEF Idle, SaveHost
<1> DEFINE n == job[j].node
<1>1. /\ Rest(j) /\ StoreCurrent /\ Deployed
      /\ Shapes /\ Solo(j) /\ ChainShapes /\ SpareEditedJ(j) /\ CopiesPlaced(j) /\ n \in Nodes
  BY <1>0, JobB
<1>2. /\ Moves(j, {"pc"}) /\ job[j].pc = "host" /\ job'[j].pc = "info"
      /\ hosts' = [hosts EXCEPT ![n] = job[j].to] /\ UNCHANGED << infos, chains, vps, applied >>
      /\ job'[j].node = n /\ job'[j].spare = job[j].spare /\ job'[j].copy = job[j].copy
  BY <1>1, SaveHostFacts, MovesFields
<1>3. Solo(j)'
  BY <1>1, <1>2, SoloMoves
<1>4. DOMAIN job[j].copy = {}
  BY <1>1, <1>2 DEF CopiesPlaced
<1>5. \A c \in Chains : InChain(c)' = InChain(c) /\ InChain(c) \subseteq Ids
  BY <1>1, <1>2, Flat DEF ChainShapes, IsChain
<1>6. \A i \in Ids : i # n => hosts'[i] = hosts[i]
  BY <1>1, <1>2 DEF Shapes
<1>7. ASSUME NEW c \in Chains, CurrentJ(j, c)'
      PROVE  CurrentJ(j, c) /\ \A m \in InChain(c) : m # n /\ hosts'[m] = hosts[m]
  <2>1. CurrentJ(j, c) /\ n \notin Mem(c)
    BY <1>2, <1>7 DEF CurrentJ, TodoOf
  <2>2. n \notin InChain(c)
    BY <1>1, <2>1, NodeIn
  <2> QED BY <1>5, <1>6, <2>1, <2>2
<1>8. KeepsCurrent(j)
  BY <1>2, <1>7 DEF KeepsCurrent
<1>9. KeepsExcuses(j)
  <2> SUFFICES ASSUME NEW c \in Chains, CurrentJ(j, c)'
               PROVE  /\ BurntInJ(j, InChain(c)) => BurntInJ(j, InChain(c))'
                      /\ ~TaintedIn(j, c)
    BY DEF KeepsExcuses
  <2>1. ~TaintedIn(j, c)
    BY <1>2 DEF TaintedIn
  <2>2. \A s \in Spares : hosts'[s] = hosts[s]
    BY <1>1, <1>6, Names
  <2>3. \A m \in InChain(c) : hosts'[m] = hosts[m]
    BY <1>7
  <2>4. BurntInJ(j, InChain(c)) => BurntInJ(j, InChain(c))'
    BY <1>2, <1>5, <2>2, <2>3 DEF BurntInJ, Consuming
  <2> QED BY <2>1, <2>4
<1>10. KeepsBroken(j) /\ KeepsConfigs
  BY <1>2, <1>5 DEF KeepsBroken, BrokenBy, KeepsConfigs
<1>11. ChainShapes' /\ CopiesCurrent(j)' /\ SpareEditedJ(j)'
  BY <1>0, <1>1, <1>2, <1>4, <1>5 DEF ChainShapes, CopiesCurrent, SpareEditedJ
<1>12. CopiesPlaced(j)' /\ Loop(j)' /\ ~Idle(j)'
  BY <1>2, <1>4 DEF CopiesPlaced, Loop, Idle
<1>13. Rest(j)'
  BY <1>3, <1>11, <1>12 DEF Rest
<1> QED BY <1>1, <1>8, <1>9, <1>10, <1>13, StepB

\* The end of a relocation, once the chains are done.
LEMMA ConsumeB ==
    ASSUME Levelized = {}, AInv, BInv, NEW j \in Jobs,
           ConsumeInfo(j) \/ ConsumeHost(j)
    PROVE  BInv'
<1> USE DEF Early, Listed, Ending
<1>0. ~Idle(j)
  BY DEF Idle, ConsumeInfo, ConsumeHost
<1>1. /\ Rest(j) /\ StoreCurrent /\ Deployed
      /\ Shapes /\ Solo(j) /\ ChainShapes /\ CopiesCurrent(j) /\ SpareEditedJ(j) /\ CopiesPlaced(j)
      /\ JobPlaced(j) /\ TargetReserved(j) /\ job[j].node \in Nodes
  BY <1>0, JobB
<1>2. PICK s : s = job[j].spare
  OBVIOUS
<1>3. /\ Moves(j, {"pc"}) /\ UNCHANGED << chains, vps, applied >>
      /\ \/ /\ job[j].pc = "consume" /\ job'[j].pc = "consumeHost"
            /\ infos' = [infos EXCEPT ![s] = NoOne] /\ UNCHANGED hosts
         \/ /\ job[j].pc = "consumeHost" /\ job'[j].pc = "stamp" /\ UNCHANGED infos
            /\ \/ GetChainsForNode(s) = {} /\ hosts' = [hosts EXCEPT ![s] = NoOne]
               \/ UNCHANGED hosts
  <2>1. CASE ConsumeInfo(j)
    BY <1>1, <1>2, <2>1, ConsumeInfoFacts
  <2>2. CASE ConsumeHost(j)
    BY <1>1, <1>2, <2>2, ConsumeHostFacts
  <2> QED BY <2>1, <2>2
<1>4. /\ job'[j].node = job[j].node /\ job'[j].spare = s /\ job'[j].copy = job[j].copy
  BY <1>2, <1>3, MovesFields
<1>5. Solo(j)'
  BY <1>1, <1>3, SoloMoves
<1>6. \A c \in Chains : InChain(c)' = InChain(c) /\ InChain(c) \subseteq Ids
  BY <1>1, <1>3, Flat DEF ChainShapes, IsChain
<1>7. /\ s \in Spares /\ s \in Ids /\ s # NoOne /\ hosts[job[j].node] = s /\ hosts[s] = s
      /\ job[j].pc = "consume" => infos[s] # NoOne
  BY <1>1, <1>2, <1>3, Names DEF JobPlaced, TargetReserved
<1>8. \A c \in Chains : CurrentJ(j, c)' <=> CurrentJ(j, c)
  BY <1>3 DEF CurrentJ, TodoOf
<1>9. ASSUME NEW c \in Chains, NEW m \in InChain(c) PROVE hosts'[m] = hosts[m]
  <2>1. CASE UNCHANGED hosts
    BY <2>1
  <2>2. CASE GetChainsForNode(s) = {} /\ hosts' = [hosts EXCEPT ![s] = NoOne]
    <3>1. m # s
      BY <1>9, <2>2 DEF GetChainsForNode
    <3> QED BY <1>1, <1>6, <1>9, <2>2, <3>1 DEF Shapes
  <2> QED BY <1>3, <2>1, <2>2
<1>10. KeepsCurrent(j)
  BY <1>3, <1>8, <1>9 DEF KeepsCurrent
<1>11. \A i \in Spares : i # s => infos'[i] = infos[i] /\ hosts'[i] = hosts[i]
  BY <1>1, <1>3, <1>7, Names DEF Shapes
<1>12. KeepsExcuses(j)
  <2> SUFFICES ASSUME NEW c \in Chains
               PROVE  /\ BurntInJ(j, InChain(c)) => BurntInJ(j, InChain(c))'
                      /\ TaintedIn(j, c) => BurntInJ(j, InChain(c))' \/ TaintedIn(j, c)'
    BY DEF KeepsExcuses
  <2>1. BurntInJ(j, InChain(c)) => BurntInJ(j, InChain(c))'
    <3> SUFFICES ASSUME NEW m \in InChain(c), NEW i \in Spares,
                        infos[i] = NoOne, hosts[i] # NoOne, ~Consuming(j, i), hosts[m] = hosts[i]
                 PROVE  BurntInJ(j, InChain(c))'
      BY DEF BurntInJ
    <3>1. i # s
      BY <1>2, <1>3, <1>7 DEF Consuming
    <3>2. infos'[i] = NoOne /\ hosts'[i] = hosts[i] /\ hosts'[m] = hosts[m] /\ ~Consuming(j, i)'
      BY <1>4, <1>9, <1>11, <3>1 DEF Consuming
    <3> QED BY <1>6, <3>2 DEF BurntInJ
  <2>2. ASSUME TaintedIn(j, c) PROVE BurntInJ(j, InChain(c))' \/ TaintedIn(j, c)'
    <3>1. Tainted(j) /\ job[j].node \in Mem(c)
      BY <2>2 DEF TaintedIn
    <3>2. CASE job'[j].pc = "consumeHost"
      BY <1>2, <1>4, <3>1, <3>2 DEF TaintedIn, Tainted
    <3>3. CASE job'[j].pc = "stamp"
      <4>1. PICK e \in DOMAIN job[j].copy : s \in DOMAIN job[j].copy[e].nodes
        BY <1>2, <3>1 DEF Tainted
      <4>2. e \in Chains /\ s \in InChain(e)
        BY <1>1, <1>3, <4>1 DEF CopiesPlaced
      <4>3. GetChainsForNode(s) # {}
        BY <4>2 DEF GetChainsForNode
      <4>4. UNCHANGED << hosts, infos >> /\ job[j].pc = "consumeHost"
        BY <1>3, <3>3, <4>3
      <4>5. infos[s] = NoOne
        <5>1. \A i \in Jobs : ~UsesSpare(i, job[j].node, s)
          BY <1>1, <4>4 DEF UsesSpare, Solo
        <5> QED BY <1>1, <1>7, <5>1 DEF AInv, PoolFree
      <4>6. job[j].node \in InChain(c)
        BY <1>1, <3>1, NodeIn
      <4> QED BY <1>6, <1>7, <3>3, <4>4, <4>5, <4>6 DEF BurntInJ, Consuming
    <3> QED BY <1>3, <3>2, <3>3
  <2> QED BY <2>1, <2>2
<1>13. KeepsBroken(j) /\ KeepsConfigs
  BY <1>3, <1>4, <1>6 DEF KeepsBroken, BrokenBy, KeepsConfigs
<1>14. ChainShapes' /\ CopiesCurrent(j)' /\ SpareEditedJ(j)'
  BY <1>0, <1>1, <1>2, <1>3, <1>4, <1>6, <1>8 DEF ChainShapes, CopiesCurrent, SpareEditedJ
<1>15. CopiesPlaced(j)' /\ Loop(j)' /\ ~Idle(j)'
  <2>1. DOMAIN job[j].copy = {c \in Chains : job[j].node \in Mem(c)}
    BY <1>1, <1>3 DEF CopiesPlaced
  <2>2. \A c \in DOMAIN job[j].copy :
           IsChain(c, job[j].copy[c]) /\ DOMAIN job[j].copy[c].nodes \subseteq InChain(c)
    BY <1>1 DEF CopiesPlaced
  <2>3. CopiesPlaced(j)'
    BY <1>3, <1>4, <1>6, <2>1, <2>2 DEF CopiesPlaced
  <2> QED BY <1>3, <2>3 DEF Loop, Idle
<1>16. Rest(j)'
  BY <1>5, <1>14, <1>15 DEF Rest
<1> QED BY <1>1, <1>10, <1>12, <1>13, <1>16, StepB

LEMMA EndB ==
    ASSUME Levelized = {}, AInv, BInv, NEW j \in Jobs,
           StampSave(j) \/ (Finish(j) /\ j = Operator)
    PROVE  BInv'
<1> USE DEF Early, Listed, Ending
<1>0. ~Idle(j)
  BY DEF Idle, StampSave, Finish
<1>1. /\ Rest(j) /\ StoreCurrent /\ Deployed
      /\ Shapes /\ Solo(j) /\ ChainShapes /\ CopiesPlaced(j) /\ JobPlaced(j) /\ job[j].node \in Nodes
  BY <1>0, JobB
<1>2. /\ Replaces(j, NoJob) /\ UNCHANGED << hosts, chains, vps, applied >>
      /\ \/ job[j].pc = "saveStamp"
         \/ job[j].pc = "resolve" /\ job[j].todo = {} /\ j = Operator
      /\ \A s \in Spares : infos'[s] = infos[s]
  <2>1. CASE StampSave(j)
    <3>1. /\ Replaces(j, NoJob) /\ UNCHANGED << hosts, chains, vps, applied >> /\ job[j].pc = "saveStamp"
          /\ infos' = IF job[j].info = NoOne THEN infos
                      ELSE [infos EXCEPT ![job[j].node] = [job[j].info EXCEPT !.stamp = "recent"]]
      BY <1>1, <2>1, StampSaveFacts
    <3>2. \A s \in Spares : s # job[j].node
      BY <1>1, Names
    <3>3. \A s \in Spares : infos'[s] = infos[s]
      BY <1>1, <3>1, <3>2, Names DEF Shapes
    <3> QED BY <3>1, <3>3
  <2>2. CASE Finish(j) /\ j = Operator
    BY <1>1, <2>2, FinishFacts
  <2> QED BY <2>1, <2>2
<1>3. job'[j].pc = "none" /\ DOMAIN job'[j].copy = {} /\ Idle(j)' /\ Solo(j)'
  BY <1>1, <1>2, NoJobFacts DEF Replaces, Solo, Idle
<1>4. \A c \in Chains : InChain(c)' = InChain(c)
  BY <1>2, Flat
<1>5. \A c \in Chains : CurrentJ(j, c)' <=> CurrentJ(j, c)
  BY <1>2, <1>3 DEF CurrentJ, TodoOf
<1>6. KeepsCurrent(j) /\ KeepsConfigs
  BY <1>2, <1>5 DEF KeepsCurrent, KeepsConfigs
<1>7. KeepsBroken(j)
  BY <1>2, <1>3, <1>4 DEF KeepsBroken, BrokenBy
<1>8. \A c \in Chains : ~TaintedIn(j, c)
  <2>1. CASE job[j].pc = "saveStamp"
    BY <2>1 DEF TaintedIn
  <2>2. CASE j = Operator
    <3>1. job[j].spare \notin Ids
      BY <1>1, <2>2, Names DEF JobPlaced
    <3>2. ~Tainted(j)
      BY <1>1, <3>1 DEF Tainted, CopiesPlaced, IsChain
    <3> QED BY <3>2 DEF TaintedIn
  <2> QED BY <1>2, <2>1, <2>2
<1>9. KeepsExcuses(j)
  BY <1>2, <1>3, <1>4, <1>8 DEF KeepsExcuses, BurntInJ, Consuming
<1>10. ChainShapes' /\ CopiesCurrent(j)' /\ SpareEditedJ(j)'
  BY <1>1, <1>2, <1>3 DEF ChainShapes, CopiesCurrent, SpareEditedJ
<1>11. Rest(j)'
  BY <1>3, <1>10 DEF Rest
<1> QED BY <1>1, <1>6, <1>7, <1>9, <1>11, StepB

\* The start of a relocation: no other runs, and its spare is in no chain.
LEMMA StartB ==
    ASSUME Levelized = {}, AInv, BInv, NEW j \in Jobs, NEW n \in Nodes, NEW s, NEW to,
           Running = {}, Replaces(j, NewJob(n, s, to)), \A c \in Chains : s \notin InChain(c),
           UNCHANGED << hosts, infos, chains, vps, applied >>
    PROVE  BInv'
<1> USE DEF Early, Listed, Ending
<1>1. \A i \in Jobs : Idle(i) /\ job[i].pc = "none"
  BY DEF Running, Idle
<1>2. Rest(j) /\ StoreCurrent /\ Deployed /\ Shapes /\ Solo(j) /\ ChainShapes
  BY <1>1, SoloRest DEF Rest, AInv
<1>3. /\ job'[j].pc = "host" /\ job'[j].node = n /\ job'[j].spare = s /\ job'[j].copy = << >>
      /\ \A i \in Jobs : i # j => job'[i] = job[i]
  BY NewJobFacts DEF Replaces
<1>4. DOMAIN job'[j].copy = {} /\ ~Idle(j)' /\ Solo(j)'
  BY <1>2, <1>3 DEF Solo, Idle
<1>5. \A c \in Chains : InChain(c)' = InChain(c)
  BY Flat
<1>6. \A c \in Chains : CurrentJ(j, c)' <=> CurrentJ(j, c)
  BY <1>1, <1>3 DEF CurrentJ, TodoOf
<1>7. KeepsCurrent(j) /\ KeepsConfigs
  BY <1>6 DEF KeepsCurrent, KeepsConfigs
<1>8. KeepsBroken(j)
  BY <1>1, <1>4, <1>5 DEF KeepsBroken, BrokenBy
<1>9. KeepsExcuses(j)
  BY <1>1, <1>3, <1>5 DEF KeepsExcuses, BurntInJ, Consuming, TaintedIn
<1>10. ChainShapes' /\ CopiesCurrent(j)' /\ SpareEditedJ(j)'
  BY <1>2, <1>3, <1>4, <1>5 DEF ChainShapes, CopiesCurrent, SpareEditedJ
<1>11. CopiesPlaced(j)' /\ Loop(j)'
  BY <1>3, <1>4 DEF CopiesPlaced, Loop
<1>12. Rest(j)'
  BY <1>4, <1>10, <1>11 DEF Rest
<1> QED BY <1>2, <1>7, <1>8, <1>9, <1>12, StepB

LEMMA EnterIncidentB ==
    ASSUME Levelized = {}, AInv, OneAtATime', BInv, NEW n \in Nodes, EnterIncident(n), job' # job
    PROVE  BInv'
<1>1. Shapes
  BY DEF AInv
<1>2. /\ UNCHANGED << hosts, infos, chains, vps, applied >>
      /\ \E s \in Spares : /\ AutoRelocateDecision(n, s) /\ Idle(n) /\ Beside(n)
                           /\ n \in Jobs /\ Replaces(n, NewJob(n, s, infos[s].addr))
  BY <1>1, EnterIncidentFacts
<1>3. PICK s \in Spares : /\ AutoRelocateDecision(n, s) /\ Idle(n) /\ Beside(n)
                          /\ n \in Jobs /\ Replaces(n, NewJob(n, s, infos[s].addr))
  BY <1>2
<1>5. Running = {}
  BY <1>1, <1>3, NewJobFacts, StartsAlone
<1>4. \A c \in Chains : s \notin InChain(c)
  BY <1>3 DEF AutoRelocateDecision, Pickable, GetChainsForNode
<1> QED BY <1>2, <1>3, <1>4, <1>5, StartB

LEMMA RelocateByHandB ==
    ASSUME Levelized = {}, AInv, OneAtATime', BInv, NEW n \in Nodes, NEW v \in NewVPS, RelocateByHand(n, v)
    PROVE  BInv'
<1>1. Shapes /\ ChainShapes
  BY DEF AInv, BInv
<1>2. /\ Running = {} /\ UNCHANGED << hosts, infos, chains, vps, applied >>
      /\ Operator \in Jobs /\ Replaces(Operator, NewJob(n, NoOne, v))
  BY <1>1, RelocateByHandFacts, NewJobFacts, StartsAlone
<1>3. \A c \in Chains : NoOne \notin InChain(c)
  <2> SUFFICES ASSUME NEW c \in Chains PROVE NoOne \notin InChain(c)
    OBVIOUS
  <2>1. IsChain(c, chains[c])
    BY <1>1 DEF ChainShapes
  <2>2. InChain(c) \subseteq Ids
    BY <2>1, Flat DEF IsChain
  <2> QED BY <2>2, Names
<1> QED BY <1>2, <1>3, StartB

\* What happens around the relocations: a chain may be edited, and is then no
\* longer current.
Edited(d) == applied'[d] # "ok" /\ InChain(d) \subseteq InChain(d)'

LEMMA AroundB ==
    ASSUME Levelized = {}, AInv, BInv, UNCHANGED << hosts, job >>, KeepsConfigs,
           \A s \in Spares : infos'[s] = infos[s], ChainShapes',
           \A d \in Chains : (chains'[d] = chains[d] /\ applied'[d] = applied[d]) \/ Edited(d)
    PROVE  BInv'
<1> USE DEF Early, Listed, Ending
<1>1. PICK j \in Jobs : \A i \in Jobs : i # j => Idle(i)
  <2>1. CASE \E j \in Jobs : ~Idle(j)
    BY <2>1 DEF AInv, OneAtATime
  <2>2. CASE \A j \in Jobs : Idle(j)
    BY <2>2, Names
  <2> QED BY <2>1, <2>2
<1>2. Rest(j) /\ StoreCurrent /\ Deployed /\ Shapes
  BY <1>1, SoloRest DEF AInv
<1>3. Solo(j) /\ Solo(j)' /\ ChainShapes /\ CopiesCurrent(j) /\ SpareEditedJ(j)
  BY <1>2 DEF Rest, Solo
<1>4. \A d \in Chains : /\ InChain(d) = DOMAIN chains[d].nodes /\ InChain(d)' = DOMAIN chains'[d].nodes
                        /\ InChain(d) \subseteq InChain(d)'
  BY Flat DEF Edited
<1>5. \A c \in Chains : CurrentJ(j, c)' => CurrentJ(j, c) /\ chains'[c] = chains[c] /\ InChain(c)' = InChain(c)
  BY <1>4 DEF CurrentJ, TodoOf, Edited
<1>6. KeepsCurrent(j)
  BY <1>5 DEF KeepsCurrent
<1>7. \A S \in SUBSET Ids : BurntIn(S)' <=> BurntIn(S)
  BY DEF BurntIn, Burnt, Consuming
<1>8. KeepsExcuses(j)
  <2> SUFFICES ASSUME NEW c \in Chains, CurrentJ(j, c)'
               PROVE  /\ BurntInJ(j, InChain(c)) => BurntInJ(j, InChain(c))'
                      /\ TaintedIn(j, c) => TaintedIn(j, c)'
    BY DEF KeepsExcuses
  <2>1. InChain(c)' = InChain(c)
    BY <1>5
  <2> QED BY <2>1 DEF BurntInJ, TaintedIn, Tainted, Consuming
<1>9. KeepsBroken(j)
  BY <1>4 DEF KeepsBroken, BrokenBy, Edited
<1>10. CopiesCurrent(j)' /\ SpareEditedJ(j)'
  <2>1. CopiesCurrent(j)'
    BY <1>3, <1>5 DEF CopiesCurrent
  <2>2. \A c \in Chains : applied'[c] = "ok" => applied[c] = "ok" /\ InChain(c)' = InChain(c)
    BY <1>4 DEF Edited
  <2>3. SpareEditedJ(j)'
    BY <1>3, <2>2 DEF SpareEditedJ, Idle
  <2> QED BY <2>1, <2>3
<1>11. ASSUME ~Idle(j) PROVE CopiesPlaced(j)' /\ Loop(j)'
  <2>1. CopiesPlaced(j) /\ Loop(j) /\ Shapes
    BY <1>2, <1>11 DEF Rest
  <2>2. CopiesPlaced(j)'
    <3>1. DOMAIN job[j].copy \subseteq Chains
      BY <2>1 DEF CopiesPlaced
    <3>2. \A c \in DOMAIN job[j].copy : DOMAIN job[j].copy[c].nodes \subseteq InChain(c)'
      BY <1>4, <2>1, <3>1 DEF CopiesPlaced
    <3> QED BY <2>1, <3>2 DEF CopiesPlaced
  <2>3. Loop(j)'
    <3>1. CASE job[j].pc \notin {"apply", "deploy"}
      BY <3>1 DEF Loop
    <3>2. CASE job[j].pc = "apply"
      BY <2>1, <3>2 DEF Loop, Located
    <3>3. CASE job[j].pc = "deploy"
      <4> DEFINE c == job[j].c
                 t == job[j].copy[c].nodes
      <4>1. /\ Located(t) /\ job[j].i \in Nat \ {0} /\ DOMAIN t \subseteq Ids
            /\ Order(j) \in [1..Len(Order(j)) -> DOMAIN t]
        BY <3>3, DeployFacts
      <4>2. Order(j)' = Order(j)
        BY DEF Order, Targets, AllNodes
      <4>3. Located(t)' /\ (Tainted(j)' <=> Tainted(j)) /\ (BurntIn(DOMAIN t)' <=> BurntIn(DOMAIN t))
        BY <4>1 DEF Located, Tainted, BurntIn, Burnt, Consuming
      <4>4. ASSUME job[j].ok, NEW k \in DOMAIN Order(j), k < job[j].i
            PROVE  LET x == Order(j)[k] IN
                   /\ vps'[t[x]].id # NoOne
                   /\ BurntIn(DOMAIN t)' \/ Tainted(j)' \/ (vps'[t[x]].id = x /\ vps'[t[x]].peers[c] = t)
        <5> DEFINE x == Order(j)[k]
        <5>1. /\ vps[t[x]].id # NoOne
              /\ BurntIn(DOMAIN t) \/ Tainted(j) \/ (vps[t[x]].id = x /\ vps[t[x]].peers[c] = t)
          BY <2>1, <3>3, <4>4 DEF Loop
        <5>2. x \in DOMAIN t /\ x \in Ids
          BY <4>1, <4>4
        <5>3. t[x] \in VPS
          BY <2>1, <4>1, <5>2 DEF Located, Shapes
        <5>4. vps'[t[x]].id = vps[t[x]].id /\ vps'[t[x]].peers = vps[t[x]].peers
          BY <5>3 DEF KeepsConfigs
        <5> QED BY <4>3, <5>1, <5>4
      <4> QED BY <3>3, <4>1, <4>2, <4>3, <4>4 DEF Loop
    <3> QED BY <3>1, <3>2, <3>3
  <2> QED BY <2>2, <2>3
<1>12. Rest(j)'
  BY <1>2, <1>3, <1>10, <1>11 DEF Rest, Idle
<1> QED BY <1>2, <1>6, <1>8, <1>9, <1>12, StepB

LEMMA CoolDownSpares ==
    ASSUME Shapes, NEW n \in Nodes, CoolDown(n)
    PROVE  /\ \A s \in Spares : infos'[s] = infos[s]
           /\ UNCHANGED << hosts, chains, vps, job, applied >>
BY Names DEF Shapes, CoolDown

LEMMA AddToChainB ==
    ASSUME Levelized = {}, AInv, BInv, NEW s \in Spares, NEW c \in Chains, AddToChain(s, c)
    PROVE  BInv'
<1>1. ChainShapes
  BY DEF BInv
<1> DEFINE old == chains[c].nodes
           new == [m \in DOMAIN old \cup {s} |-> IF m = s THEN hosts[s] ELSE old[m]]
           ch == [nodes |-> new, levels |-> chains[c].levels]
<1>2. /\ chains' = [chains EXCEPT ![c] = ch] /\ applied' = [applied EXCEPT ![c] = "edited"]
      /\ UNCHANGED << hosts, infos, vps, job >>
  <2> DEFINE put == [m \in InChain(c) \cup {s} |-> IF m = s THEN hosts[s] ELSE AllNodes(c, chains[c])[m]]
  <2>1. /\ chains' = [chains EXCEPT ![c] = [nodes |-> put, levels |-> IF c \in Levelized THEN put ELSE @.levels]]
        /\ applied' = [applied EXCEPT ![c] = "edited"] /\ UNCHANGED << hosts, infos, vps, job >>
    BY DEF AddToChain
  <2>2. InChain(c) = DOMAIN old /\ AllNodes(c, chains[c]) = old
    BY Flat
  <2>3. put = new
    BY <2>2
  <2> HIDE DEF put, new
  <2> QED BY <1>1, <2>1, <2>3 DEF ChainShapes
<1>3. IsChain(c, chains[c])
  BY <1>1 DEF ChainShapes
<1>4. DOMAIN new = DOMAIN old \cup {s} /\ new = [m \in DOMAIN new |-> new[m]]
  OBVIOUS
<1> HIDE DEF new
<1>5. DOMAIN ch = ChainFields /\ ch.nodes = new
  BY DEF ChainFields
<1> HIDE DEF ch
<1>6. IsChain(c, ch)
  BY <1>3, <1>4, <1>5, Names DEF IsChain
<1>7. /\ DOMAIN chains' = Chains /\ chains'[c] = ch /\ \A d \in Chains : d # c => chains'[d] = chains[d]
      /\ DOMAIN applied' = Chains /\ applied'[c] # "ok" /\ \A d \in Chains : d # c => applied'[d] = applied[d]
  BY <1>1, <1>2 DEF ChainShapes
<1>8. ChainShapes'
  BY <1>1, <1>2, <1>6, <1>7 DEF ChainShapes
<1>9. Edited(c)
  BY <1>4, <1>5, <1>7, Flat DEF Edited
<1>10. KeepsConfigs
  BY <1>2 DEF KeepsConfigs
<1>11. \A d \in Chains : (chains'[d] = chains[d] /\ applied'[d] = applied[d]) \/ Edited(d)
  BY <1>7, <1>9
<1> QED BY <1>2, <1>8, <1>10, <1>11, AroundB

LEMMA OutageB == ASSUME Levelized = {}, AInv, BInv, NEW v \in VPS, Outage(v) PROVE BInv'
<1>1. ChainShapes
  BY DEF BInv
<1>2. /\ UNCHANGED << hosts, infos, chains, job, applied >>
      /\ vps' = [vps EXCEPT ![v].up = FALSE] \/ vps' = [vps EXCEPT ![v].runs = FALSE]
  BY DEF Outage, store
<1>3. KeepsConfigs /\ ChainShapes'
  BY <1>1, <1>2 DEF ChainShapes, KeepsConfigs
<1> QED BY <1>2, <1>3, AroundB

LEMMA SameB ==
    ASSUME Levelized = {}, AInv, BInv, UNCHANGED << hosts, chains, vps, job, applied >>,
           \A s \in Spares : infos'[s] = infos[s]
    PROVE  BInv'
<1>1. KeepsConfigs /\ ChainShapes'
  BY DEF KeepsConfigs, BInv, ChainShapes
<1> QED BY <1>1, AroundB

LEMMA InitBInv == ASSUME Levelized = {}, Init PROVE BInv
<1>1. \A c \in Chains : Mem(c) \subseteq Nodes
  BY RelocationAssumption DEF Mem, ToSet
<1>2. \A j \in Jobs : job[j].pc = "none" /\ DOMAIN job[j].copy = {} /\ Idle(j)
  BY NoJobFacts DEF Init, Idle
<1>3. /\ DOMAIN chains = Chains /\ DOMAIN applied = Chains
      /\ \A c \in Chains : /\ DOMAIN chains[c] = ChainFields
                           /\ chains[c].nodes = [m \in Mem(c) |-> m]
  BY DEF Init, Mem, ChainFields
<1>4. /\ DOMAIN vps = VPS /\ \A v \in VPS : DOMAIN vps[v] = {"up", "runs", "id", "peers"}
      /\ \A v \in Nodes : /\ vps[v].id = v
                          /\ \A c \in Chains : v \in Mem(c) => vps[v].peers[c] = [m \in Mem(c) |-> m]
  <2>1. Nodes \subseteq VPS
    BY Names
  <2> QED BY <2>1 DEF Init, Mem
<1>5. \A n \in Nodes : hosts[n] = n /\ n # NoOne
  BY Names DEF Init
<1>6. \A c \in Chains : IsChain(c, chains[c])
  BY <1>1, <1>3, Names DEF IsChain
<1>7. \A c \in Chains : InChain(c) = Mem(c)
  BY <1>3, Flat
<1>8. ChainShapes
  BY <1>3, <1>4, <1>6 DEF ChainShapes
<1>9. \A c \in Chains : Located(chains[c].nodes)
  BY <1>1, <1>3, <1>5 DEF Located
<1>10. StoreCurrent /\ SpareEdited
  BY <1>2, <1>9 DEF StoreCurrent, SpareEdited
<1>11. ASSUME NEW c \in Chains, NEW m \in InChain(c) PROVE RunsAt(m, hosts[m], c)
  <2>1. m \in Mem(c) /\ m \in Nodes /\ hosts[m] = m
    BY <1>1, <1>5, <1>7, <1>11
  <2>2. vps[m].id = m /\ vps[m].peers[c] = [k \in Mem(c) |-> k]
    BY <1>4, <2>1
  <2>3. chains[c].nodes = [k \in Mem(c) |-> k]
    BY <1>3
  <2> QED BY <2>1, <2>2, <2>3 DEF RunsAt
<1>12. Deployed
  BY <1>11 DEF Deployed
<1> QED BY <1>2, <1>8, <1>10, <1>12 DEF BInv

LEMMA NextB == ASSUME Levelized = {}, AInv, OneAtATime', BInv, [Next]_vars PROVE BInv'
<1>1. ASSUME NEW n \in Nodes, EnterIncident(n) PROVE BInv'
  <2>1. CASE job' = job
    BY <1>1, <2>1, SameB DEF EnterIncident, store
  <2>2. CASE job' # job
    BY <1>1, <2>2, EnterIncidentB
  <2> QED BY <2>1, <2>2
<1>2. ASSUME NEW n \in Nodes, Recover(n) PROVE BInv'
  BY <1>2, SameB DEF Recover, store
<1>3. ASSUME NEW n \in Nodes, CoolDown(n) PROVE BInv'
  <2>1. /\ \A s \in Spares : infos'[s] = infos[s]
        /\ UNCHANGED << hosts, chains, vps, job, applied >>
    BY <1>3, CoolDownSpares DEF AInv
  <2> QED BY <2>1, SameB
<1>4. ASSUME NEW n \in Nodes, NEW v \in NewVPS, RelocateByHand(n, v) PROVE BInv'
  BY <1>4, RelocateByHandB
<1>5. ASSUME NEW j \in Jobs, JobStep(j) PROVE BInv'
  <2>1. CASE SaveHost(j) \/ ReadInfo(j) \/ SaveInfo(j) \/ StampRead(j)
    BY <2>1, SaveHostB, InfoStepB
  <2>2. CASE ListChains(j) \/ SaveSnapshot(j) \/ Resolve(j) \/ Preflight(j)
    BY <2>2, ListChainsB, SaveSnapshotB, ResolveB, PreflightB
  <2>3. CASE DeployNode(j) \/ ChainDone(j)
    BY <2>3, DeployNodeB, ChainFailedB, ChainAppliedB
  <2>4. CASE Finish(j) \/ StampSave(j) \/ ConsumeInfo(j) \/ ConsumeHost(j)
    BY <2>4, FinishB, EndB, ConsumeB
  <2> QED BY <1>5, <2>1, <2>2, <2>3, <2>4 DEF JobStep
<1>6. ASSUME NEW v \in VPS, Outage(v) PROVE BInv'
  BY <1>6, OutageB
<1>7. ASSUME NEW s \in Spares, NEW c \in Chains, AddToChain(s, c) PROVE BInv'
  BY <1>7, AddToChainB
<1>8. CASE UNCHANGED vars
  BY <1>8, SameB DEF vars
<1> QED BY <1>1, <1>2, <1>3, <1>4, <1>5, <1>6, <1>7, <1>8 DEF Next

\* BInv holds at every step of a behaviour with one relocation at a time and fresh
\* targets, if no chain has levels.
LEMMA ChainInvariant ==
    ASSUME Levelized = {}
    PROVE  Spec /\ []OneAtATime /\ []FreshTarget => [](AInv /\ BInv)
<1>1. AInv /\ BInv /\ OneAtATime' /\ FreshTarget' /\ [Next]_vars => (AInv /\ BInv)'
  BY NextA, NextB
<1>2. Init => AInv /\ BInv
  BY InitAInv, InitBInv
<1> QED BY <1>1, <1>2, PTL DEF Spec

\* Once no relocation runs, a chain whose last apply was reported as a success
\* is deployed on the VPSes that the hosts name, and every node of it dials the
\* others there (RelocateNode), for every fleet whose chains have no levels (those
\* of the command line and of Spider) and every behaviour in which relocations do
\* not overlap and operators give fresh addresses, neither of which the code
\* demands.
THEOREM SuccessPropagatesThm ==
    ASSUME Levelized = {}
    PROVE  Spec /\ []OneAtATime /\ []FreshTarget => []SuccessPropagates
<1>1. ASSUME AInv, BInv PROVE SuccessPropagates
  <2> SUFFICES ASSUME Running = {}, NEW c \in Chains, applied[c] = "ok", ~Sharing(c), NEW m \in InChain(c)
               PROVE  \/ /\ vps[hosts[m]].id = m
                         /\ vps[hosts[m]].peers[c] = [k \in InChain(c) |-> hosts[k]]
                      \/ /\ vps[hosts[m]].id = NoOne
                         /\ \E d \in GetChainsForNode(m) : applied[d] # "ok"
    BY DEF SuccessPropagates
  <2>1. \A i \in Jobs : job[i].pc = "none"
    BY DEF Running, Idle
  <2>2. Current(c)
    BY <2>1 DEF Current, TodoOf
  <2>3. ~Excused(c)
    <3>1. ~BurntIn(InChain(c))
      BY Names DEF BurntIn, Burnt, Sharing
    <3> QED BY <2>1, <3>1 DEF Excused, Listed
  <2>4. RunsAt(m, hosts[m], c) \/ BareAt(m, hosts[m])
    BY <1>1, <2>2, <2>3 DEF BInv, Deployed
  <2>5. CASE RunsAt(m, hosts[m], c)
    <3>1. /\ chains[c].nodes = [k \in DOMAIN chains[c].nodes |-> chains[c].nodes[k]]
          /\ InChain(c) = DOMAIN chains[c].nodes /\ Located(chains[c].nodes)
      BY <1>1, <2>2, Flat DEF BInv, ChainShapes, IsChain, StoreCurrent
    <3>2. chains[c].nodes = [k \in InChain(c) |-> hosts[k]]
      BY <3>1 DEF Located
    <3> QED BY <2>5, <3>2 DEF RunsAt
  <2>6. CASE BareAt(m, hosts[m])
    BY <2>1, <2>6 DEF BareAt, Broken, Failing, GetChainsForNode
  <2> QED BY <2>4, <2>5, <2>6
<1>2. AInv /\ BInv => SuccessPropagates
  BY <1>1
<1> QED BY <1>2, ChainInvariant, PTL
=============================================================================
