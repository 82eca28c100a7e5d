-------------------------- MODULE Placement_proofs --------------------------
(***************************************************************************)
(* Profiles, their placements and the chains that use them, for every set  *)
(* of nodes, profiles, chains, ports and credentials and any number of     *)
(* requests and failures.                                                  *)
(***************************************************************************)
EXTENDS Placement, TLAPS, FiniteSetTheorems, FunctionTheorems, WellFoundedInduction

-----------------------------------------------------------------------------
(* The inductive invariant *)

InboundFields == {"port", "cred", "subnet"}
ChainFields   == {"entry", "ref", "tail", "kept"}
OpFields      == {"job", "prof", "want", "had", "left", "blocked", "chain"}

ChainShape(c) ==
    /\ DOMAIN chains[c] = ChainFields
    /\ \E k \in 1..Cardinality(Nodes) : chains[c].entry \in [1..k -> Nodes]
    /\ chains[c].ref \in [Entries(c) -> Profiles]

Shapes ==
    /\ profiles \in [Profiles -> Ports \cup {None}]
    /\ inbounds \in [Nodes -> [Profiles -> InboundType \cup {None}]]
    /\ DOMAIN chains = Chains /\ \A c \in Stored : ChainShape(c)
    /\ DOMAIN op = OpFields

\* A chain names nodes and profiles that exist.
References ==
    \A c \in Stored : /\ AllNodes(c) \subseteq hosts
                      /\ \A n \in Entries(c) : profiles[chains[c].ref[n]] # None

\* A request has the picture it started with: the nodes it still has to update carry the
\* profile and the ones it still has to add do not; the entries it still has to make are
\* those of its chain.
Pending ==
    /\ op.job \in {"place", "delete"} => op.prof \in Profiles
    /\ op.job = "place" =>
           /\ profiles[op.prof] # None
           /\ \A n \in Nodes : n \in op.left /\ n \in op.want =>
                 IF n \in op.had THEN Placed(n, op.prof) ELSE ~Placed(n, op.prof)
    /\ op.job = "ensure" => ChainShape(op.chain) /\ op.left \subseteq Entries(op.chain)

IInv == Shapes /\ References /\ Pending

-----------------------------------------------------------------------------
(* Subnets *)

LEMMA Least ==
    ASSUME NEW T, T \subseteq Nat, T # {}
    PROVE  \E x \in T : \A y \in T : x <= y
<1> DEFINE R == OpToRel(<, Nat)
<1>1. IsWellFoundedOn(R, Nat)
  BY NatLessThanWellFounded, Zenon
<1>2. \A x, y \in Nat : x < y => <<x, y>> \in R
  BY DEF OpToRel
<1> HIDE DEF R
<1>3. PICK x \in T : \A y \in T : ~(<<y, x>> \in R)
  BY <1>1, WFMin, Zenon
<1>4. ASSUME NEW y \in T PROVE x <= y
  <2>1. ~(y < x)
    BY <1>2, <1>3, Zenon
  <2> QED BY <2>1
<1> QED BY <1>4

\* A node never has more AWG subnets in use than there are profiles.
LEMMA FewSubnets ==
    ASSUME Shapes, NEW n \in Nodes
    PROVE  /\ IsFiniteSet(SubnetsInUseOnNode(n))
           /\ Cardinality(SubnetsInUseOnNode(n)) <= MaxSubnet
<1> DEFINE P == {r \in Profiles : AWG(r) /\ Placed(n, r)}
           T == SubnetsInUseOnNode(n)
           f == [p \in P |-> inbounds[n][p].subnet]
<1>1. IsFiniteSet(P) /\ Cardinality(P) <= Cardinality(Profiles)
  BY PlacementAssumption, FS_Subset
<1>2. T = {f[p] : p \in P}
  BY DEF SubnetsInUseOnNode
<1> HIDE DEF P
<1>3. f \in Surjection(P, T)
  BY <1>2 DEF Surjection
<1> HIDE DEF T, f
<1>4. IsFiniteSet(T) /\ Cardinality(T) <= Cardinality(P)
  BY <1>1, <1>3, FS_Surjection
<1>5. Cardinality(P) \in Nat /\ Cardinality(T) \in Nat /\ Cardinality(Profiles) \in Nat
  BY <1>1, <1>4, PlacementAssumption, FS_CardinalityType
<1> QED BY <1>1, <1>4, <1>5, PlacementAssumption DEF T

\* allocateAWGServerSubnet returns a subnet that is not taken.
LEMMA AllocationIsFree ==
    ASSUME NEW taken, IsFiniteSet(taken), Cardinality(taken) <= MaxSubnet
    PROVE  /\ AllocateAWGServerSubnet(taken) \in Subnets
           /\ AllocateAWGServerSubnet(taken) \notin taken
<1>0. MaxSubnet \in Nat
  BY PlacementAssumption
<1>1. CASE \E s \in 1..MaxSubnet : s \notin taken
  <2> DEFINE free == {s \in 1..MaxSubnet : s \notin taken}
             IsFirst(s) == s \notin taken /\ \A t \in 1..MaxSubnet : t \notin taken => s <= t
  <2>0. free \subseteq Nat /\ free # {}
    BY <1>0, <1>1
  <2> HIDE DEF free
  <2>1. \E s \in free : \A t \in free : s <= t
    BY <2>0, Least
  <2>2. \E s \in 1..MaxSubnet : IsFirst(s)
    BY <2>1 DEF free
  <2>3. AllocateAWGServerSubnet(taken) = CHOOSE s \in 1..MaxSubnet : IsFirst(s)
    BY <1>1 DEF AllocateAWGServerSubnet
  <2> HIDE DEF IsFirst
  <2>4. AllocateAWGServerSubnet(taken) \in 1..MaxSubnet /\ IsFirst(AllocateAWGServerSubnet(taken))
    BY <2>2, <2>3
  <2> QED BY <1>0, <2>4 DEF IsFirst, Subnets
<1>2. CASE \A s \in 1..MaxSubnet : s \in taken
  <2>1. 1..MaxSubnet \in SUBSET taken
    BY <1>2
  <2>2. Cardinality(1..MaxSubnet) = MaxSubnet
    BY <1>0, FS_Interval
  <2>3. Cardinality(taken) \in Nat
    BY FS_CardinalityType
  <2>4. Cardinality(1..MaxSubnet) <= Cardinality(taken)
    BY <2>1, FS_Subset
  <2>5. Cardinality(taken) = Cardinality(1..MaxSubnet)
    BY <1>0, <2>2, <2>3, <2>4
  <2>6. taken = 1..MaxSubnet
    BY <2>1, <2>5, FS_Subset
  <2>7. AllocateAWGServerSubnet(taken) = 0
    BY <1>2 DEF AllocateAWGServerSubnet
  <2> QED BY <1>0, <2>6, <2>7 DEF Subnets
<1> QED BY <1>1, <1>2

-----------------------------------------------------------------------------
(* Inbounds *)

InboundOrNone == InboundType \cup {None}

LEMMA InboundFacts ==
    ASSUME NEW ib \in InboundType
    PROVE  /\ ib # None /\ DOMAIN ib = InboundFields
           /\ ib.port \in AllPorts /\ ib.cred \in Creds /\ ib.subnet \in Subnets
BY PlacementAssumption DEF InboundType, InboundFields

\* One inbound is replaced.
LEMMA OneInbound ==
    ASSUME Shapes, NEW n \in Nodes, NEW p \in Profiles, NEW x \in InboundOrNone,
           inbounds' = [inbounds EXCEPT ![n][p] = x]
    PROVE  /\ inbounds' \in [Nodes -> [Profiles -> InboundOrNone]]
           /\ inbounds'[n][p] = x
           /\ \A m \in Nodes, r \in Profiles : m # n \/ r # p => inbounds'[m][r] = inbounds[m][r]
<1>1. inbounds \in [Nodes -> [Profiles -> InboundOrNone]]
  BY DEF Shapes, InboundOrNone
<1> QED BY <1>1

\* All inbounds of a node are dropped.
LEMMA NoInbounds ==
    ASSUME Shapes, NEW n \in Nodes,
           inbounds' = [inbounds EXCEPT ![n] = [p \in Profiles |-> None]]
    PROVE  /\ inbounds' \in [Nodes -> [Profiles -> InboundOrNone]]
           /\ \A p \in Profiles : inbounds'[n][p] = None
           /\ \A m \in Nodes, p \in Profiles : m # n => inbounds'[m][p] = inbounds[m][p]
<1>1. inbounds \in [Nodes -> [Profiles -> InboundOrNone]]
  BY DEF Shapes, InboundOrNone
<1> QED BY <1>1 DEF InboundOrNone

LEMMA SyncedFacts ==
    ASSUME NEW ib \in InboundType, NEW q \in Ports
    PROVE  Synced(ib, q) \in InboundType /\ Synced(ib, q).cred = ib.cred
           /\ Synced(ib, q).subnet = ib.subnet
<1>1. q \in AllPorts
  BY DEF AllPorts
<1> QED BY <1>1 DEF Synced, InboundType

LEMMA BuiltFacts ==
    ASSUME Shapes, NEW n \in Nodes, NEW p \in Profiles, NEW k \in Creds, profiles[p] # None
    PROVE  /\ BuildProfileInbound(n, p, k) \in InboundType
           /\ AWG(p) => BuildProfileInbound(n, p, k).subnet \notin SubnetsInUseOnNode(n)
<1> DEFINE s == IF AWG(p) THEN AllocateAWGServerSubnet(SubnetsInUseOnNode(n)) ELSE 0
<1>1. s \in Subnets /\ (AWG(p) => s \notin SubnetsInUseOnNode(n))
  BY FewSubnets, AllocationIsFree, PlacementAssumption DEF Subnets
<1>2. profiles[p] \in AllPorts
  BY DEF Shapes, AllPorts
<1>3. BuildProfileInbound(n, p, k) = [port |-> profiles[p], cred |-> k, subnet |-> s]
  BY DEF BuildProfileInbound
<1> HIDE DEF s
<1> QED BY <1>1, <1>2, <1>3 DEF InboundType

LEMMA ChainPortFacts ==
    ASSUME NEW c, ChainShape(c), NEW n \in Entries(c)
    PROVE  ChainEntryPort(c, n) \in AllPorts
<1> DEFINE entry == chains[c].entry
           index == CHOOSE i \in DOMAIN entry : entry[i] = n
<1>1. PICK k \in 1..Cardinality(Nodes) : entry \in [1..k -> Nodes]
  BY DEF ChainShape
<1>2. \E i \in DOMAIN entry : entry[i] = n
  BY DEF Entries
<1>3. index \in 1..k
  BY <1>1, <1>2
<1>4. ChainEntryPort(c, n) = UserPort + (index - 1)
  BY DEF ChainEntryPort
<1> HIDE DEF index
<1>5. Cardinality(Nodes) \in Nat /\ UserPort \in Nat
  BY PlacementAssumption, FS_CardinalityType
<1> QED BY <1>1, <1>3, <1>4, <1>5 DEF AllPorts

\* An entry's inbound that is there keeps its keys, and its subnet unless it moves to a
\* subnet that no other AWG inbound of the node has.
LEMMA MaterializedFacts ==
    ASSUME Shapes, NEW c, ChainShape(c), NEW n \in Entries(c), n \in Nodes,
           NEW p \in Profiles, NEW k \in Creds
    PROVE  /\ Materialized(c, n, p, k) \in InboundType
           /\ Placed(n, p) =>
                 /\ Materialized(c, n, p, k).cred = inbounds[n][p].cred
                 /\ \/ Materialized(c, n, p, k).subnet = inbounds[n][p].subnet
                    \/ /\ Materialized(c, n, p, k).subnet = 0
                       /\ ~SubnetClaimedOnNode(n, 0, p)
<1> DEFINE q == ChainEntryPort(c, n)
<1>1. q \in AllPorts /\ 0 \in Subnets
  BY ChainPortFacts, PlacementAssumption DEF Subnets
<1>2. CASE Placed(n, p)
  <2> DEFINE ib == inbounds[n][p]
             s == IF AWG(p) /\ ~SubnetClaimedOnNode(n, 0, p) THEN 0 ELSE ib.subnet
  <2>1. ib \in InboundType
    BY <1>2 DEF Shapes, Placed
  <2>2. s \in Subnets /\ (s = ib.subnet \/ (s = 0 /\ ~SubnetClaimedOnNode(n, 0, p)))
    BY <1>1, <2>1, InboundFacts
  <2>3. Materialized(c, n, p, k) = [ib EXCEPT !.port = q, !.subnet = s]
    BY <1>2 DEF Materialized
  <2> HIDE DEF q, s, ib
  <2>4. /\ [ib EXCEPT !.port = q, !.subnet = s] \in InboundType
        /\ [ib EXCEPT !.port = q, !.subnet = s].cred = ib.cred
        /\ [ib EXCEPT !.port = q, !.subnet = s].subnet = s
    BY <1>1, <2>1, <2>2 DEF InboundType
  <2> QED BY <2>2, <2>3, <2>4 DEF ib
<1>3. CASE ~Placed(n, p)
  <2>1. Materialized(c, n, p, k) = [port |-> q, cred |-> k, subnet |-> 0]
    BY <1>3 DEF Materialized
  <2> HIDE DEF q
  <2> QED BY <1>1, <1>3, <2>1 DEF InboundType
<1> QED BY <1>2, <1>3

-----------------------------------------------------------------------------
(* What the steps do *)

LEMMA IdleFacts == DOMAIN Idle = OpFields /\ Idle.job = "idle"
BY DEF Idle, OpFields

LEMMA PlaceJobFacts ==
    ASSUME NEW job, NEW p, NEW want, op' = PlaceJob(job, p, want)
    PROVE  /\ DOMAIN op' = OpFields /\ op'.job = job /\ op'.prof = p /\ op'.want = want
           /\ op'.had = ProfileNodes(p) /\ op'.left = ProfileNodes(p) \cup want
BY DEF Idle, PlaceJob, OpFields

LEMMA EnsureJobFacts ==
    ASSUME NEW c, NEW left, op' = EnsureJob(c, left)
    PROVE  DOMAIN op' = OpFields /\ op'.job = "ensure" /\ op'.chain = c /\ op'.left = left
BY DEF Idle, EnsureJob, OpFields

\* A step of the request under way that leaves its picture as it is.
SameRequest(n) ==
    /\ DOMAIN op' = OpFields /\ op'.job = op.job /\ op'.prof = op.prof /\ op'.want = op.want
    /\ op'.had = op.had /\ op'.chain = op.chain /\ op'.left = op.left \ {n}

LEMMA StepOf ==
    ASSUME Shapes, NEW n, NEW b, op' = [op EXCEPT !.left = @ \ {n}, !.blocked = b]
    PROVE  SameRequest(n)
BY DEF Shapes, OpFields, SameRequest

LEMMA PlainStepOf ==
    ASSUME Shapes, NEW n, op' = [op EXCEPT !.left = @ \ {n}]
    PROVE  SameRequest(n)
BY DEF Shapes, OpFields, SameRequest

\* How one inbound may change.
Removed(n, p) == inbounds'[n][p] = None /\ ~ChainReferencingProfileOn(p, n)
Edited(n, p) ==
    /\ Placed(n, p) /\ inbounds'[n][p] \in InboundType
    /\ inbounds'[n][p].cred = inbounds[n][p].cred /\ inbounds'[n][p].subnet = inbounds[n][p].subnet
Added(n, p) ==
    /\ ~Placed(n, p) /\ inbounds'[n][p] \in InboundType
    /\ AWG(p) => inbounds'[n][p].subnet \notin SubnetsInUseOnNode(n)
Ensured(n, p) ==
    /\ op.job = "ensure" /\ inbounds'[n][p] \in InboundType
    /\ Placed(n, p) =>
          /\ inbounds'[n][p].cred = inbounds[n][p].cred
          /\ \/ inbounds'[n][p].subnet = inbounds[n][p].subnet
             \/ inbounds'[n][p].subnet = 0 /\ ~SubnetClaimedOnNode(n, 0, p)

OnlyOne(n, p) ==
    /\ inbounds' \in [Nodes -> [Profiles -> InboundOrNone]]
    /\ \A m \in Nodes, r \in Profiles : m # n \/ r # p => inbounds'[m][r] = inbounds[m][r]

LEMMA OnlyOneStep ==
    ASSUME Shapes, NEW n \in Nodes, NEW p \in Profiles, NEW x, x \in InboundOrNone,
           inbounds' = [inbounds EXCEPT ![n][p] = x]
    PROVE  OnlyOne(n, p) /\ inbounds'[n][p] = x
<1>1. inbounds \in [Nodes -> [Profiles -> InboundOrNone]]
  BY DEF Shapes, InboundOrNone
<1> QED BY <1>1 DEF OnlyOne

LEMMA RemoveStepFacts ==
    ASSUME IInv, NEW n \in Nodes, RemoveStep(n)
    PROVE  /\ UNCHANGED <<hosts, profiles, chains>> /\ SameRequest(n)
           /\ op.job \in {"place", "delete"} /\ n \notin op.want
           /\ UNCHANGED inbounds \/ (OnlyOne(n, op.prof) /\ Removed(n, op.prof))
<1>1. /\ UNCHANGED <<hosts, profiles, chains>> /\ op.job \in {"place", "delete"} /\ Rank(n) = 1
      /\ \/ UNCHANGED inbounds
         \/ /\ ~ChainReferencingProfileOn(op.prof, n)
            /\ inbounds' = [inbounds EXCEPT ![n][op.prof] = None]
      /\ \E b : op' = [op EXCEPT !.left = @ \ {n}, !.blocked = b]
  BY DEF RemoveStep
<1>2. Shapes /\ op.prof \in Profiles
  BY <1>1 DEF IInv, Pending
<1>3. SameRequest(n)
  BY <1>1, <1>2, StepOf
<1>4. n \notin op.want
  BY <1>1 DEF Rank
<1>5. None \in InboundOrNone
  BY DEF InboundOrNone
<1> QED BY <1>1, <1>2, <1>3, <1>4, <1>5, OneInbound DEF OnlyOne, Removed

LEMMA SyncStepFacts ==
    ASSUME IInv, NEW n \in Nodes, SyncStep(n)
    PROVE  /\ UNCHANGED <<hosts, profiles, chains>> /\ SameRequest(n) /\ op.job = "place"
           /\ OnlyOne(n, op.prof) /\ Edited(n, op.prof)
<1>1. /\ UNCHANGED <<hosts, profiles, chains>> /\ op.job = "place" /\ Rank(n) = 2 /\ n \in op.left
      /\ inbounds' = [inbounds EXCEPT ![n][op.prof] = Synced(inbounds[n][op.prof], profiles[op.prof])]
      /\ op' = [op EXCEPT !.left = @ \ {n}]
  BY DEF SyncStep, Turn
<1>2. Shapes /\ op.prof \in Profiles /\ profiles[op.prof] # None
  BY <1>1 DEF IInv, Pending
<1>3. n \in op.want /\ n \in op.had
  BY <1>1 DEF Rank
<1>4. Placed(n, op.prof)
  BY <1>1, <1>3 DEF IInv, Pending
<1>5. inbounds[n][op.prof] \in InboundType /\ profiles[op.prof] \in Ports
  BY <1>2, <1>4 DEF Shapes, Placed
<1> DEFINE x == Synced(inbounds[n][op.prof], profiles[op.prof])
<1>6. /\ x \in InboundType /\ x.cred = inbounds[n][op.prof].cred
      /\ x.subnet = inbounds[n][op.prof].subnet
  BY <1>5, SyncedFacts
<1> HIDE DEF x
<1>7. x \in InboundOrNone /\ inbounds' = [inbounds EXCEPT ![n][op.prof] = x]
  BY <1>1, <1>6 DEF InboundOrNone, x
<1>8. OnlyOne(n, op.prof) /\ inbounds'[n][op.prof] = x
  BY <1>2, <1>7, OnlyOneStep
<1>9. Edited(n, op.prof)
  BY <1>4, <1>6, <1>8 DEF Edited
<1> QED BY <1>1, <1>2, <1>8, <1>9, PlainStepOf

LEMMA AddStepFacts ==
    ASSUME IInv, NEW n \in Nodes, NEW k \in Creds, AddStep(n, k)
    PROVE  /\ UNCHANGED <<hosts, profiles, chains>> /\ SameRequest(n) /\ op.job = "place"
           /\ OnlyOne(n, op.prof) /\ Added(n, op.prof)
<1>1. /\ UNCHANGED <<hosts, profiles, chains>> /\ op.job = "place" /\ Rank(n) = 3 /\ n \in op.left
      /\ inbounds' = [inbounds EXCEPT ![n][op.prof] = BuildProfileInbound(n, op.prof, k)]
      /\ op' = [op EXCEPT !.left = @ \ {n}]
  BY DEF AddStep, Turn
<1>2. Shapes /\ op.prof \in Profiles /\ profiles[op.prof] # None
  BY <1>1 DEF IInv, Pending
<1>3. n \in op.want /\ n \notin op.had
  BY <1>1 DEF Rank
<1>4. ~Placed(n, op.prof)
  BY <1>1, <1>3 DEF IInv, Pending
<1> DEFINE x == BuildProfileInbound(n, op.prof, k)
<1>5. x \in InboundType /\ (AWG(op.prof) => x.subnet \notin SubnetsInUseOnNode(n))
  BY <1>2, BuiltFacts
<1> HIDE DEF x
<1>6. x \in InboundOrNone /\ inbounds' = [inbounds EXCEPT ![n][op.prof] = x]
  BY <1>1, <1>5 DEF InboundOrNone, x
<1>7. OnlyOne(n, op.prof) /\ inbounds'[n][op.prof] = x
  BY <1>2, <1>6, OnlyOneStep
<1>8. Added(n, op.prof)
  BY <1>4, <1>5, <1>7 DEF Added
<1> QED BY <1>1, <1>2, <1>7, <1>8, PlainStepOf

LEMMA EnsureStepFacts ==
    ASSUME IInv, NEW n \in Nodes, NEW k \in Creds, EnsureStep(n, k)
    PROVE  /\ UNCHANGED <<hosts, profiles, chains>> /\ SameRequest(n) /\ op.job = "ensure"
           /\ \E p \in Profiles : OnlyOne(n, p) /\ Ensured(n, p)
<1> DEFINE p == chains[op.chain].ref[n]
           x == Materialized(op.chain, n, p, k)
<1>1. /\ UNCHANGED <<hosts, profiles, chains>> /\ op.job = "ensure" /\ n \in op.left
      /\ inbounds' = [inbounds EXCEPT ![n][p] = x]
      /\ op' = [op EXCEPT !.left = @ \ {n}]
  BY DEF EnsureStep
<1>2. Shapes /\ ChainShape(op.chain) /\ n \in Entries(op.chain)
  BY <1>1 DEF IInv, Pending
<1>3. p \in Profiles
  BY <1>2, PlacementAssumption DEF ChainShape
<1>4. /\ x \in InboundType
      /\ Placed(n, p) =>
            /\ x.cred = inbounds[n][p].cred
            /\ x.subnet = inbounds[n][p].subnet \/ (x.subnet = 0 /\ ~SubnetClaimedOnNode(n, 0, p))
  BY <1>2, <1>3, MaterializedFacts
<1> HIDE DEF x, p
<1>5. x \in InboundOrNone
  BY <1>4 DEF InboundOrNone
<1>6. OnlyOne(n, p) /\ inbounds'[n][p] = x
  BY <1>1, <1>2, <1>3, <1>5, OnlyOneStep
<1>7. Ensured(n, p)
  BY <1>1, <1>4, <1>6 DEF Ensured
<1> QED BY <1>1, <1>2, <1>3, <1>6, <1>7, PlainStepOf

-----------------------------------------------------------------------------
(* Every step keeps the invariant *)

LEMMA SameChains ==
    ASSUME UNCHANGED chains
    PROVE  /\ Stored' = Stored
           /\ \A c : Entries(c)' = Entries(c) /\ AllNodes(c)' = AllNodes(c)
           /\ \A c : ChainShape(c) => ChainShape(c)'
BY DEF Stored, Entries, AllNodes, ChainShape

LEMMA EntryFacts ==
    ASSUME Shapes, NEW c \in Stored, NEW n \in Entries(c)
    PROVE  n \in Nodes /\ chains[c].ref[n] \in Profiles /\ chains[c].ref[n] \in Profiles
<1>1. PICK k \in 1..Cardinality(Nodes) : chains[c].entry \in [1..k -> Nodes]
  BY DEF Shapes, ChainShape
<1>2. n \in Nodes
  BY <1>1 DEF Entries
<1>3. chains[c].ref[n] \in Profiles
  BY DEF Shapes, ChainShape
<1> QED BY <1>2, <1>3, PlacementAssumption

\* The steps of a request that has begun.
LEMMA RequestStepInv ==
    ASSUME IInv, NEW n \in Nodes, NEW p \in Profiles, OnlyOne(n, p) \/ UNCHANGED inbounds,
           UNCHANGED <<hosts, profiles, chains>>, SameRequest(n),
           op.job \in {"place", "delete"} => p = op.prof
    PROVE  IInv'
<1>1. Shapes'
  BY SameChains DEF IInv, Shapes, OnlyOne, SameRequest, InboundOrNone
<1>2. References'
  BY SameChains DEF IInv, References
<1>3. Pending'
  <2>1. ASSUME op.job = "place", NEW m \in Nodes, m # n
        PROVE  inbounds'[m][op.prof] = inbounds[m][op.prof]
    BY <2>1 DEF OnlyOne, IInv, Pending
  <2>2. (op.job = "ensure" => ChainShape(op.chain) /\ op.left \subseteq Entries(op.chain))'
    BY DEF IInv, Pending, SameRequest, ChainShape, Entries
  <2>3. (op.job = "place" => \A m \in Nodes : m \in op.left /\ m \in op.want =>
                 IF m \in op.had THEN Placed(m, op.prof) ELSE ~Placed(m, op.prof))'
    BY <2>1 DEF IInv, Pending, SameRequest, Placed
  <2> QED BY <2>2, <2>3 DEF IInv, Pending, SameRequest
<1> QED BY <1>1, <1>2, <1>3 DEF IInv

\* A request ends, or an application of a chain begins, and nothing is written.
LEMMA NoWriteInv ==
    ASSUME IInv, UNCHANGED <<hosts, profiles, inbounds, chains>>, DOMAIN op' = OpFields,
           Pending'
    PROVE  IInv'
<1>1. Shapes'
  BY SameChains DEF IInv, Shapes
<1>2. References'
  BY SameChains DEF IInv, References
<1> QED BY <1>1, <1>2 DEF IInv

LEMMA IdlePending == ASSUME op' = Idle PROVE DOMAIN op' = OpFields /\ Pending'
BY IdleFacts DEF Pending

LEMMA SaveInboundInv ==
    ASSUME IInv, NEW p \in Profiles, NEW q \in Ports, NEW want \in SUBSET Nodes,
           SaveInbound(p, q, want)
    PROVE  IInv' /\ UNCHANGED <<hosts, inbounds, chains>>
<1>1. /\ UNCHANGED <<hosts, inbounds, chains>> /\ profiles' = [profiles EXCEPT ![p] = q]
      /\ op' = Idle \/ op' = PlaceJob("place", p, want)
  BY DEF SaveInbound
<1>2. q # None
  BY PlacementAssumption
<1>3. /\ profiles' \in [Profiles -> Ports \cup {None}] /\ profiles'[p] = q
      /\ \A r \in Profiles : profiles[r] # None => profiles'[r] # None
  BY <1>1, <1>2 DEF IInv, Shapes
<1>4. DOMAIN op' = OpFields /\ Pending'
  <2>1. CASE op' = Idle
    BY <2>1, IdlePending
  <2>2. CASE op' = PlaceJob("place", p, want)
    <3>1. /\ DOMAIN op' = OpFields /\ op'.job = "place" /\ op'.prof = p /\ op'.want = want
          /\ op'.had = ProfileNodes(p) /\ op'.left = ProfileNodes(p) \cup want
      BY <2>2, PlaceJobFacts
    <3>2. \A n \in Nodes : n \in op'.had <=> Placed(n, p)'
      BY <1>1, <3>1 DEF ProfileNodes, Placed
    <3> QED BY <1>2, <1>3, <3>1, <3>2 DEF Pending
  <2> QED BY <1>1, <2>1, <2>2
<1>5. Shapes'
  BY <1>1, <1>3, <1>4, SameChains DEF IInv, Shapes
<1>6. References'
  <2>1. \A c \in Stored : \A n \in Entries(c) : chains[c].ref[n] \in Profiles
    BY EntryFacts DEF IInv
  <2> QED BY <1>1, <1>3, <2>1, SameChains DEF IInv, References
<1> QED BY <1>1, <1>4, <1>5, <1>6 DEF IInv

LEMMA DeleteInboundInv ==
    ASSUME IInv, NEW p \in Profiles, DeleteInbound(p)
    PROVE  IInv' /\ UNCHANGED <<hosts, profiles, inbounds, chains>>
<1>1. UNCHANGED <<hosts, profiles, inbounds, chains>> /\ op' = PlaceJob("delete", p, {})
  BY DEF DeleteInbound
<1>2. DOMAIN op' = OpFields /\ op'.job = "delete" /\ op'.prof = p
  BY <1>1, PlaceJobFacts
<1>3. Pending'
  BY <1>2 DEF Pending
<1> QED BY <1>1, <1>2, <1>3, NoWriteInv

LEMMA FinishDeleteInv ==
    ASSUME IInv, FinishDelete
    PROVE  IInv' /\ UNCHANGED <<hosts, inbounds, chains>>
<1>1. /\ UNCHANGED <<hosts, inbounds, chains>> /\ op' = Idle /\ op.prof \in Profiles
      /\ \/ UNCHANGED profiles
         \/ /\ ~\E n \in Nodes : ChainReferencingProfileOn(op.prof, n)
            /\ profiles' = [profiles EXCEPT ![op.prof] = None]
  BY DEF FinishDelete, IInv, Pending
<1>2. DOMAIN op' = OpFields /\ Pending'
  BY <1>1, IdlePending
<1>3. Shapes'
  BY <1>1, <1>2, SameChains DEF IInv, Shapes
<1>4. \A c \in Stored : \A n \in Entries(c) :
         /\ n \in Nodes /\ chains[c].ref[n] \in Profiles
         /\ ChainReferencingProfileOn(chains[c].ref[n], n)
  <2>1. ASSUME NEW c \in Stored, NEW n \in Entries(c)
        PROVE  n \in Nodes /\ chains[c].ref[n] \in Profiles
    BY EntryFacts DEF IInv
  <2>2. ASSUME NEW c \in Stored, NEW n \in Entries(c)
        PROVE  ChainReferencingProfileOn(chains[c].ref[n], n)
    BY DEF ChainReferencingProfileOn
  <2> QED BY <2>1, <2>2
<1>5. \A c \in Stored : \A n \in Entries(c) : profiles'[chains[c].ref[n]] = profiles[chains[c].ref[n]]
  BY <1>1, <1>4 DEF IInv, Shapes
<1>6. References'
  BY <1>1, <1>5, SameChains DEF IInv, References
<1> QED BY <1>1, <1>2, <1>3, <1>6 DEF IInv

\* What the chain form can send.
ChainForm(entry, ref, tail) ==
    /\ \E k \in 1..Cardinality(Nodes) : entry \in [1..k -> Nodes]
    /\ tail \subseteq Nodes
    /\ ref \in [{entry[i] : i \in DOMAIN entry} -> Profiles]

LEMMA SaveChainInv ==
    ASSUME IInv, NEW c \in Chains, NEW entry, NEW tail, NEW ref,
           ChainForm(entry, ref, tail), SaveChain(c, entry, ref, tail)
    PROVE  /\ IInv' /\ UNCHANGED <<hosts, profiles, inbounds>>
           /\ \A d \in Chains : d # c => chains'[d] = chains[d]
           /\ chains'[c].entry = entry /\ chains'[c].ref = ref
<1>0. PICK k \in 1..Cardinality(Nodes) : /\ entry \in [1..k -> Nodes] /\ tail \subseteq Nodes
                                         /\ ref \in [{entry[i] : i \in DOMAIN entry} -> Profiles]
  BY DEF ChainForm
<1> DEFINE new == [entry |-> entry, ref |-> ref, tail |-> tail,
                   kept |-> [n \in tail |-> KeptRef(c, n)]]
<1>1. /\ UNCHANGED <<hosts, profiles, inbounds>> /\ chains' = [chains EXCEPT ![c] = new]
      /\ op' = EnsureJob(c, {entry[i] : i \in DOMAIN entry}) /\ ParsesLevels(entry, ref, tail)
  BY DEF SaveChain
<1>2. new.entry = entry /\ new.ref = ref /\ new.tail = tail /\ DOMAIN new = ChainFields
  BY DEF ChainFields
<1> HIDE DEF new
<1>3. /\ DOMAIN chains' = Chains /\ chains'[c] = new
      /\ \A d \in Chains : d # c => chains'[d] = chains[d]
  BY <1>1 DEF IInv, Shapes
<1>4. /\ Entries(c)' = {entry[i] : i \in DOMAIN entry}
      /\ AllNodes(c)' = {entry[i] : i \in DOMAIN entry} \cup tail
  BY <1>2, <1>3 DEF Entries, AllNodes
<1>5. \A d \in Stored' : d # c => /\ d \in Stored /\ chains'[d] = chains[d]
                                  /\ Entries(d)' = Entries(d) /\ AllNodes(d)' = AllNodes(d)
  BY <1>3 DEF Stored, Entries, AllNodes
<1>6. ChainShape(c)'
  BY <1>0, <1>2, <1>3, <1>4 DEF ChainShape
<1>7. \A d \in Stored' : ChainShape(d)'
  BY <1>5, <1>6 DEF ChainShape, IInv, Shapes
<1>8. /\ DOMAIN op' = OpFields /\ op'.job = "ensure" /\ op'.chain = c
      /\ op'.left = {entry[i] : i \in DOMAIN entry}
  BY <1>1, EnsureJobFacts
<1>9. Shapes'
  BY <1>1, <1>3, <1>7, <1>8 DEF IInv, Shapes
<1>10. Pending'
  BY <1>4, <1>6, <1>8 DEF Pending
<1>11. References'
  <2>1. /\ AllNodes(c)' \subseteq hosts'
        /\ \A n \in Entries(c)' : profiles'[chains'[c].ref[n]] # None
    BY <1>1, <1>2, <1>3, <1>4 DEF ParsesLevels
  <2>2. \A d \in Stored' : d # c =>
           /\ AllNodes(d)' \subseteq hosts'
           /\ \A n \in Entries(d)' : profiles'[chains'[d].ref[n]] # None
    BY <1>1, <1>5 DEF IInv, References
  <2> QED BY <2>1, <2>2 DEF References
<1> QED BY <1>1, <1>2, <1>3, <1>9, <1>10, <1>11 DEF IInv

LEMMA ApplyChainInv ==
    ASSUME IInv, NEW c \in Chains, ApplyChain(c)
    PROVE  IInv' /\ UNCHANGED <<hosts, profiles, inbounds, chains>>
<1>1. UNCHANGED <<hosts, profiles, inbounds, chains>> /\ op' = EnsureJob(c, Entries(c)) /\ c \in Stored
  BY DEF ApplyChain
<1>2. DOMAIN op' = OpFields /\ op'.job = "ensure" /\ op'.chain = c /\ op'.left = Entries(c)
  BY <1>1, EnsureJobFacts
<1>3. ChainShape(c)' /\ Entries(c)' = Entries(c)
  BY <1>1, SameChains DEF IInv, Shapes
<1>4. Pending'
  BY <1>2, <1>3 DEF Pending
<1> QED BY <1>1, <1>2, <1>4, NoWriteInv

LEMMA DeleteChainInv ==
    ASSUME IInv, NEW c \in Chains, DeleteChain(c)
    PROVE  /\ IInv' /\ UNCHANGED <<hosts, profiles, inbounds>>
           /\ \A d \in Stored' : d \in Stored /\ chains'[d] = chains[d]
<1>1. /\ UNCHANGED <<hosts, profiles, inbounds>> /\ chains' = [chains EXCEPT ![c] = None]
      /\ op' = Idle
  BY DEF DeleteChain
<1>2. DOMAIN op' = OpFields /\ Pending'
  BY <1>1, IdlePending
<1>3. DOMAIN chains' = Chains /\ \A d \in Stored' : d \in Stored /\ chains'[d] = chains[d]
  BY <1>1 DEF IInv, Shapes, Stored
<1>4. \A d \in Stored' : /\ Entries(d)' = Entries(d) /\ AllNodes(d)' = AllNodes(d)
                         /\ ChainShape(d) => ChainShape(d)'
  <2> SUFFICES ASSUME NEW d \in Stored'
               PROVE  /\ Entries(d)' = Entries(d) /\ AllNodes(d)' = AllNodes(d)
                      /\ ChainShape(d) => ChainShape(d)'
    OBVIOUS
  <2>1. chains'[d] = chains[d]
    BY <1>3
  <2>2. Entries(d)' = Entries(d) /\ AllNodes(d)' = AllNodes(d)
    BY <2>1 DEF Entries, AllNodes
  <2> QED BY <2>1, <2>2 DEF ChainShape
<1>5. Shapes'
  BY <1>1, <1>2, <1>3, <1>4 DEF IInv, Shapes
<1>6. References'
  BY <1>1, <1>3, <1>4 DEF IInv, References
<1> QED BY <1>1, <1>2, <1>3, <1>5, <1>6 DEF IInv

LEMMA NodeInv ==
    ASSUME IInv, NEW n \in Nodes, DeleteNode(n) \/ CaptureNode(n)
    PROVE  /\ IInv' /\ UNCHANGED <<profiles, chains>>
           /\ \A p \in Profiles : inbounds'[n][p] = None
           /\ \A m \in Nodes, p \in Profiles : m # n => inbounds'[m][p] = inbounds[m][p]
<1>1. /\ UNCHANGED <<profiles, chains>> /\ op' = Idle
      /\ inbounds' = [inbounds EXCEPT ![n] = [p \in Profiles |-> None]]
      /\ hosts \subseteq hosts' \/ (hosts' = hosts \ {n} /\ HostDeletable(n))
  BY DEF DeleteNode, CaptureNode
<1>2. DOMAIN op' = OpFields /\ Pending'
  BY <1>1, IdlePending
<1>3. /\ inbounds' \in [Nodes -> [Profiles -> InboundOrNone]]
      /\ \A p \in Profiles : inbounds'[n][p] = None
      /\ \A m \in Nodes, p \in Profiles : m # n => inbounds'[m][p] = inbounds[m][p]
  BY <1>1, NoInbounds DEF IInv
<1>4. Shapes'
  BY <1>1, <1>2, <1>3, SameChains DEF IInv, Shapes, InboundOrNone
<1>5. References'
  BY <1>1, SameChains DEF IInv, References, HostDeletable
<1> QED BY <1>1, <1>2, <1>3, <1>4, <1>5 DEF IInv

\* What a step makes of the inbounds and the chains.
OneStep ==
    \E n \in Nodes, p \in Profiles :
        /\ OnlyOne(n, p) /\ UNCHANGED chains
        /\ Removed(n, p) \/ Edited(n, p) \/ Added(n, p) \/ Ensured(n, p)

ChainStep ==
    /\ UNCHANGED inbounds
    /\ \E c \in Chains :
          /\ \A d \in Stored' : d # c => d \in Stored /\ chains'[d] = chains[d]
          /\ c \in Stored' => \A n \in Entries(c)' : Placed(n, chains'[c].ref[n])

NodeStep ==
    \E n \in Nodes :
        /\ UNCHANGED chains
        /\ HostDeletable(n) \/ CaptureNode(n)
        /\ \A p \in Profiles : inbounds'[n][p] = None
        /\ \A m \in Nodes, p \in Profiles : m # n => inbounds'[m][p] = inbounds[m][p]

LEMMA StepInv ==
    ASSUME IInv, Next
    PROVE  IInv' /\ (UNCHANGED <<inbounds, chains>> \/ OneStep \/ ChainStep \/ NodeStep)
<1>1. ASSUME NEW p \in Profiles, NEW q \in Ports, NEW want \in SUBSET Nodes, SaveInbound(p, q, want)
      PROVE  IInv' /\ UNCHANGED <<inbounds, chains>>
  BY <1>1, SaveInboundInv
<1>2. ASSUME NEW p \in Profiles, DeleteInbound(p)
      PROVE  IInv' /\ UNCHANGED <<inbounds, chains>>
  BY <1>2, DeleteInboundInv
<1>3. ASSUME NEW n \in Nodes, RemoveStep(n)
      PROVE  IInv' /\ (UNCHANGED <<inbounds, chains>> \/ OneStep)
  <2>1. /\ UNCHANGED <<hosts, profiles, chains>> /\ SameRequest(n)
        /\ op.job \in {"place", "delete"}
        /\ UNCHANGED inbounds \/ (OnlyOne(n, op.prof) /\ Removed(n, op.prof))
    BY <1>3, RemoveStepFacts
  <2>2. op.prof \in Profiles
    BY <2>1 DEF IInv, Pending
  <2>3. IInv'
    BY <2>1, <2>2, RequestStepInv
  <2> QED BY <2>1, <2>2, <2>3 DEF OneStep
<1>4. ASSUME NEW n \in Nodes, SyncStep(n)
      PROVE  IInv' /\ OneStep
  <2>1. /\ UNCHANGED <<hosts, profiles, chains>> /\ SameRequest(n) /\ op.job = "place"
        /\ OnlyOne(n, op.prof) /\ Edited(n, op.prof)
    BY <1>4, SyncStepFacts
  <2>2. op.prof \in Profiles
    BY <2>1 DEF IInv, Pending
  <2>3. IInv'
    BY <2>1, <2>2, RequestStepInv
  <2> QED BY <2>1, <2>2, <2>3 DEF OneStep
<1>5. ASSUME NEW n \in Nodes, NEW k \in Creds, AddStep(n, k)
      PROVE  IInv' /\ OneStep
  <2>1. /\ UNCHANGED <<hosts, profiles, chains>> /\ SameRequest(n) /\ op.job = "place"
        /\ OnlyOne(n, op.prof) /\ Added(n, op.prof)
    BY <1>5, AddStepFacts
  <2>2. op.prof \in Profiles
    BY <2>1 DEF IInv, Pending
  <2>3. IInv'
    BY <2>1, <2>2, RequestStepInv
  <2> QED BY <2>1, <2>2, <2>3 DEF OneStep
<1>6. ASSUME NEW n \in Nodes, NEW k \in Creds, EnsureStep(n, k)
      PROVE  IInv' /\ OneStep
  <2>1. /\ UNCHANGED <<hosts, profiles, chains>> /\ SameRequest(n) /\ op.job = "ensure"
        /\ \E p \in Profiles : OnlyOne(n, p) /\ Ensured(n, p)
    BY <1>6, EnsureStepFacts
  <2>2. PICK p \in Profiles : OnlyOne(n, p) /\ Ensured(n, p)
    BY <2>1
  <2>3. IInv'
    BY <2>1, <2>2, RequestStepInv
  <2> QED BY <2>1, <2>2, <2>3 DEF OneStep
<1>7. ASSUME FinishPlace \/ FinishEnsure \/ Fault
      PROVE  IInv' /\ UNCHANGED <<inbounds, chains>>
  BY <1>7, IdlePending, NoWriteInv DEF FinishPlace, FinishEnsure, Fault
<1>8. ASSUME FinishDelete
      PROVE  IInv' /\ UNCHANGED <<inbounds, chains>>
  BY <1>8, FinishDeleteInv
<1>9. ASSUME NEW c \in Chains, NEW entry, NEW tail, NEW ref,
             ChainForm(entry, ref, tail), SaveChain(c, entry, ref, tail)
      PROVE  IInv' /\ ChainStep
  <2>1. /\ IInv' /\ UNCHANGED <<hosts, profiles, inbounds>>
        /\ \A d \in Chains : d # c => chains'[d] = chains[d]
        /\ chains'[c].entry = entry /\ chains'[c].ref = ref
    BY <1>9, SaveChainInv
  <2>2. ParsesLevels(entry, ref, tail)
    BY <1>9 DEF SaveChain
  <2>3. \A n \in Entries(c)' : Placed(n, chains'[c].ref[n])
    BY <2>1, <2>2 DEF Entries, ParsesLevels
  <2>4. \A d \in Stored' : d # c => d \in Stored /\ chains'[d] = chains[d]
    BY <2>1 DEF Stored
  <2> QED BY <2>1, <2>3, <2>4 DEF ChainStep
<1>10. ASSUME NEW c \in Chains, ApplyChain(c)
       PROVE  IInv' /\ UNCHANGED <<inbounds, chains>>
  BY <1>10, ApplyChainInv
<1>11. ASSUME NEW c \in Chains, DeleteChain(c)
       PROVE  IInv' /\ ChainStep
  <2>1. c \notin Stored'
    BY <1>11 DEF DeleteChain, Stored, IInv, Shapes
  <2> QED BY <1>11, <2>1, DeleteChainInv DEF ChainStep
<1>12. ASSUME NEW n \in Nodes, DeleteNode(n) \/ CaptureNode(n)
       PROVE  IInv' /\ NodeStep
  <2>1. HostDeletable(n) \/ CaptureNode(n)
    BY <1>12 DEF DeleteNode
  <2> QED BY <1>12, <2>1, NodeInv DEF NodeStep
<1> QED BY <1>1, <1>2, <1>3, <1>4, <1>5, <1>6, <1>7, <1>8, <1>9, <1>10, <1>11, <1>12, Zenon DEF Next, ChainForm

LEMMA InitInv == ASSUME Init PROVE IInv
<1>1. Stored = {}
  BY DEF Init, Stored
<1>2. Shapes
  BY <1>1, IdleFacts DEF Init, Shapes
<1> QED BY <1>1, <1>2, IdleFacts DEF Init, IInv, References, Pending

LEMMA StutterInv == ASSUME IInv, UNCHANGED vars PROVE IInv'
<1>1. Pending'
  BY DEF IInv, Pending, Placed, ChainShape, Entries, vars
<1> QED BY <1>1, NoWriteInv DEF IInv, Shapes, vars

LEMMA Inductive == Spec => []IInv
<1>1. IInv /\ [Next]_vars => IInv'
  BY StepInv, StutterInv
<1> QED BY <1>1, InitInv, PTL DEF Spec

-----------------------------------------------------------------------------
(* Theorems *)

\* Keys are made once: a step that leaves an inbound in place leaves its credentials.
\* Placements, edits, chains and their applications, cut short or not, never replace them.
THEOREM CredsStableThm == Spec => CredsStable
<1> DEFINE Kept == \A n \in Nodes, p \in Profiles :
              Placed(n, p) /\ inbounds'[n][p] # None => inbounds'[n][p].cred = inbounds[n][p].cred
<1>1. IInv /\ [Next]_vars => [Kept]_vars
  <2>1. SUFFICES ASSUME IInv, Next
                 PROVE  Kept
    BY Zenon
  <2>2. CASE UNCHANGED inbounds
    BY <2>2
  <2>3. CASE OneStep
    BY <2>3 DEF OneStep, OnlyOne, Removed, Edited, Added, Ensured
  <2>4. CASE NodeStep
    BY <2>4 DEF NodeStep
  <2> QED BY <2>1, <2>2, <2>3, <2>4, StepInv DEF ChainStep
<1> QED BY <1>1, Inductive, PTL DEF Spec, CredsStable

\* A placement allocates a free subnet and an entry moves only to a free one, for any
\* profiles, nodes and history of requests; only an entry that is made again, after a
\* capture dropped its inbound, may meet another inbound.
THEOREM SubnetsStayDisjointThm == Spec => SubnetsStayDisjoint
<1> DEFINE Apart == \A n \in Nodes : \A p, r \in {s \in Profiles : AWG(s) /\ inbounds'[n][s] # None} :
              p # r /\ inbounds'[n][p].subnet = inbounds'[n][r].subnet =>
                \/ Placed(n, p) /\ Placed(n, r) /\ inbounds[n][p].subnet = inbounds[n][r].subnet
                \/ op.job = "ensure" /\ (~Placed(n, p) \/ ~Placed(n, r))
<1>1. IInv /\ [Next]_vars => [Apart]_vars
  <2>1. SUFFICES ASSUME IInv, Next
                 PROVE  Apart
    BY Zenon
  <2>2. CASE UNCHANGED inbounds
    BY <2>2 DEF Placed
  <2>3. CASE OneStep
    <3>1. PICK m \in Nodes, s \in Profiles :
             /\ OnlyOne(m, s)
             /\ Removed(m, s) \/ Edited(m, s) \/ Added(m, s) \/ Ensured(m, s)
      BY <2>3 DEF OneStep
    <3>2. SUFFICES ASSUME NEW r \in Profiles, AWG(s), AWG(r), s # r,
                          inbounds'[m][s] # None, inbounds'[m][r] # None,
                          inbounds'[m][s].subnet = inbounds'[m][r].subnet
                   PROVE  \/ /\ Placed(m, s) /\ Placed(m, r)
                             /\ inbounds[m][s].subnet = inbounds[m][r].subnet
                          \/ op.job = "ensure" /\ (~Placed(m, s) \/ ~Placed(m, r))
      BY <3>1 DEF OnlyOne, Placed
    <3>3. Placed(m, r) /\ inbounds'[m][r].subnet = inbounds[m][r].subnet
      BY <3>1, <3>2 DEF OnlyOne, Placed
    <3>4. inbounds[m][r].subnet \in SubnetsInUseOnNode(m)
      BY <3>2, <3>3 DEF SubnetsInUseOnNode
    <3>5. SubnetClaimedOnNode(m, inbounds[m][r].subnet, s)
      BY <3>2, <3>3 DEF SubnetClaimedOnNode
    <3> QED BY <3>1, <3>2, <3>3, <3>4, <3>5 DEF Removed, Edited, Added, Ensured
  <2>4. CASE NodeStep
    BY <2>4 DEF NodeStep, Placed
  <2> QED BY <2>1, <2>2, <2>3, <2>4, StepInv DEF ChainStep
<1> QED BY <1>1, Inductive, PTL DEF Spec, SubnetsStayDisjoint

\* What chains use stays: chainReferencingProfileOn guards every removal,
\* DeleteInboundProfile the profile and DeleteHost the node, also against requests that
\* stopped half-way.
THEOREM RefPlacedThm == Spec => RefPlaced
<1> DEFINE Refs == (\E n \in Nodes : CaptureNode(n)) \/ \A c \in Stored' :
         /\ AllNodes(c)' \subseteq hosts'
         /\ \A n \in Entries(c)' : LET p == chains'[c].ref[n] IN
              /\ profiles'[p] # None
              /\ \/ inbounds'[n][p] # None
                 \/ c \in Stored /\ n \in Entries(c) /\ chains[c].ref[n] = p /\ ~Placed(n, p)
<1>1. IInv /\ [Next]_vars => [Refs]_vars
  <2>1. SUFFICES ASSUME IInv, Next, ~\E n \in Nodes : CaptureNode(n),
                        NEW c \in Stored', NEW n \in Entries(c)'
                 PROVE  LET p == chains'[c].ref[n]
                        IN  \/ inbounds'[n][p] # None
                            \/ /\ c \in Stored /\ n \in Entries(c) /\ chains[c].ref[n] = p
                               /\ ~Placed(n, p)
    <3>1. ASSUME IInv, Next PROVE References'
      BY <3>1, StepInv DEF IInv
    <3> QED BY <3>1 DEF References
  <2>2. CASE UNCHANGED <<inbounds, chains>>
    BY <2>2 DEF Stored, Entries, Placed
  <2>3. CASE ChainStep
    BY <2>1, <2>3 DEF ChainStep, Entries, Placed
  <2>4. CASE UNCHANGED chains /\ (OneStep \/ NodeStep)
    <3>1. c \in Stored /\ n \in Entries(c) /\ chains'[c].ref[n] = chains[c].ref[n]
      BY <2>1, <2>4, SameChains
    <3>2. n \in Nodes /\ chains[c].ref[n] \in Profiles
      BY <2>1, <3>1, EntryFacts DEF IInv
    <3>3. ChainReferencingProfileOn(chains[c].ref[n], n) /\ ~HostDeletable(n)
      BY <3>1 DEF ChainReferencingProfileOn, HostDeletable, AllNodes
    <3>4. CASE OneStep
      BY <3>1, <3>2, <3>3, <3>4, InboundFacts
         DEF OneStep, OnlyOne, Removed, Edited, Added, Ensured, Placed
    <3>5. CASE NodeStep
      BY <2>1, <3>1, <3>2, <3>3, <3>5 DEF NodeStep, Placed
    <3> QED BY <2>4, <3>4, <3>5
  <2> QED BY <2>1, <2>2, <2>3, <2>4, StepInv DEF OneStep, NodeStep
<1> QED BY <1>1, Inductive, PTL DEF Spec, RefPlaced
=============================================================================
