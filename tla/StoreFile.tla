----------------------------- MODULE StoreFile -----------------------------
(***************************************************************************)
(* The contents of the panel's store file (storeFile in                    *)
(* internal/chain/store.go) and the pure part of the Store methods: what   *)
(* each of them makes of the contents it has read, and when it refuses.    *)
(*                                                                         *)
(* A collection is abstracted to what the methods look at: hosts, node     *)
(* infos and metrics are the sets of their IDs, a chain is the set of its  *)
(* <<node, inboundRef>> pairs ({} when the chain is not stored; a stored   *)
(* chain has a node), a user keeps its MTProxy secret and nodes.           *)
(*                                                                         *)
(* A missing file and an empty store at the current schema are one value:  *)
(* every writer replaces a missing file by newStoreFile, every deletion    *)
(* answers "not found" in both, and migrateOnce leaves both alone.         *)
(***************************************************************************)
EXTENDS Naturals

CONSTANTS
    Node,         \* host IDs, shared by hosts, node infos and metrics
    ChainName,
    Profile,      \* inbound profile IDs
    User,
    Secret,       \* MTProxy secrets
    LinkId,
    None          \* absent record / no reference / no secret

ASSUME NoneAssumption ==
    None \notin Profile \cup Secret

CurrentSchema == 3

Ref == Profile \cup {None}

UserRecord == [secret : Secret \cup {None}, nodes : SUBSET Node]

Edge == Node \X Node \X ChainName

StoreFiles ==
    [revision : Nat,
     schema   : 2 .. CurrentSchema,
     hosts    : SUBSET Node,
     infos    : SUBSET Node,
     metrics  : SUBSET Node,
     chains   : [ChainName -> SUBSET (Node \X Ref)],
     profiles : SUBSET Profile,
     users    : [User -> UserRecord \cup {None}],
     links    : [LinkId -> Edge \cup {None}]]

newStoreFile ==
    [revision |-> 0,
     schema   |-> CurrentSchema,
     hosts    |-> {},
     infos    |-> {},
     metrics  |-> {},
     chains   |-> [c \in ChainName |-> {}],
     profiles |-> {},
     users    |-> [u \in User |-> None],
     links    |-> [l \in LinkId |-> None]]

\* Defect variant: the revision is only set when the store is created.
writeStoreNoBump(sf) == sf

\* writeStore: every persisted mutation bumps the revision.
writeStore(sf) == [sf EXCEPT !.revision = @ + 1]

-----------------------------------------------------------------------------
(* Hosts, node infos and metrics *)

ChainNodes(sf, c) == {p[1] : p \in sf.chains[c]}

ReferencedByChain(sf, id) == \E c \in ChainName : id \in ChainNodes(sf, c)

SaveHost(sf, id) == [sf EXCEPT !.hosts = @ \cup {id}]

\* Defect variant: the chain reference check is missing.
DeleteHostUnchecked(sf, id) == id \in sf.hosts

\* DeleteHost refuses a host that a chain still references or that is unknown.
DeleteHostAllowed(sf, id) == ~ReferencedByChain(sf, id) /\ id \in sf.hosts

DeleteHost(sf, id) ==
    [sf EXCEPT !.hosts = @ \ {id}, !.infos = @ \ {id}, !.metrics = @ \ {id}]

SaveNodeInfo(sf, id) == [sf EXCEPT !.infos = @ \cup {id}]

SaveMetrics(sf, id) == [sf EXCEPT !.metrics = @ \cup {id}]

\* DeleteNodeInfo writes nothing when there is nothing to remove.
DeleteNodeInfoAllowed(sf, id) == id \in sf.infos \cup sf.metrics

DeleteNodeInfo(sf, id) == [sf EXCEPT !.infos = @ \ {id}, !.metrics = @ \ {id}]

Orphans(sf) == (sf.infos \cup sf.metrics) \ sf.hosts

migrateOrphanNodeInfos(sf) ==
    [sf EXCEPT !.infos = @ \cap sf.hosts, !.metrics = @ \cap sf.hosts]

-----------------------------------------------------------------------------
(* Chains and inbound profiles *)

SaveChain(sf, c, nodes) == [sf EXCEPT !.chains[c] = nodes]

DeleteChainAllowed(sf, c) == sf.chains[c] # {}

DeleteChain(sf, c) == [sf EXCEPT !.chains[c] = {}]

SaveInboundProfile(sf, p) == [sf EXCEPT !.profiles = @ \cup {p}]

ProfileInUse(sf, p) ==
    \E c \in ChainName : \E n \in Node : <<n, p>> \in sf.chains[c]

DeleteInboundProfileAllowed(sf, p) == p \in sf.profiles /\ ~ProfileInUse(sf, p)

DeleteInboundProfile(sf, p) == [sf EXCEPT !.profiles = @ \ {p}]

-----------------------------------------------------------------------------
(* Users and links *)

\* Two different stored users have the same MTProxy secret on a common node.
SecretClash(sf, u, v) ==
    /\ u # v
    /\ sf.users[u] # None
    /\ sf.users[v] # None
    /\ sf.users[u].secret # None
    /\ sf.users[u].secret = sf.users[v].secret
    /\ sf.users[u].nodes \cap sf.users[v].nodes # {}

SaveUser(sf, u, rec) == [sf EXCEPT !.users[u] = rec]

\* Defect variant: a user put on every node at once escapes the check.
SaveUserUnchecked(sf, u, rec) ==
    \A v \in User : SecretClash(SaveUser(sf, u, rec), u, v) => rec.nodes # Node

\* SaveUser upserts in memory first and refuses before writing.
SaveUserAllowed(sf, u, rec) ==
    \A v \in User : ~SecretClash(SaveUser(sf, u, rec), u, v)

DeleteUserAllowed(sf, u) == sf.users[u] # None

DeleteUser(sf, u) == [sf EXCEPT !.users[u] = None]

SaveLinkAllowed(sf, l, edge) == \A k \in LinkId \ {l} : sf.links[k] # edge

SaveLink(sf, l, edge) == [sf EXCEPT !.links[l] = edge]

DeleteLinkAllowed(sf, l) == sf.links[l] # None

DeleteLink(sf, l) == [sf EXCEPT !.links[l] = None]
=============================================================================
