----------------------------- MODULE PanelStore -----------------------------
(***************************************************************************)
(* Concurrent callers of the Store methods (internal/chain/store.go).      *)
(*                                                                         *)
(* A method takes the mutex of the Store value it is called on, reads the  *)
(* whole file, changes the copy and renames the new file into place, then  *)
(* unlocks. The mutex belongs to the Store VALUE: InstanceOf says which    *)
(* value each caller uses. The daemon's panel builds a new value for every *)
(* request (Server.store in internal/web/server.go), so two callers may or *)
(* may not share one. The file itself is shared by all of them.            *)
(*                                                                         *)
(* The method and its arguments are chosen when the body runs: nothing     *)
(* between Lock and readStore depends on them. The two halves of a method  *)
(* are Lock (mutex + readStore) and one action per method (the change, the *)
(* early returns, writeStore, unlock). Rename is atomic, so a crash leaves *)
(* the previous or the next file and never a torn one (atomicwrite.go).    *)
(***************************************************************************)
EXTENDS StoreFile

CONSTANTS
    Caller,
    Instance,      \* Store values
    InstanceOf,    \* the Store value a caller uses
    Nobody,
    MaxRevision    \* bound on the number of writes explored

ASSUME InstanceAssumption ==
    /\ InstanceOf \in [Caller -> Instance]
    /\ Nobody \notin Caller
    /\ MaxRevision \in Nat

VARIABLES
    disk,   \* the store file
    mu,     \* holder of each Store value's mutex
    pc,     \* "idle" or "body" (mutex held, file read)
    sf      \* the caller's copy of the file

vars == <<disk, mu, pc, sf>>

TypeOK ==
    /\ disk \in StoreFiles
    /\ mu \in [Instance -> Caller \cup {Nobody}]
    /\ pc \in [Caller -> {"idle", "body"}]
    /\ sf \in [Caller -> StoreFiles]

\* A store file before this process runs: at the current schema, or at the
\* schema of the previous release, with the orphans DeleteHost used to leave.
Init ==
    /\ \E h \in SUBSET Node, i \in SUBSET Node, s \in 2 .. CurrentSchema :
          disk = [newStoreFile EXCEPT !.hosts = h, !.infos = i, !.schema = s]
    /\ disk.schema = CurrentSchema => Orphans(disk) = {}
    /\ mu = [i \in Instance |-> Nobody]
    /\ pc = [c \in Caller |-> "idle"]
    /\ sf = [c \in Caller |-> newStoreFile]

\* Defect variant: the file is read before the mutex is taken.
LockAfterRead(c) ==
    /\ pc[c] = "idle"
    /\ mu' = [mu EXCEPT ![InstanceOf[c]] = c]
    /\ sf' = [sf EXCEPT ![c] = disk]
    /\ pc' = [pc EXCEPT ![c] = "body"]
    /\ UNCHANGED disk

\* s.mu.Lock() and readStore
Lock(c) ==
    /\ pc[c] = "idle"
    /\ mu[InstanceOf[c]] = Nobody
    /\ mu' = [mu EXCEPT ![InstanceOf[c]] = c]
    /\ sf' = [sf EXCEPT ![c] = disk]
    /\ pc' = [pc EXCEPT ![c] = "body"]
    /\ UNCHANGED disk

\* defer s.mu.Unlock()
Unlock(c) ==
    /\ pc[c] = "body"
    /\ pc' = [pc EXCEPT ![c] = "idle"]
    /\ mu' = [mu EXCEPT ![InstanceOf[c]] = Nobody]
    /\ sf' = [sf EXCEPT ![c] = newStoreFile]

\* return s.writeStore(new)
Persist(c, new) ==
    /\ sf[c].revision < MaxRevision
    /\ Unlock(c)
    /\ disk' = writeStore(new)

\* An early return, a method that only reads, a readStore error (unreadable or
\* undecryptable file) or a writeStore error: nothing reaches the file.
ReturnUnwritten(c) ==
    /\ Unlock(c)
    /\ UNCHANGED disk

HostMethod(c) ==
    \E id \in Node :
        \/ Persist(c, SaveHost(sf[c], id))
        \/ DeleteHostAllowed(sf[c], id) /\ Persist(c, DeleteHost(sf[c], id))
        \/ Persist(c, SaveNodeInfo(sf[c], id))
        \/ Persist(c, SaveMetrics(sf[c], id))
        \/ DeleteNodeInfoAllowed(sf[c], id) /\ Persist(c, DeleteNodeInfo(sf[c], id))

ChainMethod(c) ==
    \E name \in ChainName :
        \/ \E nodes \in SUBSET (Node \X Ref) \ {{}} :
              Persist(c, SaveChain(sf[c], name, nodes))
        \/ DeleteChainAllowed(sf[c], name) /\ Persist(c, DeleteChain(sf[c], name))

ProfileMethod(c) ==
    \E p \in Profile :
        \/ Persist(c, SaveInboundProfile(sf[c], p))
        \/ /\ DeleteInboundProfileAllowed(sf[c], p)
           /\ Persist(c, DeleteInboundProfile(sf[c], p))

UserMethod(c) ==
    \E u \in User :
        \/ \E rec \in UserRecord :
              /\ SaveUserAllowed(sf[c], u, rec)
              /\ Persist(c, SaveUser(sf[c], u, rec))
        \/ DeleteUserAllowed(sf[c], u) /\ Persist(c, DeleteUser(sf[c], u))

LinkMethod(c) ==
    \E l \in LinkId :
        \/ \E e \in Edge :
              SaveLinkAllowed(sf[c], l, e) /\ Persist(c, SaveLink(sf[c], l, e))
        \/ DeleteLinkAllowed(sf[c], l) /\ Persist(c, DeleteLink(sf[c], l))

\* Defect variant: the version is bumped past the last migration.
MigrateTooFar(c) ==
    Persist(c, [migrateOrphanNodeInfos(sf[c]) EXCEPT !.schema = @ + 1])

\* NewStore calls migrateOnce. At the current schema nothing is written: the
\* trailing migrateOrphanNodeInfos changes only the copy, which is dropped.
MigrateOnce(c) ==
    \/ /\ sf[c].schema < CurrentSchema
       /\ Persist(c, [migrateOrphanNodeInfos(sf[c]) EXCEPT !.schema = CurrentSchema])
    \/ /\ sf[c].schema = CurrentSchema
       /\ ReturnUnwritten(c)

\* The process dies: mutexes and copies are gone, the file stays.
Crash ==
    /\ \E c \in Caller : pc[c] = "body"
    /\ mu' = [i \in Instance |-> Nobody]
    /\ pc' = [c \in Caller |-> "idle"]
    /\ sf' = [c \in Caller |-> newStoreFile]
    /\ UNCHANGED disk

Body(c) ==
    \/ HostMethod(c)
    \/ ChainMethod(c)
    \/ ProfileMethod(c)
    \/ UserMethod(c)
    \/ LinkMethod(c)
    \/ MigrateOnce(c)
    \/ ReturnUnwritten(c)

Next == (\E c \in Caller : Lock(c) \/ Body(c)) \/ Crash

Spec == Init /\ [][Next]_vars

-----------------------------------------------------------------------------
(* Properties *)

\* No two callers with a Store value each are inside a method at the same time;
\* callers of one value may come as they like. Nothing in the panel enforces it.
NoCrossing ==
    \A c, d \in Caller : pc[c] = "body" /\ pc[d] = "body" => InstanceOf[c] = InstanceOf[d]

\* A copy goes stale only through a caller with another Store value, who read
\* the file before and writes it now.
StaleOnlyAcross ==
    [][\A c \in Caller :
          pc[c] = "body" /\ sf[c] = disk /\ pc'[c] = "body" /\ sf'[c] # disk' =>
              \E d \in Caller : InstanceOf[d] # InstanceOf[c] /\ pc[d] = "body" /\ pc'[d] = "idle"]_vars

\* The copy a method works on is the file it will replace: nobody writes
\* between its readStore and its writeStore. This is what the mutex is for.
CopyIsCurrent ==
    \A c \in Caller :
        pc[c] = "body" => /\ mu[InstanceOf[c]] = c
                          /\ sf[c] = disk

\* The revision is a counter of the writes: each new file is one above the
\* file it replaces, so that a revision stamped on an artifact names one state
\* of the store.
RevisionMonotonic == [][disk' # disk => disk'.revision = disk.revision + 1]_disk

\* SaveUser's check: no two users have one MTProxy secret on one node.
SecretsDisjoint == \A u, v \in User : ~SecretClash(disk, u, v)

\* SaveLink's check: (from, to, chain) identifies a link.
LinksUnique ==
    \A k, l \in LinkId :
        k # l /\ disk.links[k] # None => disk.links[k] # disk.links[l]

\* DeleteHost and DeleteInboundProfile never pull a host or a profile from
\* under a chain: what disappears is referenced by no chain of the new file.
NoReferenceBroken ==
    [][/\ \A n \in disk.hosts \ disk'.hosts : ~ReferencedByChain(disk', n)
       /\ \A p \in disk.profiles \ disk'.profiles : ~ProfileInUse(disk', p)]_disk

\* The concurrent Store implements the atomic one.
Atomic == INSTANCE AtomicStore WITH store <- disk
ImplementsAtomicStore == Atomic!ASpec
=============================================================================
