------------------------- MODULE PanelStore_proofs -------------------------
(***************************************************************************)
(* Proofs about PanelStore, for every number of callers, nodes, chains,    *)
(* profiles, users and links.                                              *)
(***************************************************************************)
EXTENDS PanelStore, TLAPS

-----------------------------------------------------------------------------
(* The store methods return store files *)

LEMMA HostMethodsTyped ==
    ASSUME NEW f \in StoreFiles, NEW id \in Node
    PROVE  /\ SaveHost(f, id) \in StoreFiles
           /\ DeleteHost(f, id) \in StoreFiles
           /\ SaveNodeInfo(f, id) \in StoreFiles
           /\ SaveMetrics(f, id) \in StoreFiles
           /\ DeleteNodeInfo(f, id) \in StoreFiles
  <1>1. SaveHost(f, id) \in StoreFiles
    BY DEF StoreFiles, SaveHost
  <1>2. DeleteHost(f, id) \in StoreFiles
    BY DEF StoreFiles, DeleteHost
  <1>3. SaveNodeInfo(f, id) \in StoreFiles
    BY DEF StoreFiles, SaveNodeInfo
  <1>4. SaveMetrics(f, id) \in StoreFiles
    BY DEF StoreFiles, SaveMetrics
  <1>5. DeleteNodeInfo(f, id) \in StoreFiles
    BY DEF StoreFiles, DeleteNodeInfo
  <1> QED BY <1>1, <1>2, <1>3, <1>4, <1>5

LEMMA ChainMethodsTyped ==
    ASSUME NEW f \in StoreFiles, NEW c \in ChainName, NEW nodes \in SUBSET (Node \X Ref)
    PROVE  /\ SaveChain(f, c, nodes) \in StoreFiles
           /\ DeleteChain(f, c) \in StoreFiles
  <1>1. SaveChain(f, c, nodes) \in StoreFiles
    BY DEF StoreFiles, SaveChain
  <1>2. DeleteChain(f, c) \in StoreFiles
    BY DEF StoreFiles, DeleteChain
  <1> QED BY <1>1, <1>2

LEMMA ProfileMethodsTyped ==
    ASSUME NEW f \in StoreFiles, NEW p \in Profile
    PROVE  /\ SaveInboundProfile(f, p) \in StoreFiles
           /\ DeleteInboundProfile(f, p) \in StoreFiles
  <1>1. SaveInboundProfile(f, p) \in StoreFiles
    BY DEF StoreFiles, SaveInboundProfile
  <1>2. DeleteInboundProfile(f, p) \in StoreFiles
    BY DEF StoreFiles, DeleteInboundProfile
  <1> QED BY <1>1, <1>2

LEMMA UserMethodsTyped ==
    ASSUME NEW f \in StoreFiles, NEW u \in User, NEW rec \in UserRecord
    PROVE  /\ SaveUser(f, u, rec) \in StoreFiles
           /\ DeleteUser(f, u) \in StoreFiles
  <1>1. SaveUser(f, u, rec) \in StoreFiles
    BY DEF StoreFiles, SaveUser
  <1>2. DeleteUser(f, u) \in StoreFiles
    BY DEF StoreFiles, DeleteUser
  <1> QED BY <1>1, <1>2

LEMMA LinkMethodsTyped ==
    ASSUME NEW f \in StoreFiles, NEW l \in LinkId, NEW e \in Edge
    PROVE  /\ SaveLink(f, l, e) \in StoreFiles
           /\ DeleteLink(f, l) \in StoreFiles
  <1>1. SaveLink(f, l, e) \in StoreFiles
    BY DEF StoreFiles, SaveLink
  <1>2. DeleteLink(f, l) \in StoreFiles
    BY DEF StoreFiles, DeleteLink
  <1> QED BY <1>1, <1>2

LEMMA MigrationTyped ==
    ASSUME NEW f \in StoreFiles
    PROVE  [migrateOrphanNodeInfos(f) EXCEPT !.schema = CurrentSchema] \in StoreFiles
  <1>1. migrateOrphanNodeInfos(f) \in StoreFiles
    BY DEF StoreFiles, migrateOrphanNodeInfos
  <1>2. CurrentSchema \in 2 .. CurrentSchema
    BY DEF CurrentSchema
  <1> QED BY <1>1, <1>2 DEF StoreFiles

LEMMA WriteTyped ==
    ASSUME NEW f \in StoreFiles
    PROVE  writeStore(f) \in StoreFiles
BY DEF StoreFiles, writeStore

-----------------------------------------------------------------------------
(* A step of the concurrent store *)

\* A body step unlocks, and writes nothing or a typed file.
LEMMA BodyStep ==
    ASSUME TypeOK, NEW c \in Caller, Body(c)
    PROVE  /\ Unlock(c)
           /\ \/ UNCHANGED disk
              \/ disk' \in StoreFiles
  <1> USE DEF Persist
  <1>0. sf[c] \in StoreFiles
    BY DEF TypeOK
  <1>1. CASE HostMethod(c)
    BY <1>0, <1>1, HostMethodsTyped, WriteTyped DEF HostMethod
  <1>2. CASE ChainMethod(c)
    BY <1>0, <1>2, ChainMethodsTyped, WriteTyped DEF ChainMethod
  <1>3. CASE ProfileMethod(c)
    BY <1>0, <1>3, ProfileMethodsTyped, WriteTyped DEF ProfileMethod
  <1>4. CASE UserMethod(c)
    <2>1. CASE \E u \in User, rec \in UserRecord : Persist(c, SaveUser(sf[c], u, rec))
      BY <1>0, <2>1, UserMethodsTyped, WriteTyped
    <2>2. CASE \E u \in User : DeleteUserAllowed(sf[c], u) /\ Persist(c, DeleteUser(sf[c], u))
      <3>1. PICK u \in User :
                DeleteUserAllowed(sf[c], u) /\ Persist(c, DeleteUser(sf[c], u))
        BY <2>2
      <3>2. DeleteUser(sf[c], u) \in StoreFiles
        BY <1>0 DEF StoreFiles, DeleteUser
      <3> QED BY <3>1, <3>2, WriteTyped
    <2> QED BY <1>4, <2>1, <2>2 DEF UserMethod
  <1>5. CASE LinkMethod(c)
    <2>1. CASE \E l \in LinkId, e \in Edge : Persist(c, SaveLink(sf[c], l, e))
      BY <1>0, <2>1, LinkMethodsTyped, WriteTyped
    <2>2. CASE \E l \in LinkId : DeleteLinkAllowed(sf[c], l) /\ Persist(c, DeleteLink(sf[c], l))
      <3>1. PICK l \in LinkId :
                DeleteLinkAllowed(sf[c], l) /\ Persist(c, DeleteLink(sf[c], l))
        BY <2>2
      <3>2. DeleteLink(sf[c], l) \in StoreFiles
        BY <1>0 DEF StoreFiles, DeleteLink
      <3> QED BY <3>1, <3>2, WriteTyped
    <2> QED BY <1>5, <2>1, <2>2 DEF LinkMethod
  <1>6. CASE MigrateOnce(c)
    BY <1>0, <1>6, MigrationTyped, WriteTyped DEF MigrateOnce, ReturnUnwritten
  <1>7. CASE ReturnUnwritten(c)
    BY <1>7 DEF ReturnUnwritten
  <1> QED BY <1>1, <1>2, <1>3, <1>4, <1>5, <1>6, <1>7 DEF Body

LEMMA NewStoreFileTyped == newStoreFile \in StoreFiles
BY DEF newStoreFile, StoreFiles, CurrentSchema

LEMMA TypeInit == Init => TypeOK
  <1> SUFFICES ASSUME Init PROVE TypeOK
    OBVIOUS
  <1>1. disk \in StoreFiles
    <2>1. PICK h \in SUBSET Node, i \in SUBSET Node, s \in 2 .. CurrentSchema :
              disk = [newStoreFile EXCEPT !.hosts = h, !.infos = i, !.schema = s]
      BY DEF Init
    <2> QED BY <2>1, NewStoreFileTyped DEF StoreFiles
  <1> QED BY <1>1, NewStoreFileTyped DEF Init, TypeOK

LEMMA TypeStep == TypeOK /\ [Next]_vars => TypeOK'
  <1> SUFFICES ASSUME TypeOK, [Next]_vars PROVE TypeOK'
    OBVIOUS
  <1> USE InstanceAssumption, NewStoreFileTyped
  <1>1. CASE \E c \in Caller : Lock(c)
    BY <1>1 DEF TypeOK, Lock
  <1>2. CASE \E c \in Caller : Body(c)
    <2>1. PICK c \in Caller : Body(c)
      BY <1>2
    <2>2. disk' \in StoreFiles
      BY <2>1, BodyStep DEF TypeOK
    <2> QED BY <2>1, <2>2, BodyStep DEF TypeOK, Unlock
  <1>3. CASE Crash
    BY <1>3 DEF TypeOK, Crash
  <1>4. CASE UNCHANGED vars
    BY <1>4 DEF TypeOK, vars
  <1> QED BY <1>1, <1>2, <1>3, <1>4 DEF Next

\* Whatever the callers do and wherever the process crashes, the file on disk
\* and every copy of it are well-formed store files, at a schema this binary
\* knows.
THEOREM TypeCorrect == Spec => []TypeOK
  <1>1. Init => TypeOK
    BY TypeInit
  <1>2. TypeOK /\ [Next]_vars => TypeOK'
    BY TypeStep
  <1> QED BY <1>1, <1>2, PTL DEF Spec

-----------------------------------------------------------------------------
(* The mutex: what it gives to callers of one Store value *)

\* The mutex of its Store value is held by whoever is inside a method.
Held == \A c \in Caller : pc[c] = "body" => mu[InstanceOf[c]] = c

LEMMA HeldStep ==
    ASSUME TypeOK, Held, [Next]_vars
    PROVE  Held'
  <1> USE InstanceAssumption
  <1>1. CASE \E c \in Caller : Lock(c)
    BY <1>1 DEF Lock, TypeOK, Held
  <1>2. CASE \E c \in Caller : Body(c)
    <2>1. PICK c \in Caller : Unlock(c)
      BY <1>2, BodyStep
    <2> QED BY <2>1 DEF Unlock, TypeOK, Held
  <1>3. CASE Crash
    BY <1>3 DEF Crash, Held
  <1>4. CASE UNCHANGED vars
    BY <1>4 DEF vars, Held
  <1> QED BY <1>1, <1>2, <1>3, <1>4 DEF Next

LEMMA HeldInit == Init => TypeOK /\ Held
BY TypeInit DEF Init, Held

\* Whatever Store values the callers use, the copy of the file that a method
\* holds goes stale in one way only: a caller with a Store value of its own
\* wrote the file meanwhile (Server.store, server.go:447). Callers of one value
\* and crashes never do it.
THEOREM StaleOnlyAcrossThm == Spec => StaleOnlyAcross
  <1> DEFINE Across(c) ==
        pc[c] = "body" /\ sf[c] = disk /\ pc'[c] = "body" /\ sf'[c] # disk' =>
            \E d \in Caller : InstanceOf[d] # InstanceOf[c] /\ pc[d] = "body" /\ pc'[d] = "idle"
  <1>1. Init => TypeOK /\ Held
    BY HeldInit
  <1>2. (TypeOK /\ Held) /\ [Next]_vars => (TypeOK /\ Held)'
    BY TypeStep, HeldStep
  <1>3. ASSUME TypeOK, Held, [Next]_vars, NEW c \in Caller PROVE Across(c)
    <2> USE InstanceAssumption
    <2> SUFFICES ASSUME pc[c] = "body", sf[c] = disk, pc'[c] = "body", sf'[c] # disk'
                 PROVE  \E d \in Caller : InstanceOf[d] # InstanceOf[c] /\ pc[d] = "body" /\ pc'[d] = "idle"
      OBVIOUS
    <2>1. CASE \E d \in Caller : Lock(d)
      BY <1>3, <2>1 DEF Lock, TypeOK
    <2>2. CASE \E d \in Caller : Body(d)
      <3>1. PICK d \in Caller : Unlock(d)
        BY <1>3, <2>2, BodyStep
      <3>2. d # c /\ pc[d] = "body" /\ pc'[d] = "idle"
        BY <1>3, <3>1 DEF Unlock, TypeOK
      <3>3. InstanceOf[d] # InstanceOf[c]
        BY <1>3, <3>2 DEF Held
      <3> QED BY <3>2, <3>3
    <2>3. CASE Crash
      BY <1>3, <2>3 DEF Crash
    <2>4. CASE UNCHANGED vars
      BY <1>3, <2>4 DEF vars
    <2> QED BY <1>3, <2>1, <2>2, <2>3, <2>4 DEF Next
  <1>4. TypeOK /\ Held /\ [Next]_vars => [\A c \in Caller : Across(c)]_vars
    BY <1>3
  <1> QED BY <1>1, <1>2, <1>4, PTL DEF Spec, StaleOnlyAcross

IInv == TypeOK /\ CopyIsCurrent

LEMMA OneBody ==
    ASSUME IInv, NoCrossing,
           NEW c \in Caller, NEW d \in Caller, pc[c] = "body", pc[d] = "body"
    PROVE  c = d
BY DEF IInv, CopyIsCurrent, NoCrossing

LEMMA InvInit == Init => IInv
BY TypeInit DEF Init, IInv, CopyIsCurrent

LEMMA InvStep ==
    ASSUME NoCrossing, NoCrossing', IInv, [Next]_vars
    PROVE  IInv'
  <1> USE InstanceAssumption
  <1>t. TypeOK /\ TypeOK'
    BY TypeStep DEF IInv
  <1>1. CopyIsCurrent'
    <2>1. CASE \E c \in Caller : Lock(c)
      <3>1. PICK c \in Caller : Lock(c)
        BY <2>1
      <3>2. ASSUME NEW d \in Caller, pc'[d] = "body"
            PROVE  mu'[InstanceOf[d]] = d /\ sf'[d] = disk'
        <4>1. CASE d = c
          BY <1>t, <3>1, <4>1 DEF Lock, TypeOK
        <4>2. CASE d # c
          <5>1. pc[d] = "body"
            BY <1>t, <3>1, <3>2, <4>2 DEF Lock, TypeOK
          <5>2. mu[InstanceOf[d]] = d
            BY <5>1 DEF IInv, CopyIsCurrent
          <5>3. pc'[c] = "body"
            BY <1>t, <3>1 DEF Lock, TypeOK
          <5>4. InstanceOf[c] = InstanceOf[d]
            BY <3>2, <5>3 DEF NoCrossing
          <5>5. mu[InstanceOf[d]] = Nobody
            BY <3>1, <5>4 DEF Lock
          <5> QED BY <5>2, <5>5
        <4> QED BY <4>1, <4>2
      <3> QED BY <3>2 DEF CopyIsCurrent
    <2>2. CASE \E c \in Caller : Body(c)
      <3>1. PICK c \in Caller : Body(c)
        BY <2>2
      <3>2. Unlock(c)
        BY <1>t, <3>1, BodyStep
      <3>3. ASSUME NEW d \in Caller
            PROVE  pc'[d] # "body"
        <4>1. CASE d = c
          BY <1>t, <3>2, <4>1 DEF Unlock, TypeOK
        <4>2. CASE d # c
          BY <1>t, <3>2, <4>2, OneBody DEF Unlock, TypeOK
        <4> QED BY <4>1, <4>2
      <3> QED BY <3>3 DEF CopyIsCurrent
    <2>3. CASE Crash
      BY <2>3 DEF Crash, CopyIsCurrent
    <2>4. CASE UNCHANGED vars
      BY <2>4 DEF IInv, CopyIsCurrent, vars
    <2> QED BY <2>1, <2>2, <2>3, <2>4 DEF Next
  <1> QED BY <1>t, <1>1 DEF IInv

\* While callers with a Store value each never cross, the copy a method holds
\* is the file it is going to replace: s.mu serialises read, change and rename
\* of the callers of one value, for any number of them and across crashes.
THEOREM CopiesAreCurrent == Spec /\ []NoCrossing => []CopyIsCurrent
  <1>1. Init => IInv
    BY InvInit
  <1>2. IInv /\ NoCrossing /\ NoCrossing' /\ [Next]_vars => IInv'
    BY InvStep
  <1>3. IInv => CopyIsCurrent
    BY DEF IInv
  <1> QED BY <1>1, <1>2, <1>3, PTL DEF Spec

-----------------------------------------------------------------------------
(* Refinement *)

\* The instance has its own copy of every definition of StoreFile.
LEMMA SameFiles == Atomic!StoreFiles = StoreFiles
BY DEF Atomic!StoreFiles, StoreFiles, Atomic!CurrentSchema, CurrentSchema, Atomic!Ref, Ref,
       Atomic!UserRecord, UserRecord, Atomic!Edge, Edge

LEMMA SameHostMethods ==
    ASSUME NEW f, NEW id
    PROVE  /\ Atomic!writeStore(f) = writeStore(f)
           /\ Atomic!SaveHost(f, id) = SaveHost(f, id)
           /\ Atomic!DeleteHostAllowed(f, id) = DeleteHostAllowed(f, id)
           /\ Atomic!DeleteHost(f, id) = DeleteHost(f, id)
           /\ Atomic!SaveNodeInfo(f, id) = SaveNodeInfo(f, id)
           /\ Atomic!SaveMetrics(f, id) = SaveMetrics(f, id)
           /\ Atomic!DeleteNodeInfoAllowed(f, id) = DeleteNodeInfoAllowed(f, id)
           /\ Atomic!DeleteNodeInfo(f, id) = DeleteNodeInfo(f, id)
           /\ Atomic!migrateOrphanNodeInfos(f) = migrateOrphanNodeInfos(f)
BY Zenon DEF Atomic!writeStore, writeStore, Atomic!SaveHost, SaveHost,
       Atomic!DeleteHostAllowed, DeleteHostAllowed, Atomic!DeleteHost, DeleteHost,
       Atomic!SaveNodeInfo, SaveNodeInfo, Atomic!SaveMetrics, SaveMetrics,
       Atomic!DeleteNodeInfoAllowed, DeleteNodeInfoAllowed,
       Atomic!DeleteNodeInfo, DeleteNodeInfo,
       Atomic!migrateOrphanNodeInfos, migrateOrphanNodeInfos,
       Atomic!ReferencedByChain, ReferencedByChain, Atomic!ChainNodes, ChainNodes

LEMMA SameChainMethods ==
    ASSUME NEW f, NEW c, NEW nodes, NEW p
    PROVE  /\ Atomic!SaveChain(f, c, nodes) = SaveChain(f, c, nodes)
           /\ Atomic!DeleteChainAllowed(f, c) = DeleteChainAllowed(f, c)
           /\ Atomic!DeleteChain(f, c) = DeleteChain(f, c)
           /\ Atomic!SaveInboundProfile(f, p) = SaveInboundProfile(f, p)
           /\ Atomic!DeleteInboundProfileAllowed(f, p) = DeleteInboundProfileAllowed(f, p)
           /\ Atomic!DeleteInboundProfile(f, p) = DeleteInboundProfile(f, p)
           /\ Atomic!Ref = Ref
BY Zenon DEF Atomic!SaveChain, SaveChain, Atomic!DeleteChainAllowed, DeleteChainAllowed,
       Atomic!DeleteChain, DeleteChain, Atomic!SaveInboundProfile, SaveInboundProfile,
       Atomic!DeleteInboundProfileAllowed, DeleteInboundProfileAllowed,
       Atomic!DeleteInboundProfile, DeleteInboundProfile,
       Atomic!ProfileInUse, ProfileInUse, Atomic!Ref, Ref

LEMMA SameUserMethods ==
    ASSUME NEW f, NEW u, NEW rec, NEW l, NEW e
    PROVE  /\ Atomic!SaveUser(f, u, rec) = SaveUser(f, u, rec)
           /\ Atomic!SaveUserAllowed(f, u, rec) = SaveUserAllowed(f, u, rec)
           /\ Atomic!DeleteUserAllowed(f, u) = DeleteUserAllowed(f, u)
           /\ Atomic!DeleteUser(f, u) = DeleteUser(f, u)
           /\ Atomic!SaveLink(f, l, e) = SaveLink(f, l, e)
           /\ Atomic!SaveLinkAllowed(f, l, e) = SaveLinkAllowed(f, l, e)
           /\ Atomic!DeleteLinkAllowed(f, l) = DeleteLinkAllowed(f, l)
           /\ Atomic!DeleteLink(f, l) = DeleteLink(f, l)
           /\ Atomic!UserRecord = UserRecord
           /\ Atomic!Edge = Edge
BY Zenon DEF Atomic!SaveUser, SaveUser, Atomic!SaveUserAllowed, SaveUserAllowed,
       Atomic!SecretClash, SecretClash, Atomic!DeleteUserAllowed, DeleteUserAllowed,
       Atomic!DeleteUser, DeleteUser, Atomic!SaveLink, SaveLink,
       Atomic!SaveLinkAllowed, SaveLinkAllowed, Atomic!DeleteLinkAllowed, DeleteLinkAllowed,
       Atomic!DeleteLink, DeleteLink, Atomic!UserRecord, UserRecord, Atomic!Edge, Edge

LEMMA RefinementInit == Init => Atomic!AInit
  <1> SUFFICES ASSUME Init PROVE Atomic!AInit
    OBVIOUS
  <1>1. disk \in StoreFiles
    BY TypeInit DEF TypeOK
  <1>2. disk.revision = 0
    BY DEF Init, newStoreFile
  <1> QED BY <1>1, <1>2, SameFiles DEF Atomic!AInit

\* A body step on the current file is a step of the atomic store, or none.
LEMMA BodyRefines ==
    ASSUME NEW c \in Caller, Body(c), sf[c] = disk
    PROVE  [Atomic!ANext]_disk
  <1> USE DEF Persist, Atomic!Write
  <1>1. CASE HostMethod(c)
    <2>1. Atomic!HostStep
      BY <1>1, SameHostMethods DEF HostMethod, Atomic!HostStep
    <2> QED BY <2>1 DEF Atomic!ANext
  <1>2. CASE ChainMethod(c)
    <2>1. Atomic!ChainStep
      BY <1>2, SameChainMethods, SameHostMethods DEF ChainMethod, Atomic!ChainStep
    <2> QED BY <2>1 DEF Atomic!ANext
  <1>3. CASE ProfileMethod(c)
    <2>1. Atomic!ChainStep
      BY <1>3, SameChainMethods, SameHostMethods DEF ProfileMethod, Atomic!ChainStep
    <2> QED BY <2>1 DEF Atomic!ANext
  <1>4. CASE UserMethod(c)
    <2>1. Atomic!UserStep
      BY <1>4, SameUserMethods, SameHostMethods DEF UserMethod, Atomic!UserStep
    <2> QED BY <2>1 DEF Atomic!ANext
  <1>5. CASE LinkMethod(c)
    <2>1. Atomic!UserStep
      BY <1>5, SameUserMethods, SameHostMethods DEF LinkMethod, Atomic!UserStep
    <2> QED BY <2>1 DEF Atomic!ANext
  <1>6. CASE MigrateOnce(c)
    <2>1. Atomic!MigrateStep \/ UNCHANGED disk
      BY <1>6, SameHostMethods
         DEF MigrateOnce, ReturnUnwritten, Atomic!MigrateStep, Atomic!CurrentSchema, CurrentSchema
    <2> QED BY <2>1 DEF Atomic!ANext
  <1>7. CASE ReturnUnwritten(c)
    BY <1>7 DEF ReturnUnwritten
  <1> QED BY <1>1, <1>2, <1>3, <1>4, <1>5, <1>6, <1>7 DEF Body

LEMMA StepRefines ==
    ASSUME IInv, [Next]_vars
    PROVE  [Atomic!ANext]_disk
  <1>1. CASE \E c \in Caller : Lock(c)
    BY <1>1 DEF Lock
  <1>2. CASE \E c \in Caller : Body(c)
    <2>1. PICK c \in Caller : Body(c)
      BY <1>2
    <2>2. pc[c] = "body"
      BY <2>1, BodyStep DEF IInv, Unlock
    <2>3. sf[c] = disk
      BY <2>2 DEF IInv, CopyIsCurrent
    <2> QED BY <2>1, <2>3, BodyRefines
  <1>3. CASE Crash
    BY <1>3 DEF Crash
  <1>4. CASE UNCHANGED vars
    BY <1>4 DEF vars
  <1> QED BY <1>1, <1>2, <1>3, <1>4 DEF Next

\* While callers with a Store value each never cross, callers see a store whose
\* methods are atomic: every write of the concurrent store is one step of
\* AtomicStore on the file it replaces.
THEOREM Refinement == Spec /\ []NoCrossing => ImplementsAtomicStore
  <1>1. Init => IInv /\ Atomic!AInit
    BY InvInit, RefinementInit
  <1>2. IInv /\ NoCrossing /\ NoCrossing' /\ [Next]_vars => IInv'
    BY InvStep
  <1>3. IInv /\ [Next]_vars => [Atomic!ANext]_disk
    BY StepRefines
  <1> QED BY <1>1, <1>2, <1>3, PTL DEF Spec, ImplementsAtomicStore, Atomic!ASpec

-----------------------------------------------------------------------------
(* What a method does to the parts of the file the properties speak of *)

Kept(f, g) == g.users = f.users /\ g.links = f.links

LEMMA WriteEffect ==
    ASSUME NEW f \in StoreFiles
    PROVE  /\ writeStore(f).revision = f.revision + 1
           /\ Kept(f, writeStore(f))
           /\ writeStore(f).hosts = f.hosts
           /\ writeStore(f).profiles = f.profiles
           /\ writeStore(f).chains = f.chains
BY DEF StoreFiles, writeStore, Kept

\* Only DeleteHost shrinks the hosts, and only of a host no chain references.
LEMMA HostEffect ==
    ASSUME NEW f \in StoreFiles, NEW id \in Node,
           NEW g, \/ g = SaveHost(f, id)
                  \/ DeleteHostAllowed(f, id) /\ g = DeleteHost(f, id)
                  \/ g = SaveNodeInfo(f, id)
                  \/ g = SaveMetrics(f, id)
                  \/ g = DeleteNodeInfo(f, id)
    PROVE  /\ g \in StoreFiles
           /\ g.revision = f.revision
           /\ Kept(f, g)
           /\ g.profiles = f.profiles
           /\ g.chains = f.chains
           /\ \A n \in f.hosts \ g.hosts : ~ReferencedByChain(f, n)
  <1>1. g \in StoreFiles
    BY HostMethodsTyped
  <1>2. /\ g.revision = f.revision
        /\ Kept(f, g)
        /\ g.profiles = f.profiles
        /\ g.chains = f.chains
    <2>1. CASE g = SaveHost(f, id) \/ g = DeleteHost(f, id)
      BY <2>1 DEF StoreFiles, SaveHost, DeleteHost, Kept
    <2>2. CASE g = SaveNodeInfo(f, id)
      BY <2>2 DEF StoreFiles, SaveNodeInfo, Kept
    <2>3. CASE g = SaveMetrics(f, id)
      BY <2>3 DEF StoreFiles, SaveMetrics, Kept
    <2>4. CASE g = DeleteNodeInfo(f, id)
      BY <2>4 DEF StoreFiles, DeleteNodeInfo, Kept
    <2> QED BY <2>1, <2>2, <2>3, <2>4
  <1>3. \/ f.hosts \ g.hosts = {}
        \/ f.hosts \ g.hosts \subseteq {id} /\ DeleteHostAllowed(f, id)
    <2>1. CASE g = SaveHost(f, id)
      BY <2>1 DEF StoreFiles, SaveHost
    <2>2. CASE DeleteHostAllowed(f, id) /\ g = DeleteHost(f, id)
      BY <2>2 DEF StoreFiles, DeleteHost
    <2>3. CASE g = SaveNodeInfo(f, id) \/ g = SaveMetrics(f, id)
      BY <2>3 DEF StoreFiles, SaveNodeInfo, SaveMetrics
    <2>4. CASE g = DeleteNodeInfo(f, id)
      BY <2>4 DEF StoreFiles, DeleteNodeInfo
    <2> QED BY <2>1, <2>2, <2>3, <2>4
  <1> QED BY <1>1, <1>2, <1>3 DEF DeleteHostAllowed

LEMMA ChainEffect ==
    ASSUME NEW f \in StoreFiles, NEW c \in ChainName, NEW nodes \in SUBSET (Node \X Ref),
           NEW g, g = SaveChain(f, c, nodes) \/ g = DeleteChain(f, c)
    PROVE  /\ g \in StoreFiles
           /\ g.revision = f.revision
           /\ Kept(f, g)
           /\ g.profiles = f.profiles
           /\ g.hosts = f.hosts
  <1>1. g \in StoreFiles
    BY ChainMethodsTyped
  <1>2. CASE g = SaveChain(f, c, nodes)
    BY <1>1, <1>2 DEF StoreFiles, SaveChain, Kept
  <1>3. CASE g = DeleteChain(f, c)
    BY <1>1, <1>3 DEF StoreFiles, DeleteChain, Kept
  <1> QED BY <1>2, <1>3

LEMMA ProfileEffect ==
    ASSUME NEW f \in StoreFiles, NEW p \in Profile,
           NEW g, \/ g = SaveInboundProfile(f, p)
                  \/ DeleteInboundProfileAllowed(f, p) /\ g = DeleteInboundProfile(f, p)
    PROVE  /\ g \in StoreFiles
           /\ g.revision = f.revision
           /\ Kept(f, g)
           /\ g.hosts = f.hosts
           /\ g.chains = f.chains
           /\ \A q \in f.profiles \ g.profiles : ~ProfileInUse(f, q)
  <1>1. g \in StoreFiles
    BY ProfileMethodsTyped
  <1>2. /\ g.revision = f.revision
        /\ Kept(f, g)
        /\ g.hosts = f.hosts
        /\ g.chains = f.chains
    BY DEF StoreFiles, SaveInboundProfile, DeleteInboundProfile, Kept
  <1>3. \/ f.profiles \ g.profiles = {}
        \/ f.profiles \ g.profiles \subseteq {p} /\ DeleteInboundProfileAllowed(f, p)
    BY DEF StoreFiles, SaveInboundProfile, DeleteInboundProfile
  <1> QED BY <1>1, <1>2, <1>3 DEF DeleteInboundProfileAllowed

SecretsOf(f) == \A u, v \in User : ~SecretClash(f, u, v)

LinksOf(f) ==
    \A k, l \in LinkId : k # l /\ f.links[k] # None => f.links[k] # f.links[l]

LEMMA SecretsFromUsers ==
    ASSUME NEW f, NEW g, g.users = f.users, SecretsOf(f)
    PROVE  SecretsOf(g)
BY DEF SecretsOf, SecretClash

LEMMA UserEffect ==
    ASSUME NEW f \in StoreFiles, SecretsOf(f), NEW u \in User, NEW rec,
           NEW g, \/ SaveUserAllowed(f, u, rec) /\ g = SaveUser(f, u, rec)
                  \/ g = DeleteUser(f, u)
    PROVE  SecretsOf(g)
  <1> SUFFICES ASSUME NEW a \in User, NEW b \in User, SecretClash(g, a, b)
               PROVE  FALSE
    BY DEF SecretsOf
  <1>1. CASE SaveUserAllowed(f, u, rec) /\ g = SaveUser(f, u, rec)
    <2>1. CASE a = u
      BY <1>1, <2>1 DEF SaveUserAllowed
    <2>2. CASE b = u
      <3>1. SecretClash(g, u, a)
        BY <2>2 DEF SecretClash
      <3> QED BY <1>1, <3>1 DEF SaveUserAllowed
    <2>3. CASE a # u /\ b # u
      <3>1. g.users[a] = f.users[a] /\ g.users[b] = f.users[b]
        BY <1>1, <2>3 DEF SaveUser, StoreFiles
      <3>2. SecretClash(f, a, b)
        BY <3>1 DEF SecretClash
      <3> QED BY <3>2 DEF SecretsOf
    <2> QED BY <2>1, <2>2, <2>3
  <1>2. CASE g = DeleteUser(f, u)
    <2>1. g.users[u] = None
      BY <1>2 DEF DeleteUser, StoreFiles
    <2>2. a # u /\ b # u
      BY <2>1 DEF SecretClash
    <2>3. g.users[a] = f.users[a] /\ g.users[b] = f.users[b]
      BY <1>2, <2>2 DEF DeleteUser, StoreFiles
    <2>4. SecretClash(f, a, b)
      BY <2>3 DEF SecretClash
    <2> QED BY <2>4 DEF SecretsOf
  <1> QED BY <1>1, <1>2

LEMMA LinkEffect ==
    ASSUME NEW f \in StoreFiles, LinksOf(f), NEW l \in LinkId, NEW e,
           NEW g, \/ SaveLinkAllowed(f, l, e) /\ g = SaveLink(f, l, e)
                  \/ g = DeleteLink(f, l)
    PROVE  LinksOf(g)
  <1>1. CASE SaveLinkAllowed(f, l, e) /\ g = SaveLink(f, l, e)
    <2>1. g.links = [f.links EXCEPT ![l] = e]
      BY <1>1 DEF SaveLink, StoreFiles
    <2> QED BY <1>1, <2>1 DEF SaveLinkAllowed, LinksOf, StoreFiles
  <1>2. CASE g = DeleteLink(f, l)
    <2>1. g.links = [f.links EXCEPT ![l] = None]
      BY <1>2 DEF DeleteLink, StoreFiles
    <2> QED BY <2>1 DEF LinksOf, StoreFiles
  <1> QED BY <1>1, <1>2

-----------------------------------------------------------------------------
(* The properties of the file *)

References(f, g) ==
    /\ \A n \in f.hosts \ g.hosts : ~ReferencedByChain(g, n)
    /\ \A p \in f.profiles \ g.profiles : ~ProfileInUse(g, p)

LEMMA ReferencesKept ==
    ASSUME NEW f, NEW g, g.chains = f.chains,
           \A n \in f.hosts \ g.hosts : ~ReferencedByChain(f, n),
           \A p \in f.profiles \ g.profiles : ~ProfileInUse(f, p)
    PROVE  References(f, g)
BY DEF References, ReferencedByChain, ChainNodes, ProfileInUse

\* The effect of a write, relative to the copy it was made from.
LEMMA BodyEffect ==
    ASSUME NEW c \in Caller, Body(c), NEW f \in StoreFiles, sf[c] = f
    PROVE  \/ UNCHANGED disk
           \/ /\ disk'.revision = f.revision + 1
              /\ References(f, disk')
              /\ SecretsOf(f) => SecretsOf(disk')
              /\ LinksOf(f) => LinksOf(disk')
  <1> DEFINE Good(g) ==
        /\ g \in StoreFiles
        /\ g.revision = f.revision
        /\ References(f, g)
        /\ SecretsOf(f) => SecretsOf(g)
        /\ LinksOf(f) => LinksOf(g)
  <1>w. ASSUME NEW g, Good(g), disk' = writeStore(g)
        PROVE  /\ disk'.revision = f.revision + 1
               /\ References(f, disk')
               /\ SecretsOf(f) => SecretsOf(disk')
               /\ LinksOf(f) => LinksOf(disk')
    <2>1. /\ disk'.revision = g.revision + 1
          /\ Kept(g, disk')
          /\ disk'.hosts = g.hosts
          /\ disk'.profiles = g.profiles
          /\ disk'.chains = g.chains
      BY <1>w, WriteEffect
    <2>2. References(f, disk')
      BY <1>w, <2>1 DEF References, ReferencedByChain, ChainNodes, ProfileInUse
    <2>3. SecretsOf(g) => SecretsOf(disk')
      BY <2>1, SecretsFromUsers DEF Kept
    <2>4. LinksOf(g) => LinksOf(disk')
      BY <2>1 DEF Kept, LinksOf
    <2> QED BY <1>w, <2>1, <2>2, <2>3, <2>4
  <1>k. ASSUME NEW g, Kept(f, g)
        PROVE  /\ SecretsOf(f) => SecretsOf(g)
               /\ LinksOf(f) => LinksOf(g)
    BY <1>k, SecretsFromUsers DEF Kept, LinksOf
  <1> HIDE DEF Good
  <1> USE DEF Persist
  <1>1. CASE HostMethod(c)
    <2>0. PICK id \in Node : \E g :
              /\ disk' = writeStore(g)
              /\ \/ g = SaveHost(f, id)
                 \/ DeleteHostAllowed(f, id) /\ g = DeleteHost(f, id)
                 \/ g = SaveNodeInfo(f, id)
                 \/ g = SaveMetrics(f, id)
                 \/ g = DeleteNodeInfo(f, id)
      BY <1>1 DEF HostMethod
    <2>1. PICK g :
              /\ disk' = writeStore(g)
              /\ \/ g = SaveHost(f, id)
                 \/ DeleteHostAllowed(f, id) /\ g = DeleteHost(f, id)
                 \/ g = SaveNodeInfo(f, id)
                 \/ g = SaveMetrics(f, id)
                 \/ g = DeleteNodeInfo(f, id)
      BY <2>0
    <2>2. Good(g)
      BY <1>k, <2>1, HostEffect, ReferencesKept DEF Good
    <2> QED BY <1>w, <2>1, <2>2
  <1>2. CASE ChainMethod(c)
    <2>0. PICK name \in ChainName, nodes \in SUBSET (Node \X Ref) : \E g :
              /\ disk' = writeStore(g)
              /\ g = SaveChain(f, name, nodes) \/ g = DeleteChain(f, name)
      BY <1>2 DEF ChainMethod
    <2>1. PICK g :
              /\ disk' = writeStore(g)
              /\ g = SaveChain(f, name, nodes) \/ g = DeleteChain(f, name)
      BY <2>0
    <2>2. Good(g)
      <3>1. /\ g \in StoreFiles /\ g.revision = f.revision /\ Kept(f, g)
            /\ g.hosts = f.hosts /\ g.profiles = f.profiles
        BY <2>1, ChainEffect
      <3>2. References(f, g)
        BY <3>1 DEF References
      <3> QED BY <1>k, <3>1, <3>2 DEF Good
    <2> QED BY <1>w, <2>1, <2>2
  <1>3. CASE ProfileMethod(c)
    <2>0. PICK p \in Profile : \E g :
              /\ disk' = writeStore(g)
              /\ \/ g = SaveInboundProfile(f, p)
                 \/ DeleteInboundProfileAllowed(f, p) /\ g = DeleteInboundProfile(f, p)
      BY <1>3 DEF ProfileMethod
    <2>1. PICK g :
              /\ disk' = writeStore(g)
              /\ \/ g = SaveInboundProfile(f, p)
                 \/ DeleteInboundProfileAllowed(f, p) /\ g = DeleteInboundProfile(f, p)
      BY <2>0
    <2>2. Good(g)
      BY <1>k, <2>1, ProfileEffect, ReferencesKept DEF Good
    <2> QED BY <1>w, <2>1, <2>2
  <1>4. CASE UserMethod(c)
    <2>1. CASE \E u \in User, rec \in UserRecord :
                  SaveUserAllowed(f, u, rec) /\ disk' = writeStore(SaveUser(f, u, rec))
      <3>1. PICK u \in User, rec \in UserRecord :
                SaveUserAllowed(f, u, rec) /\ disk' = writeStore(SaveUser(f, u, rec))
        BY <2>1
      <3>2. /\ SaveUser(f, u, rec).revision = f.revision
            /\ SaveUser(f, u, rec).hosts = f.hosts
            /\ SaveUser(f, u, rec).profiles = f.profiles
            /\ SaveUser(f, u, rec).links = f.links
        BY DEF SaveUser, StoreFiles
      <3>3. Good(SaveUser(f, u, rec))
        BY <3>1, <3>2, UserEffect, UserMethodsTyped DEF Good, References, LinksOf
      <3> QED BY <1>w, <3>1, <3>3
    <2>2. CASE \E u \in User : disk' = writeStore(DeleteUser(f, u))
      <3>1. PICK u \in User : disk' = writeStore(DeleteUser(f, u))
        BY <2>2
      <3>2. /\ DeleteUser(f, u) \in StoreFiles
            /\ DeleteUser(f, u).revision = f.revision
            /\ DeleteUser(f, u).hosts = f.hosts
            /\ DeleteUser(f, u).profiles = f.profiles
            /\ DeleteUser(f, u).links = f.links
        BY DEF DeleteUser, StoreFiles
      <3>3. Good(DeleteUser(f, u))
        BY <3>2, UserEffect DEF Good, References, LinksOf
      <3> QED BY <1>w, <3>1, <3>3
    <2> QED BY <1>4, <2>1, <2>2 DEF UserMethod
  <1>5. CASE LinkMethod(c)
    <2>0. PICK l \in LinkId : \E e, g :
              /\ disk' = writeStore(g)
              /\ \/ e \in Edge /\ SaveLinkAllowed(f, l, e) /\ g = SaveLink(f, l, e)
                 \/ g = DeleteLink(f, l)
      BY <1>5 DEF LinkMethod
    <2>1. PICK e, g :
              /\ disk' = writeStore(g)
              /\ \/ e \in Edge /\ SaveLinkAllowed(f, l, e) /\ g = SaveLink(f, l, e)
                 \/ g = DeleteLink(f, l)
      BY <2>0
    <2>2. /\ g \in StoreFiles
          /\ g.revision = f.revision
          /\ g.hosts = f.hosts
          /\ g.profiles = f.profiles
          /\ g.users = f.users
      BY <2>1 DEF SaveLink, DeleteLink, StoreFiles
    <2>3. Good(g)
      BY <2>1, <2>2, LinkEffect, SecretsFromUsers DEF Good, References
    <2> QED BY <1>w, <2>1, <2>3
  <1>6. CASE MigrateOnce(c)
    <2>1. CASE ReturnUnwritten(c)
      BY <2>1 DEF ReturnUnwritten
    <2>2. CASE disk' = writeStore([migrateOrphanNodeInfos(f) EXCEPT !.schema = CurrentSchema])
      <3> DEFINE g == [migrateOrphanNodeInfos(f) EXCEPT !.schema = CurrentSchema]
      <3>1. /\ g.revision = f.revision
            /\ g.hosts = f.hosts
            /\ g.profiles = f.profiles
            /\ Kept(f, g)
        BY DEF migrateOrphanNodeInfos, StoreFiles, Kept
      <3>2. g \in StoreFiles
        BY MigrationTyped
      <3>3. Good(g)
        BY <1>k, <3>1, <3>2 DEF Good, References
      <3> QED BY <1>w, <2>2, <3>3
    <2> QED BY <1>6, <2>1, <2>2 DEF MigrateOnce
  <1>7. CASE ReturnUnwritten(c)
    BY <1>7 DEF ReturnUnwritten
  <1> QED BY <1>1, <1>2, <1>3, <1>4, <1>5, <1>6, <1>7 DEF Body

LEMMA StepEffect ==
    ASSUME IInv, [Next]_vars
    PROVE  \/ UNCHANGED disk
           \/ disk'.revision = disk.revision + 1 /\ References(disk, disk')
  <1>1. CASE \E c \in Caller : Body(c)
    <2>1. PICK c \in Caller : Body(c)
      BY <1>1
    <2>2. pc[c] = "body"
      BY <2>1, BodyStep DEF IInv, Unlock
    <2>3. sf[c] = disk /\ disk \in StoreFiles
      BY <2>2 DEF IInv, CopyIsCurrent, TypeOK
    <2>4. PICK f \in StoreFiles : f = disk
      BY <2>3
    <2>5. \/ UNCHANGED disk
          \/ disk'.revision = f.revision + 1 /\ References(f, disk')
      BY <2>1, <2>3, <2>4, BodyEffect
    <2> QED BY <2>4, <2>5
  <1>2. CASE (\E c \in Caller : Lock(c)) \/ Crash \/ UNCHANGED vars
    BY <1>2 DEF Lock, Crash, vars
  <1> QED BY <1>1, <1>2 DEF Next

\* While callers with a Store value each never cross, no revision is reused or
\* skipped: each file on disk is one write after the file it replaces.
THEOREM RevisionsCount == Spec /\ []NoCrossing => RevisionMonotonic
  <1>1. Init => IInv
    BY InvInit
  <1>2. IInv /\ NoCrossing /\ NoCrossing' /\ [Next]_vars => IInv'
    BY InvStep
  <1>3. IInv /\ [Next]_vars => [disk' # disk => disk'.revision = disk.revision + 1]_disk
    BY StepEffect
  <1> QED BY <1>1, <1>2, <1>3, PTL DEF Spec, RevisionMonotonic

\* While callers with a Store value each never cross, none takes a host or a
\* profile from under a chain, also when the chain is saved while the deletion
\* is being requested.
THEOREM ReferencesNeverBroken == Spec /\ []NoCrossing => NoReferenceBroken
  <1>1. Init => IInv
    BY InvInit
  <1>2. IInv /\ NoCrossing /\ NoCrossing' /\ [Next]_vars => IInv'
    BY InvStep
  <1>3. IInv /\ [Next]_vars =>
            [/\ \A n \in disk.hosts \ disk'.hosts : ~ReferencedByChain(disk', n)
             /\ \A p \in disk.profiles \ disk'.profiles : ~ProfileInUse(disk', p)]_disk
    BY StepEffect DEF References
  <1> QED BY <1>1, <1>2, <1>3, PTL DEF Spec, NoReferenceBroken

\* The checks of SaveUser (store.go:739) and SaveLink hold for the file, not
\* only for the copy they looked at, with any number of Store values: a write
\* from a stale copy loses another write, and leaves a file whose MTProxy
\* secrets are disjoint per node and whose links are unique, because the copy
\* was such a file too.
THEOREM ChecksHold == Spec => [](SecretsDisjoint /\ LinksUnique)
  <1> DEFINE Whole(f) == SecretsOf(f) /\ LinksOf(f)
             J == TypeOK /\ Whole(disk) /\ \A c \in Caller : Whole(sf[c])
  <1>n. Whole(newStoreFile)
    <2>1. /\ newStoreFile.users = [u \in User |-> None]
          /\ newStoreFile.links = [l \in LinkId |-> None]
      BY DEF newStoreFile
    <2> QED BY <2>1 DEF SecretsOf, SecretClash, LinksOf
  <1>1. Init => J
    <2> SUFFICES ASSUME Init PROVE J
      OBVIOUS
    <2>1. /\ disk.users = newStoreFile.users
          /\ disk.links = newStoreFile.links
      BY DEF Init, newStoreFile
    <2>2. Whole(disk)
      BY <1>n, <2>1, SecretsFromUsers DEF LinksOf
    <2>3. \A c \in Caller : sf[c] = newStoreFile
      BY DEF Init
    <2> QED BY <1>n, <2>2, <2>3, TypeInit
  <1>2. J /\ [Next]_vars => J'
    <2> SUFFICES ASSUME J, [Next]_vars PROVE J'
      OBVIOUS
    <2>0. TypeOK /\ TypeOK'
      BY TypeStep
    <2> HIDE DEF Whole
    <2>1. CASE \E c \in Caller : Lock(c)
      BY <2>0, <2>1 DEF Lock, TypeOK
    <2>2. CASE \E c \in Caller : Body(c)
      <3>1. PICK c \in Caller : Body(c)
        BY <2>2
      <3>2. PICK f \in StoreFiles : sf[c] = f /\ Whole(f)
        BY <2>0 DEF TypeOK
      <3>3. UNCHANGED disk \/ ((SecretsOf(f) => SecretsOf(disk')) /\ (LinksOf(f) => LinksOf(disk')))
        BY <3>1, <3>2, BodyEffect
      <3>4. Whole(disk')
        <4>1. CASE UNCHANGED disk
          BY <4>1
        <4>2. CASE ~UNCHANGED disk
          BY <3>2, <3>3, <4>2 DEF Whole
        <4> QED BY <4>1, <4>2
      <3>5. Unlock(c)
        BY <2>0, <3>1, BodyStep
      <3>6. \A d \in Caller : Whole(sf'[d])
        BY <1>n, <2>0, <3>5 DEF Unlock, TypeOK
      <3> QED BY <2>0, <3>4, <3>6
    <2>3. CASE Crash
      BY <1>n, <2>0, <2>3 DEF Crash
    <2>4. CASE UNCHANGED vars
      BY <2>0, <2>4 DEF vars
    <2> QED BY <2>1, <2>2, <2>3, <2>4 DEF Next
  <1>3. J => SecretsDisjoint /\ LinksUnique
    BY DEF SecretsDisjoint, LinksUnique, SecretsOf, LinksOf
  <1> QED BY <1>1, <1>2, <1>3, PTL DEF Spec
=============================================================================
