---------------------------- MODULE AtomicStore ----------------------------
(***************************************************************************)
(* What the Store promises its callers: every method is one atomic step on *)
(* the store file, accepted or refused on the contents it replaces.        *)
(***************************************************************************)
EXTENDS StoreFile

VARIABLE store

AInit ==
    /\ store \in StoreFiles
    /\ store.revision = 0

Write(sf) == store' = writeStore(sf)

HostStep ==
    \E id \in Node :
        \/ Write(SaveHost(store, id))
        \/ DeleteHostAllowed(store, id) /\ Write(DeleteHost(store, id))
        \/ Write(SaveNodeInfo(store, id))
        \/ Write(SaveMetrics(store, id))
        \/ DeleteNodeInfoAllowed(store, id) /\ Write(DeleteNodeInfo(store, id))

ChainStep ==
    \/ \E c \in ChainName :
          \/ \E nodes \in SUBSET (Node \X Ref) \ {{}} :
                Write(SaveChain(store, c, nodes))
          \/ DeleteChainAllowed(store, c) /\ Write(DeleteChain(store, c))
    \/ \E p \in Profile :
          \/ Write(SaveInboundProfile(store, p))
          \/ /\ DeleteInboundProfileAllowed(store, p)
             /\ Write(DeleteInboundProfile(store, p))

UserStep ==
    \/ \E u \in User :
          \/ \E rec \in UserRecord :
                SaveUserAllowed(store, u, rec) /\ Write(SaveUser(store, u, rec))
          \/ DeleteUserAllowed(store, u) /\ Write(DeleteUser(store, u))
    \/ \E l \in LinkId :
          \/ \E e \in Edge :
                SaveLinkAllowed(store, l, e) /\ Write(SaveLink(store, l, e))
          \/ DeleteLinkAllowed(store, l) /\ Write(DeleteLink(store, l))

MigrateStep ==
    /\ store.schema < CurrentSchema
    /\ Write([migrateOrphanNodeInfos(store) EXCEPT !.schema = CurrentSchema])

ANext == HostStep \/ ChainStep \/ UserStep \/ MigrateStep

ASpec == AInit /\ [][ANext]_store
=============================================================================
