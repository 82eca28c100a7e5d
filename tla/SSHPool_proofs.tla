--------------------------- MODULE SSHPool_proofs ---------------------------
(***************************************************************************)
(* The connection pool for every number of borrowers, raw dialers, nodes,  *)
(* dials and changes of keys. The nodes that the raw dialers reach may be  *)
(* nodes of the pool.                                                      *)
(***************************************************************************)
EXTENDS SSHPool, TLAPS

-----------------------------------------------------------------------------
(* The inductive invariant *)

EntFields  == {"fp", "key", "inUse", "stale"}
ConnFields == {"fp", "key", "open", "alive"}
CallFields == {"host", "key", "c", "prev"}

Shapes ==
    /\ entries \in [PoolHosts -> Conns \cup {NoOne}]
    /\ DOMAIN ent = Conns
    /\ \A c \in Conns : DOMAIN ent[c] = EntFields /\ ent[c].key \in Nat
    /\ DOMAIN conn = Conns
    /\ \A c \in Conns : DOMAIN conn[c] = ConnFields /\ conn[c].key \in Nat
    /\ DOMAIN call = Borrowers
    /\ \A p \in Borrowers : DOMAIN call[p] = CallFields /\ call[p].key \in Nat
    /\ DOMAIN pc = Borrowers
    /\ DOMAIN captured = Borrowers
    /\ DOMAIN known = Hosts /\ DOMAIN pending = PoolHosts /\ DOMAIN hostKey = Hosts
    /\ keys \in [PoolHosts -> Nat]
    /\ opened \in 0..MaxDials /\ changes \in 0..MaxChanges

\* Where a borrower has a connection in a local.
Holding == {"check", "mark", "evict", "put", "hold"}
\* Where the key that its call resolved may still be the current one.
Looking == {"lookup", "check", "mark", "evict", "dial", "dialing"}

\* The pool and the borrowers only know connections that were dialed.
HostsPlaced   == \A p \in Borrowers : pc[p] # "out" => call[p].host \in PoolHosts
HeldDialed    == \A p \in Borrowers : pc[p] \in Holding => call[p].c \in 1..opened
EntriesDialed == \A h \in PoolHosts : entries[h] # NoOne => entries[h] \in 1..opened
RestUnused    == \A c \in Conns : c > opened => ~conn[c].open /\ ent[c].key = 0 /\ ent[c].fp = NoOne

Placed == HostsPlaced /\ HeldDialed /\ EntriesDialed /\ RestUnused

\* An entry claims no newer key than its connection was authenticated with: the key
\* recorded is the one resolved before the dial, which resolved it again.
EntryKeys   == \A c \in Conns : ent[c].key <= conn[c].key
LookingKeys == \A p \in Borrowers : pc[p] \in Looking => call[p].key <= keys[call[p].host]
HeldKeys    == \A p \in Borrowers : pc[p] \in {"put", "mark", "hold"} => call[p].key <= conn[call[p].c].key

KeysOrdered == EntryKeys /\ LookingKeys /\ HeldKeys

\* A fingerprint names its node, and is of this node wherever it is on record for it.
OfHost(fp, h) == fp \in Fingerprints /\ fp[1] = h

FingerprintsNamed ==
    /\ \A h \in Hosts : OfHost(hostKey[h], h) /\ hostKey[h][2] \in 0..changes
    /\ \A h \in Hosts : known[h] # NoOne => OfHost(known[h].fp, h)
    /\ \A h \in PoolHosts : pending[h] # NoOne => OfHost(pending[h], h)

\* A connection that is alive reaches the node as it is now, and what was captured
\* for it is that node's key, or, when a raw dial got in between, another node's.
Reached ==
    /\ \A c \in Conns : conn[c].alive =>
           /\ conn[c].open /\ conn[c].fp[1] \in PoolHosts
           /\ conn[c].fp = hostKey[conn[c].fp[1]]
           /\ ent[c].fp # NoOne /\ ent[c].fp[1] = conn[c].fp[1] => ent[c].fp = conn[c].fp
    /\ \A h \in PoolHosts : entries[h] # NoOne => conn[entries[h]].fp[1] = h
    /\ \A p \in Borrowers : pc[p] \in Holding => conn[call[p].c].fp[1] = call[p].host
    /\ \A p \in Borrowers : pc[p] = "put" /\ conn[call[p].c].alive =>
           (captured[p][1] = call[p].host => captured[p] = conn[call[p].c].fp)

IInv == Shapes /\ Placed /\ KeysOrdered /\ OpenIsOwned /\ FingerprintsNamed /\ Reached

-----------------------------------------------------------------------------
(* What the steps do *)

\* Only borrower p moves.
Moves(p) ==
    /\ DOMAIN pc' = Borrowers /\ DOMAIN call' = Borrowers
    /\ \A q \in Borrowers : q # p => pc'[q] = pc[q] /\ call'[q] = call[q]
    /\ DOMAIN call'[p] = CallFields

\* p's call still has its host and its key.
SameCall(p) == call'[p].host = call[p].host /\ call'[p].key = call[p].key

\* The entries say what they said, but for the flags.
EntKept ==
    /\ DOMAIN ent' = Conns
    /\ \A c \in Conns : /\ DOMAIN ent'[c] = EntFields
                        /\ ent'[c].fp = ent[c].fp /\ ent'[c].key = ent[c].key

\* No connection is opened or revived.
ConnKept ==
    /\ DOMAIN conn' = Conns
    /\ \A c \in Conns : /\ DOMAIN conn'[c] = ConnFields
                        /\ conn'[c].fp = conn[c].fp /\ conn'[c].key = conn[c].key
                        /\ conn'[c].open => conn[c].open
                        /\ conn'[c].alive => conn[c].alive

\* Connections S are closed.
Closes(S) ==
    /\ ConnKept /\ DOMAIN ent' = Conns
    /\ \A c \in Conns \cap S : /\ ~conn'[c].open /\ ~conn'[c].alive
                               /\ DOMAIN ent'[c] = EntFields
                               /\ ent'[c].key = 0 /\ ent'[c].fp = NoOne
    /\ \A c \in Conns \ S : conn'[c] = conn[c] /\ ent'[c] = ent[c]

LEMMA CloseConnsFacts ==
    ASSUME Shapes, NEW S, CloseConns(S)
    PROVE  Closes(S)
<1>1. ASSUME NEW c \in Conns \cap S
      PROVE  /\ DOMAIN conn'[c] = ConnFields /\ conn'[c].fp = conn[c].fp
             /\ conn'[c].key = conn[c].key /\ ~conn'[c].open /\ ~conn'[c].alive
             /\ ent'[c] = NewEntry
  BY DEF CloseConns, Shapes, ConnFields
<1>2. DOMAIN NewEntry = EntFields /\ NewEntry.key = 0 /\ NewEntry.fp = NoOne
  BY DEF NewEntry, EntFields
<1>3. DOMAIN conn' = Conns /\ DOMAIN ent' = Conns
  BY DEF CloseConns
<1>4. \A c \in Conns \ S : conn'[c] = conn[c] /\ ent'[c] = ent[c]
  BY DEF CloseConns
<1> QED BY <1>1, <1>2, <1>3, <1>4 DEF Closes, ConnKept, Shapes

LEMMA NoCallFacts ==
    /\ DOMAIN NoCall = CallFields /\ NoCall.key = 0
    /\ \A h, k : LET n == [NoCall EXCEPT !.host = h, !.key = k]
                 IN  DOMAIN n = CallFields /\ n.host = h /\ n.key = k
BY DEF NoCall, CallFields

LEMMA BeginFacts ==
    ASSUME Shapes, NEW p \in Borrowers, NEW h \in PoolHosts, Begin(p, h)
    PROVE  /\ pc[p] = "out" /\ Moves(p) /\ pc'[p] = "lookup"
           /\ call'[p].host = h /\ call'[p].key = keys[h]
           /\ UNCHANGED <<entries, ent, conn, opened, captured, known, pending, keys, hostKey, lost, changes>>
BY NoCallFacts DEF Begin, Shapes, Moves

LEMMA LookupFacts ==
    ASSUME Shapes, NEW p \in Borrowers, Lookup(p)
    PROVE  /\ pc[p] = "lookup" /\ Moves(p) /\ SameCall(p)
           /\ call'[p].c = entries[call[p].host]
           /\ pc'[p] = IF entries[call[p].host] = NoOne THEN "dial" ELSE "check"
           /\ UNCHANGED <<entries, ent, conn, opened, captured, known, pending, keys, hostKey, lost, changes>>
BY DEF Lookup, Shapes, Moves, SameCall, CallFields

LEMMA CheckFacts ==
    ASSUME Shapes, NEW p \in Borrowers, Check(p)
    PROVE  /\ pc[p] = "check" /\ Moves(p) /\ call'[p] = call[p]
           /\ \/ pc'[p] = "mark" /\ Usable(call[p].c, call[p].host, call[p].key)
              \/ pc'[p] = "evict"
           /\ UNCHANGED <<entries, ent, conn, opened, captured, known, pending, keys, hostKey, lost, changes>>
BY DEF Check, Shapes, Moves

LEMMA MarkFacts ==
    ASSUME Shapes, NEW p \in Borrowers, Mark(p)
    PROVE  /\ pc[p] = "mark" /\ Moves(p) /\ call'[p] = call[p] /\ pc'[p] = "hold" /\ EntKept
           /\ UNCHANGED <<entries, conn, opened, captured, known, pending, keys, hostKey, lost, changes>>
<1>1. /\ pc[p] = "mark" /\ Moves(p) /\ call'[p] = call[p] /\ pc'[p] = "hold"
      /\ UNCHANGED <<entries, conn, opened, captured, known, pending, keys, hostKey, lost, changes>>
  BY DEF Mark, Shapes, Moves
<1>2. EntKept
  BY DEF Mark, Shapes, EntKept, EntFields
<1> QED BY <1>1, <1>2

LEMMA EvictFacts ==
    ASSUME Shapes, NEW p \in Borrowers, Evict(p)
    PROVE  /\ pc[p] = "evict" /\ Moves(p) /\ SameCall(p) /\ pc'[p] = "dial"
           /\ Closes({call[p].c})
           /\ entries' \in [PoolHosts -> Conns \cup {NoOne}]
           /\ \A h \in PoolHosts : \/ entries'[h] = entries[h]
                                   \/ entries'[h] = NoOne /\ entries[h] = call[p].c
           /\ UNCHANGED <<opened, captured, known, pending, keys, hostKey, lost, changes>>
<1>1. /\ pc[p] = "evict" /\ Moves(p) /\ SameCall(p) /\ pc'[p] = "dial"
      /\ UNCHANGED <<opened, captured, known, pending, keys, hostKey, lost, changes>>
  BY DEF Evict, Shapes, Moves, SameCall, CallFields
<1>2. Closes({call[p].c})
  BY CloseConnsFacts DEF Evict
<1>3. entries' = IF entries[call[p].host] = call[p].c
                 THEN [entries EXCEPT ![call[p].host] = NoOne] ELSE entries
  BY DEF Evict
<1>4. /\ entries' \in [PoolHosts -> Conns \cup {NoOne}]
      /\ \A h \in PoolHosts : \/ entries'[h] = entries[h]
                              \/ entries'[h] = NoOne /\ entries[h] = call[p].c
  BY <1>3 DEF Shapes
<1> QED BY <1>1, <1>2, <1>4

LEMMA DialBeginFacts ==
    ASSUME Shapes, NEW p \in Borrowers, DialBegin(p)
    PROVE  /\ pc[p] = "dial" /\ Moves(p) /\ SameCall(p) /\ pc'[p] = "dialing"
           /\ UNCHANGED <<entries, ent, conn, opened, captured, known, pending, keys, hostKey, lost, changes>>
BY DEF DialBegin, Shapes, Moves, SameCall, CallFields

\* CheckHostKey leaves a key on record as it is, and records the one presented.
KnownAfter ==
    /\ DOMAIN known' = Hosts
    /\ \A h \in Hosts : known'[h] = known[h] \/ known'[h].fp = hostKey[h]

LEMMA CheckHostKeyFacts ==
    ASSUME Shapes, NEW h, CheckHostKey(h)
    PROVE  KnownAfter
BY DEF CheckHostKey, Shapes, KnownAfter

LEMMA DialSucceedsFacts ==
    ASSUME Shapes, Placed, NEW p \in Borrowers, DialSucceeds(p)
    PROVE  LET c == opened + 1
           IN  /\ call[p].host \in PoolHosts /\ keys[call[p].host] \in Nat /\ c \in 0..MaxDials
               /\ pc[p] = "dialing" /\ Moves(p) /\ SameCall(p) /\ pc'[p] = "put"
               /\ c \in Conns /\ opened' = c /\ call'[p].c = c
               /\ DOMAIN conn' = Conns /\ (\A d \in Conns : d # c => conn'[d] = conn[d])
               /\ DOMAIN conn'[c] = ConnFields /\ conn'[c].open /\ conn'[c].alive
               /\ conn'[c].fp = hostKey[call[p].host] /\ conn'[c].key = keys[call[p].host]
               /\ DOMAIN captured' = Borrowers /\ captured'[p] = hostKey[call[p].host]
               /\ \A q \in Borrowers : q # p => captured'[q] = captured[q]
               /\ KnownAfter
               /\ UNCHANGED <<entries, ent, pending, keys, hostKey, lost, changes>>
<1> DEFINE c == opened + 1
<1>1. /\ pc[p] = "dialing" /\ Moves(p) /\ SameCall(p) /\ pc'[p] = "put"
      /\ opened' = c /\ call'[p].c = c
      /\ UNCHANGED <<entries, ent, pending, keys, hostKey, lost, changes>>
  BY DEF DialSucceeds, Shapes, Moves, SameCall, CallFields
<1>0. call[p].host \in PoolHosts /\ keys[call[p].host] \in Nat
  BY <1>1 DEF Placed, HostsPlaced, Shapes
<1>2. c \in Conns /\ c \in 0..MaxDials
  BY PoolAssumption DEF DialSucceeds, Shapes, Conns
<1>3. /\ DOMAIN conn' = Conns /\ (\A d \in Conns : d # c => conn'[d] = conn[d])
      /\ conn'[c] = [fp |-> hostKey[call[p].host], key |-> keys[call[p].host], open |-> TRUE, alive |-> TRUE]
  BY <1>2 DEF DialSucceeds, Shapes
<1>4. DOMAIN conn'[c] = ConnFields /\ conn'[c].open /\ conn'[c].alive
      /\ conn'[c].fp = hostKey[call[p].host] /\ conn'[c].key = keys[call[p].host]
  BY <1>3 DEF ConnFields
<1>5. /\ DOMAIN captured' = Borrowers /\ captured'[p] = hostKey[call[p].host]
      /\ \A q \in Borrowers : q # p => captured'[q] = captured[q]
  BY DEF DialSucceeds, Captures, Shapes
<1>6. KnownAfter
  BY CheckHostKeyFacts DEF DialSucceeds
<1> QED BY <1>0, <1>1, <1>2, <1>3, <1>4, <1>5, <1>6

LEMMA DialFailsFacts ==
    ASSUME Shapes, NEW p \in Borrowers, DialFails(p)
    PROVE  /\ pc[p] = "dialing" /\ Moves(p) /\ pc'[p] = "out" /\ call'[p].key = 0
           /\ DOMAIN captured' = Borrowers
           /\ \A q \in Borrowers : q # p => captured'[q] = captured[q]
           /\ KnownAfter /\ DOMAIN pending' = PoolHosts
           /\ \A h \in PoolHosts : pending'[h] \in {pending[h], hostKey[h]}
           /\ UNCHANGED <<entries, ent, conn, opened, keys, hostKey, lost, changes>>
<1>1. /\ pc[p] = "dialing" /\ Moves(p) /\ pc'[p] = "out" /\ call'[p].key = 0
      /\ UNCHANGED <<entries, ent, conn, opened, keys, hostKey, lost, changes>>
  BY NoCallFacts DEF DialFails, Shapes, Moves
<1>2. /\ DOMAIN captured' = Borrowers
      /\ \A q \in Borrowers : q # p => captured'[q] = captured[q]
  BY DEF DialFails, Shapes
<1>3. UNCHANGED known \/ CheckHostKey(call[p].host)
  BY DEF DialFails
<1>4. KnownAfter
  BY <1>3, CheckHostKeyFacts DEF KnownAfter, Shapes
<1>5. UNCHANGED pending \/ pending' = [pending EXCEPT ![call[p].host] = hostKey[call[p].host]]
  BY DEF DialFails
<1>6. /\ DOMAIN pending' = PoolHosts
      /\ \A h \in PoolHosts : pending'[h] \in {pending[h], hostKey[h]}
  BY <1>5 DEF Shapes
<1> QED BY <1>1, <1>2, <1>4, <1>6

LEMMA PutFacts ==
    ASSUME Shapes, Placed, NEW p \in Borrowers, Put(p)
    PROVE  /\ call[p].host \in PoolHosts /\ call[p].c \in Conns /\ call[p].c \in 1..opened
           /\ pc[p] = "put" /\ Moves(p) /\ call'[p] = call[p] /\ pc'[p] = "hold"
           /\ DOMAIN ent' = Conns /\ DOMAIN ent'[call[p].c] = EntFields
           /\ ent'[call[p].c].fp = captured[p] /\ ent'[call[p].c].key = call[p].key
           /\ \A d \in Conns : d # call[p].c => ent'[d] = ent[d]
           /\ entries' \in [PoolHosts -> Conns \cup {NoOne}]
           /\ entries'[call[p].host] = call[p].c
           /\ \A h \in PoolHosts : h # call[p].host => entries'[h] = entries[h]
           /\ lost \subseteq lost'
           /\ LET old == entries[call[p].host]
              IN  old # NoOne => Referenced(old) \/ old \in lost'
           /\ DOMAIN captured' = Borrowers
           /\ \A q \in Borrowers : q # p => captured'[q] = captured[q]
           /\ UNCHANGED <<conn, opened, known, pending, keys, hostKey, changes>>
<1>1. /\ pc[p] = "put" /\ Moves(p) /\ call'[p] = call[p] /\ pc'[p] = "hold"
      /\ UNCHANGED <<conn, opened, known, pending, keys, hostKey, changes>>
  BY DEF Put, Shapes, Moves
<1>0. call[p].host \in PoolHosts /\ call[p].c \in Conns /\ call[p].c \in 1..opened
  BY <1>1, PoolAssumption DEF Placed, HostsPlaced, HeldDialed, Holding, Shapes, Conns
<1> DEFINE c == call[p].c
           e == [fp |-> captured[p], key |-> call[p].key, inUse |-> TRUE, stale |-> FALSE]
<1>2. ent' = [ent EXCEPT ![c] = e]
  BY DEF Put
<1>3. DOMAIN e = EntFields /\ e.fp = captured[p] /\ e.key = call[p].key
  BY DEF EntFields
<1> HIDE DEF e
<1>4. /\ DOMAIN ent' = Conns /\ ent'[c] = e
      /\ \A d \in Conns : d # c => ent'[d] = ent[d]
  BY <1>0, <1>2 DEF Shapes
<1>5. entries' = [entries EXCEPT ![call[p].host] = c]
  BY DEF Put
<1>6. /\ entries' \in [PoolHosts -> Conns \cup {NoOne}] /\ entries'[call[p].host] = c
      /\ \A h \in PoolHosts : h # call[p].host => entries'[h] = entries[h]
  BY <1>0, <1>5 DEF Shapes
<1>7. lost' = IF entries[call[p].host] # NoOne /\ ~Referenced(entries[call[p].host])
              THEN lost \cup {entries[call[p].host]} ELSE lost
  BY DEF Put
<1>8. /\ DOMAIN captured' = Borrowers
      /\ \A q \in Borrowers : q # p => captured'[q] = captured[q]
  BY DEF Put, Shapes
<1> QED BY <1>0, <1>1, <1>3, <1>4, <1>6, <1>7, <1>8

LEMMA ReleaseFacts ==
    ASSUME Shapes, NEW p \in Borrowers, Release(p)
    PROVE  /\ pc[p] = "hold" /\ Moves(p) /\ pc'[p] = "out" /\ call'[p].key = 0
           /\ \/ entries[call[p].host] = call[p].c /\ EntKept /\ UNCHANGED conn
              \/ Closes({call[p].c})
           /\ UNCHANGED <<entries, opened, captured, known, pending, keys, hostKey, lost, changes>>
<1>1. /\ pc[p] = "hold" /\ Moves(p) /\ pc'[p] = "out" /\ call'[p].key = 0
      /\ UNCHANGED <<entries, opened, captured, known, pending, keys, hostKey, lost, changes>>
  BY NoCallFacts DEF Release, Shapes, Moves
<1>2. \/ entries[call[p].host] = call[p].c /\ GiveBack(call[p].c)
      \/ CloseConns({call[p].c})
  BY DEF Release, CloseOrphan
<1>3. ASSUME GiveBack(call[p].c) PROVE EntKept /\ UNCHANGED conn
  BY <1>3 DEF GiveBack, EntKept, Shapes, EntFields
<1> QED BY <1>1, <1>2, <1>3, CloseConnsFacts

LEMMA ExpireFacts ==
    ASSUME Shapes, NEW c \in Conns, Expire(c)
    PROVE  /\ EntKept
           /\ UNCHANGED <<entries, conn, opened, pc, call, captured, known, pending, keys, hostKey, lost, changes>>
BY DEF Expire, EntKept, Shapes, EntFields

\* The sweeper and the shutdown: entries go, with their connections.
Drops ==
    /\ entries' \in [PoolHosts -> Conns \cup {NoOne}]
    /\ \E S : /\ Closes(S)
              /\ \A h \in PoolHosts : \/ entries'[h] = entries[h]
                                      \/ entries'[h] = NoOne /\ (entries[h] # NoOne => entries[h] \in S)
    /\ UNCHANGED <<opened, pc, call, captured, known, pending, keys, hostKey, lost, changes>>

LEMMA SweepOnceFacts == ASSUME Shapes, SweepOnce PROVE Drops
<1> DEFINE S == {entries[h] : h \in Swept}
<1>1. Closes(S)
  BY CloseConnsFacts DEF SweepOnce
<1>2. UNCHANGED <<opened, pc, call, captured, known, pending, keys, hostKey, lost, changes>>
  BY DEF SweepOnce
<1>3. entries' = [h \in PoolHosts |-> IF h \in Swept THEN NoOne ELSE entries[h]]
  BY DEF SweepOnce
<1>4. /\ entries' \in [PoolHosts -> Conns \cup {NoOne}]
      /\ \A h \in PoolHosts : entries'[h] = entries[h] \/ (entries'[h] = NoOne /\ entries[h] \in S)
  BY <1>3 DEF Shapes
<1> HIDE DEF S
<1> QED BY <1>1, <1>2, <1>4 DEF Drops

LEMMA CloseFacts == ASSUME Shapes, Close PROVE Drops
<1> DEFINE S == {entries[h] : h \in PoolHosts} \ {NoOne}
<1>1. Closes(S)
  BY CloseConnsFacts DEF Close
<1>2. UNCHANGED <<opened, pc, call, captured, known, pending, keys, hostKey, lost, changes>>
  BY DEF Close
<1>3. entries' = [h \in PoolHosts |-> NoOne]
  BY DEF Close
<1>4. /\ entries' \in [PoolHosts -> Conns \cup {NoOne}]
      /\ \A h \in PoolHosts : entries'[h] = NoOne /\ (entries[h] # NoOne => entries[h] \in S)
  BY <1>3
<1> HIDE DEF S
<1> QED BY <1>1, <1>2, <1>4 DEF Drops

LEMMA RawBeginFacts ==
    ASSUME NEW r, RawBegin(r)
    PROVE  UNCHANGED <<entries, ent, conn, opened, pc, call, captured, known, pending, keys, hostKey, lost, changes>>
BY DEF RawBegin

LEMMA RawEndFacts ==
    ASSUME Shapes, NEW r, NEW h \in RawHosts, RawEnd(r, h)
    PROVE  /\ DOMAIN captured' = Borrowers
           /\ \A q \in Borrowers : captured'[q] \in {captured[q], hostKey[h]}
           /\ UNCHANGED <<entries, ent, conn, opened, pc, call, known, pending, keys, hostKey, lost, changes>>
BY DEF RawEnd, Captures, Shapes

LEMMA TrustFacts ==
    ASSUME Shapes, NEW h \in PoolHosts, NEW fp, TrustHostKey(h, fp)
    PROVE  /\ DOMAIN known' = Hosts /\ DOMAIN pending' = PoolHosts
           /\ pending[h] # NoOne /\ known'[h].fp = pending[h]
           /\ \A i \in Hosts : i # h => known'[i] = known[i]
           /\ \A i \in PoolHosts : pending'[i] \in {pending[i], NoOne}
           /\ UNCHANGED <<entries, ent, conn, opened, pc, call, captured, keys, hostKey, lost, changes>>
BY DEF TrustHostKey, TrustAllowed, Shapes, Hosts

LEMMA RotateKeyFacts ==
    ASSUME Shapes, NEW h \in PoolHosts, RotateKey(h)
    PROVE  /\ keys' \in [PoolHosts -> Nat] /\ (\A i \in PoolHosts : keys[i] <= keys'[i])
           /\ changes' \in 0..MaxChanges /\ changes <= changes'
           /\ UNCHANGED <<entries, ent, conn, opened, pc, call, captured, known, pending, hostKey, lost>>
BY PoolAssumption DEF RotateKey, Change, Shapes

LEMMA BreakFacts ==
    ASSUME Shapes, NEW c \in Conns, Break(c)
    PROVE  /\ ConnKept /\ (\A d \in Conns : conn'[d].open = conn[d].open)
           /\ changes' \in 0..MaxChanges /\ changes <= changes'
           /\ UNCHANGED <<entries, ent, opened, pc, call, captured, known, pending, keys, hostKey, lost>>
<1>1. /\ changes' \in 0..MaxChanges /\ changes <= changes'
      /\ UNCHANGED <<entries, ent, opened, pc, call, captured, known, pending, keys, hostKey, lost>>
  BY PoolAssumption DEF Break, Change, Shapes
<1>2. conn' = [conn EXCEPT ![c].alive = FALSE]
  BY DEF Break
<1>3. ConnKept /\ \A d \in Conns : conn'[d].open = conn[d].open
  BY <1>2 DEF ConnKept, Shapes, ConnFields
<1> QED BY <1>1, <1>3

LEMMA RekeyFacts ==
    ASSUME Shapes, NEW h \in PoolHosts, Rekey(h)
    PROVE  /\ ConnKept /\ (\A d \in Conns : conn'[d].open = conn[d].open)
           /\ \A d \in Conns : conn'[d].alive => conn[d].fp # hostKey[h]
           /\ DOMAIN hostKey' = Hosts /\ hostKey'[h] = <<h, hostKey[h][2] + 1>>
           /\ \A i \in Hosts : i # h => hostKey'[i] = hostKey[i]
           /\ changes' \in 0..MaxChanges /\ changes' = changes + 1
           /\ UNCHANGED <<entries, ent, opened, pc, call, captured, known, pending, keys, lost>>
<1>1. /\ changes' \in 0..MaxChanges /\ changes' = changes + 1
      /\ UNCHANGED <<entries, ent, opened, pc, call, captured, known, pending, keys, lost>>
  BY PoolAssumption DEF Rekey, Change, Shapes
<1>2. /\ DOMAIN hostKey' = Hosts /\ hostKey'[h] = <<h, hostKey[h][2] + 1>>
      /\ \A i \in Hosts : i # h => hostKey'[i] = hostKey[i]
  BY DEF Rekey, Shapes, Hosts
<1>3. conn' = [c \in Conns |-> IF conn[c].fp = hostKey[h] THEN [conn[c] EXCEPT !.alive = FALSE] ELSE conn[c]]
  BY DEF Rekey
<1>4. /\ ConnKept /\ \A d \in Conns : conn'[d].open = conn[d].open
      /\ \A d \in Conns : conn'[d].alive => conn[d].fp # hostKey[h]
  BY <1>3 DEF ConnKept, Shapes, ConnFields
<1> QED BY <1>1, <1>2, <1>4






-----------------------------------------------------------------------------
(* The invariant is preserved *)

LEMMA ShapesStep == ASSUME Shapes, Placed, Next PROVE Shapes'
<1> USE DEF Shapes
<1>1. ASSUME NEW p \in Borrowers, NEW h \in PoolHosts, Begin(p, h) PROVE Shapes'
  BY <1>1, BeginFacts DEF Moves
<1>2. ASSUME NEW p \in Borrowers, Lookup(p) PROVE Shapes'
  BY <1>2, LookupFacts DEF Moves, SameCall
<1>3. ASSUME NEW p \in Borrowers, Check(p) PROVE Shapes'
  BY <1>3, CheckFacts DEF Moves
<1>4. ASSUME NEW p \in Borrowers, Mark(p) PROVE Shapes'
  BY <1>4, MarkFacts DEF Moves, EntKept
<1>5. ASSUME NEW p \in Borrowers, Evict(p) PROVE Shapes'
  BY <1>5, EvictFacts DEF Moves, SameCall, Closes, ConnKept
<1>6. ASSUME NEW p \in Borrowers, DialBegin(p) PROVE Shapes'
  BY <1>6, DialBeginFacts DEF Moves, SameCall
<1>7. ASSUME NEW p \in Borrowers, DialSucceeds(p) PROVE Shapes'
  BY <1>7, DialSucceedsFacts DEF Moves, SameCall, KnownAfter
<1>8. ASSUME NEW p \in Borrowers, DialFails(p) PROVE Shapes'
  BY <1>8, DialFailsFacts DEF Moves, KnownAfter
<1>9. ASSUME NEW p \in Borrowers, Put(p) PROVE Shapes'
  BY <1>9, PutFacts DEF Moves
<1>10. ASSUME NEW p \in Borrowers, Release(p) PROVE Shapes'
  BY <1>10, ReleaseFacts DEF Moves, EntKept, Closes, ConnKept
<1>11. ASSUME NEW c \in Conns, Expire(c) PROVE Shapes'
  BY <1>11, ExpireFacts DEF Moves, EntKept
<1>12. CASE SweepOnce
  BY <1>12, SweepOnceFacts DEF Moves, Drops, Closes, ConnKept
<1>13. CASE Close
  BY <1>13, CloseFacts DEF Moves, Drops, Closes, ConnKept
<1>14. ASSUME NEW r \in RawDialers, RawBegin(r) PROVE Shapes'
  BY <1>14, RawBeginFacts DEF Moves
<1>15. ASSUME NEW r \in RawDialers, NEW h \in RawHosts, RawEnd(r, h) PROVE Shapes'
  BY <1>15, RawEndFacts DEF Moves
<1>16. ASSUME NEW h \in PoolHosts, NEW fp \in Fingerprints, TrustHostKey(h, fp) PROVE Shapes'
  BY <1>16, TrustFacts DEF Moves
<1>17. ASSUME NEW h \in PoolHosts, RotateKey(h) PROVE Shapes'
  BY <1>17, RotateKeyFacts DEF Moves
<1>18. ASSUME NEW c \in Conns, Break(c) PROVE Shapes'
  BY <1>18, BreakFacts DEF Moves, ConnKept
<1>19. ASSUME NEW h \in PoolHosts, Rekey(h) PROVE Shapes'
  BY <1>19, RekeyFacts DEF Moves, ConnKept
<1> QED BY <1>1, <1>2, <1>3, <1>4, <1>5, <1>6, <1>7, <1>8, <1>9, <1>10, <1>11, <1>12,
           <1>13, <1>14, <1>15, <1>16, <1>17, <1>18, <1>19 DEF Next, BorrowerStep

LEMMA PlacedStep == ASSUME Shapes, Placed, Next PROVE Placed'
<1>0. /\ \A c \in Conns : ent[c].key \in Nat /\ conn[c].key \in Nat
      /\ \A p \in Borrowers : call[p].key \in Nat
      /\ \A h \in PoolHosts : keys[h] \in Nat /\ entries[h] \in Conns \cup {NoOne}
      /\ opened \in Nat /\ NoOne \notin Conns /\ 1..opened \subseteq Conns
      /\ Conns \subseteq Nat
  BY PoolAssumption DEF Shapes, Conns
<1> USE DEF Placed, Holding, Looking, Moves
<1>1. ASSUME NEW p \in Borrowers, NEW h \in PoolHosts, Begin(p, h) PROVE Placed'
  BY <1>0, <1>1, BeginFacts DEF HostsPlaced, HeldDialed, EntriesDialed, RestUnused
<1>2. ASSUME NEW p \in Borrowers, Lookup(p) PROVE Placed'
  BY <1>0, <1>2, LookupFacts DEF HostsPlaced, HeldDialed, EntriesDialed, RestUnused, SameCall
<1>3. ASSUME NEW p \in Borrowers, Check(p) PROVE Placed'
  BY <1>0, <1>3, CheckFacts DEF HostsPlaced, HeldDialed, EntriesDialed, RestUnused
<1>4. ASSUME NEW p \in Borrowers, Mark(p) PROVE Placed'
  BY <1>0, <1>4, MarkFacts DEF HostsPlaced, HeldDialed, EntriesDialed, RestUnused, EntKept
<1>5. ASSUME NEW p \in Borrowers, Evict(p) PROVE Placed'
  BY <1>0, <1>5, EvictFacts DEF HostsPlaced, HeldDialed, EntriesDialed, RestUnused, SameCall, Closes, ConnKept
<1>6. ASSUME NEW p \in Borrowers, DialBegin(p) PROVE Placed'
  BY <1>0, <1>6, DialBeginFacts DEF HostsPlaced, HeldDialed, EntriesDialed, RestUnused, SameCall
<1>7. ASSUME NEW p \in Borrowers, DialSucceeds(p) PROVE Placed'
  BY <1>0, <1>7, DialSucceedsFacts DEF HostsPlaced, HeldDialed, EntriesDialed, RestUnused, SameCall
<1>8. ASSUME NEW p \in Borrowers, DialFails(p) PROVE Placed'
  BY <1>0, <1>8, DialFailsFacts DEF HostsPlaced, HeldDialed, EntriesDialed, RestUnused
<1>9. ASSUME NEW p \in Borrowers, Put(p) PROVE Placed'
  BY <1>0, <1>9, PutFacts DEF HostsPlaced, HeldDialed, EntriesDialed, RestUnused
<1>10. ASSUME NEW p \in Borrowers, Release(p) PROVE Placed'
  BY <1>0, <1>10, ReleaseFacts DEF HostsPlaced, HeldDialed, EntriesDialed, RestUnused, EntKept, Closes, ConnKept
<1>11. ASSUME NEW c \in Conns, Expire(c) PROVE Placed'
  BY <1>0, <1>11, ExpireFacts DEF HostsPlaced, HeldDialed, EntriesDialed, RestUnused, EntKept
<1>12. CASE SweepOnce
  BY <1>0, <1>12, SweepOnceFacts DEF HostsPlaced, HeldDialed, EntriesDialed, RestUnused, Drops, Closes, ConnKept
<1>13. CASE Close
  BY <1>0, <1>13, CloseFacts DEF HostsPlaced, HeldDialed, EntriesDialed, RestUnused, Drops, Closes, ConnKept
<1>14. ASSUME NEW r \in RawDialers, RawBegin(r) PROVE Placed'
  BY <1>0, <1>14, RawBeginFacts DEF HostsPlaced, HeldDialed, EntriesDialed, RestUnused
<1>15. ASSUME NEW r \in RawDialers, NEW h \in RawHosts, RawEnd(r, h) PROVE Placed'
  BY <1>0, <1>15, RawEndFacts DEF HostsPlaced, HeldDialed, EntriesDialed, RestUnused
<1>16. ASSUME NEW h \in PoolHosts, NEW fp \in Fingerprints, TrustHostKey(h, fp) PROVE Placed'
  BY <1>0, <1>16, TrustFacts DEF HostsPlaced, HeldDialed, EntriesDialed, RestUnused
<1>17. ASSUME NEW h \in PoolHosts, RotateKey(h) PROVE Placed'
  BY <1>0, <1>17, RotateKeyFacts DEF HostsPlaced, HeldDialed, EntriesDialed, RestUnused
<1>18. ASSUME NEW c \in Conns, Break(c) PROVE Placed'
  BY <1>0, <1>18, BreakFacts DEF HostsPlaced, HeldDialed, EntriesDialed, RestUnused, ConnKept
<1>19. ASSUME NEW h \in PoolHosts, Rekey(h) PROVE Placed'
  BY <1>0, <1>19, RekeyFacts DEF HostsPlaced, HeldDialed, EntriesDialed, RestUnused, ConnKept
<1> QED BY <1>1, <1>2, <1>3, <1>4, <1>5, <1>6, <1>7, <1>8, <1>9, <1>10, <1>11, <1>12,
           <1>13, <1>14, <1>15, <1>16, <1>17, <1>18, <1>19 DEF Next, BorrowerStep

LEMMA KeysStep == ASSUME Shapes, Placed, KeysOrdered, Next PROVE KeysOrdered'
<1>0. /\ \A c \in Conns : ent[c].key \in Nat /\ conn[c].key \in Nat
      /\ \A p \in Borrowers : call[p].key \in Nat
      /\ \A h \in PoolHosts : keys[h] \in Nat /\ entries[h] \in Conns \cup {NoOne}
      /\ opened \in Nat /\ NoOne \notin Conns /\ 1..opened \subseteq Conns
      /\ Conns \subseteq Nat
  BY PoolAssumption DEF Shapes, Conns
<1> USE DEF KeysOrdered, Holding, Looking, Moves
<1>1. ASSUME NEW p \in Borrowers, NEW h \in PoolHosts, Begin(p, h) PROVE KeysOrdered'
  BY <1>0, <1>1, BeginFacts DEF EntryKeys, HeldKeys, Placed, RestUnused, HostsPlaced, HeldDialed, LookingKeys
<1>2. ASSUME NEW p \in Borrowers, Lookup(p) PROVE KeysOrdered'
  BY <1>0, <1>2, LookupFacts DEF EntryKeys, HeldKeys, Placed, RestUnused, HostsPlaced, HeldDialed, LookingKeys, SameCall
<1>3. ASSUME NEW p \in Borrowers, Check(p) PROVE KeysOrdered'
  BY <1>0, <1>3, CheckFacts DEF EntryKeys, HeldKeys, Placed, RestUnused, HostsPlaced, HeldDialed, LookingKeys, Usable
<1>4. ASSUME NEW p \in Borrowers, Mark(p) PROVE KeysOrdered'
  BY <1>0, <1>4, MarkFacts DEF EntryKeys, HeldKeys, Placed, RestUnused, HostsPlaced, HeldDialed, LookingKeys, EntKept
<1>5. ASSUME NEW p \in Borrowers, Evict(p) PROVE KeysOrdered'
  BY <1>0, <1>5, EvictFacts DEF EntryKeys, HeldKeys, Placed, RestUnused, HostsPlaced, HeldDialed, LookingKeys, SameCall, Closes, ConnKept
<1>6. ASSUME NEW p \in Borrowers, DialBegin(p) PROVE KeysOrdered'
  BY <1>0, <1>6, DialBeginFacts DEF EntryKeys, HeldKeys, Placed, RestUnused, HostsPlaced, HeldDialed, LookingKeys, SameCall
<1>7. ASSUME NEW p \in Borrowers, DialSucceeds(p) PROVE KeysOrdered'
  BY <1>0, <1>7, DialSucceedsFacts DEF EntryKeys, HeldKeys, Placed, RestUnused, HostsPlaced, HeldDialed, LookingKeys, SameCall
<1>8. ASSUME NEW p \in Borrowers, DialFails(p) PROVE KeysOrdered'
  BY <1>0, <1>8, DialFailsFacts DEF EntryKeys, HeldKeys, Placed, RestUnused, HostsPlaced, HeldDialed, LookingKeys
<1>9. ASSUME NEW p \in Borrowers, Put(p) PROVE KeysOrdered'
  <2>1. EntryKeys'
    BY <1>0, <1>9, PutFacts DEF EntryKeys, HeldKeys
  <2>2. LookingKeys'
    BY <1>0, <1>9, PutFacts DEF LookingKeys
  <2>3. HeldKeys'
    BY <1>0, <1>9, PutFacts DEF HeldKeys
  <2> QED BY <2>1, <2>2, <2>3
<1>10. ASSUME NEW p \in Borrowers, Release(p) PROVE KeysOrdered'
  BY <1>0, <1>10, ReleaseFacts DEF EntryKeys, HeldKeys, Placed, RestUnused, HostsPlaced, HeldDialed, LookingKeys, EntKept, Closes, ConnKept
<1>11. ASSUME NEW c \in Conns, Expire(c) PROVE KeysOrdered'
  BY <1>0, <1>11, ExpireFacts DEF EntryKeys, HeldKeys, Placed, RestUnused, HostsPlaced, HeldDialed, LookingKeys, EntKept
<1>12. CASE SweepOnce
  BY <1>0, <1>12, SweepOnceFacts DEF EntryKeys, HeldKeys, Placed, RestUnused, HostsPlaced, HeldDialed, LookingKeys, Drops, Closes, ConnKept
<1>13. CASE Close
  BY <1>0, <1>13, CloseFacts DEF EntryKeys, HeldKeys, Placed, RestUnused, HostsPlaced, HeldDialed, LookingKeys, Drops, Closes, ConnKept
<1>14. ASSUME NEW r \in RawDialers, RawBegin(r) PROVE KeysOrdered'
  BY <1>0, <1>14, RawBeginFacts DEF EntryKeys, HeldKeys, Placed, RestUnused, HostsPlaced, HeldDialed, LookingKeys
<1>15. ASSUME NEW r \in RawDialers, NEW h \in RawHosts, RawEnd(r, h) PROVE KeysOrdered'
  BY <1>0, <1>15, RawEndFacts DEF EntryKeys, HeldKeys, Placed, RestUnused, HostsPlaced, HeldDialed, LookingKeys
<1>16. ASSUME NEW h \in PoolHosts, NEW fp \in Fingerprints, TrustHostKey(h, fp) PROVE KeysOrdered'
  BY <1>0, <1>16, TrustFacts DEF EntryKeys, HeldKeys, Placed, RestUnused, HostsPlaced, HeldDialed, LookingKeys
<1>17. ASSUME NEW h \in PoolHosts, RotateKey(h) PROVE KeysOrdered'
  BY <1>0, <1>17, RotateKeyFacts DEF EntryKeys, HeldKeys, Placed, RestUnused, HostsPlaced, HeldDialed, LookingKeys
<1>18. ASSUME NEW c \in Conns, Break(c) PROVE KeysOrdered'
  BY <1>0, <1>18, BreakFacts DEF EntryKeys, HeldKeys, Placed, RestUnused, HostsPlaced, HeldDialed, LookingKeys, ConnKept
<1>19. ASSUME NEW h \in PoolHosts, Rekey(h) PROVE KeysOrdered'
  BY <1>0, <1>19, RekeyFacts DEF EntryKeys, HeldKeys, Placed, RestUnused, HostsPlaced, HeldDialed, LookingKeys, ConnKept
<1> QED BY <1>1, <1>2, <1>3, <1>4, <1>5, <1>6, <1>7, <1>8, <1>9, <1>10, <1>11, <1>12,
           <1>13, <1>14, <1>15, <1>16, <1>17, <1>18, <1>19 DEF Next, BorrowerStep

LEMMA OwnedStep == ASSUME Shapes, Placed, OpenIsOwned, Next PROVE OpenIsOwned'
<1>0. /\ \A c \in Conns : ent[c].key \in Nat /\ conn[c].key \in Nat
      /\ \A p \in Borrowers : call[p].key \in Nat
      /\ \A h \in PoolHosts : keys[h] \in Nat /\ entries[h] \in Conns \cup {NoOne}
      /\ opened \in Nat /\ NoOne \notin Conns /\ 1..opened \subseteq Conns
      /\ Conns \subseteq Nat
  BY PoolAssumption DEF Shapes, Conns
<1> USE DEF OpenIsOwned, Holding, Looking, Moves
<1>1. ASSUME NEW p \in Borrowers, NEW h \in PoolHosts, Begin(p, h) PROVE OpenIsOwned'
  BY <1>0, <1>1, BeginFacts DEF Referenced, Placed, HostsPlaced, HeldDialed, EntriesDialed
<1>2. ASSUME NEW p \in Borrowers, Lookup(p) PROVE OpenIsOwned'
  BY <1>0, <1>2, LookupFacts DEF Referenced, Placed, HostsPlaced, HeldDialed, EntriesDialed, SameCall
<1>3. ASSUME NEW p \in Borrowers, Check(p) PROVE OpenIsOwned'
  BY <1>0, <1>3, CheckFacts DEF Referenced, Placed, HostsPlaced, HeldDialed, EntriesDialed
<1>4. ASSUME NEW p \in Borrowers, Mark(p) PROVE OpenIsOwned'
  BY <1>0, <1>4, MarkFacts DEF Referenced, Placed, HostsPlaced, HeldDialed, EntriesDialed, EntKept
<1>5. ASSUME NEW p \in Borrowers, Evict(p) PROVE OpenIsOwned'
  BY <1>0, <1>5, EvictFacts DEF Referenced, Placed, HostsPlaced, HeldDialed, EntriesDialed, SameCall, Closes, ConnKept
<1>6. ASSUME NEW p \in Borrowers, DialBegin(p) PROVE OpenIsOwned'
  BY <1>0, <1>6, DialBeginFacts DEF Referenced, Placed, HostsPlaced, HeldDialed, EntriesDialed, SameCall
<1>7. ASSUME NEW p \in Borrowers, DialSucceeds(p) PROVE OpenIsOwned'
  BY <1>0, <1>7, DialSucceedsFacts DEF Referenced, Placed, HostsPlaced, HeldDialed, EntriesDialed, SameCall
<1>8. ASSUME NEW p \in Borrowers, DialFails(p) PROVE OpenIsOwned'
  BY <1>0, <1>8, DialFailsFacts DEF Referenced, Placed, HostsPlaced, HeldDialed, EntriesDialed
<1>9. ASSUME NEW p \in Borrowers, Put(p) PROVE OpenIsOwned'
  BY <1>0, <1>9, PutFacts DEF Referenced, Placed, HostsPlaced, HeldDialed, EntriesDialed
<1>10. ASSUME NEW p \in Borrowers, Release(p) PROVE OpenIsOwned'
  <2>1. SUFFICES ASSUME NEW c \in Conns, conn'[c].open
                 PROVE  c \in {entries'[h] : h \in PoolHosts} \/ Referenced(c)' \/ c \in lost'
    OBVIOUS
  <2>2. pc[p] = "hold" /\ call[p].host \in PoolHosts
    BY <1>10, ReleaseFacts DEF Placed, HostsPlaced
  <2>3. CASE c = call[p].c
    BY <1>10, <2>1, <2>2, <2>3, ReleaseFacts DEF Closes
  <2>4. CASE c # call[p].c
    <3>1. conn[c].open
      BY <1>10, <2>1, ReleaseFacts DEF Closes, ConnKept
    <3>2. Referenced(c) => Referenced(c)'
      BY <1>10, <2>2, <2>4, ReleaseFacts DEF Referenced
    <3> QED BY <1>10, <3>1, <3>2, ReleaseFacts
  <2> QED BY <2>3, <2>4
<1>11. ASSUME NEW c \in Conns, Expire(c) PROVE OpenIsOwned'
  BY <1>0, <1>11, ExpireFacts DEF Referenced, Placed, HostsPlaced, HeldDialed, EntriesDialed, EntKept
<1>12. CASE SweepOnce
  BY <1>0, <1>12, SweepOnceFacts DEF Referenced, Placed, HostsPlaced, HeldDialed, EntriesDialed, Drops, Closes, ConnKept
<1>13. CASE Close
  BY <1>0, <1>13, CloseFacts DEF Referenced, Placed, HostsPlaced, HeldDialed, EntriesDialed, Drops, Closes, ConnKept
<1>14. ASSUME NEW r \in RawDialers, RawBegin(r) PROVE OpenIsOwned'
  BY <1>0, <1>14, RawBeginFacts DEF Referenced, Placed, HostsPlaced, HeldDialed, EntriesDialed
<1>15. ASSUME NEW r \in RawDialers, NEW h \in RawHosts, RawEnd(r, h) PROVE OpenIsOwned'
  BY <1>0, <1>15, RawEndFacts DEF Referenced, Placed, HostsPlaced, HeldDialed, EntriesDialed
<1>16. ASSUME NEW h \in PoolHosts, NEW fp \in Fingerprints, TrustHostKey(h, fp) PROVE OpenIsOwned'
  <2>1. UNCHANGED <<entries, conn, pc, call, lost>>
    BY <1>16, TrustFacts
  <2> QED BY <2>1 DEF Referenced
<1>17. ASSUME NEW h \in PoolHosts, RotateKey(h) PROVE OpenIsOwned'
  BY <1>0, <1>17, RotateKeyFacts DEF Referenced, Placed, HostsPlaced, HeldDialed, EntriesDialed
<1>18. ASSUME NEW c \in Conns, Break(c) PROVE OpenIsOwned'
  BY <1>0, <1>18, BreakFacts DEF Referenced, Placed, HostsPlaced, HeldDialed, EntriesDialed, ConnKept
<1>19. ASSUME NEW h \in PoolHosts, Rekey(h) PROVE OpenIsOwned'
  BY <1>0, <1>19, RekeyFacts DEF Referenced, Placed, HostsPlaced, HeldDialed, EntriesDialed, ConnKept
<1> QED BY <1>1, <1>2, <1>3, <1>4, <1>5, <1>6, <1>7, <1>8, <1>9, <1>10, <1>11, <1>12,
           <1>13, <1>14, <1>15, <1>16, <1>17, <1>18, <1>19 DEF Next, BorrowerStep

LEMMA NamedStep == ASSUME Shapes, Placed, FingerprintsNamed, Next PROVE FingerprintsNamed'
<1>0. /\ \A c \in Conns : ent[c].key \in Nat /\ conn[c].key \in Nat
      /\ \A p \in Borrowers : call[p].key \in Nat
      /\ \A h \in PoolHosts : keys[h] \in Nat /\ entries[h] \in Conns \cup {NoOne}
      /\ opened \in Nat /\ NoOne \notin Conns /\ 1..opened \subseteq Conns
      /\ Conns \subseteq Nat
  BY PoolAssumption DEF Shapes, Conns
<1> USE DEF FingerprintsNamed, Holding, Looking, Moves
<1>1. ASSUME NEW p \in Borrowers, NEW h \in PoolHosts, Begin(p, h) PROVE FingerprintsNamed'
  BY <1>0, <1>1, BeginFacts DEF OfHost, Placed, HostsPlaced
<1>2. ASSUME NEW p \in Borrowers, Lookup(p) PROVE FingerprintsNamed'
  BY <1>0, <1>2, LookupFacts DEF OfHost, Placed, HostsPlaced
<1>3. ASSUME NEW p \in Borrowers, Check(p) PROVE FingerprintsNamed'
  BY <1>0, <1>3, CheckFacts DEF OfHost, Placed, HostsPlaced
<1>4. ASSUME NEW p \in Borrowers, Mark(p) PROVE FingerprintsNamed'
  BY <1>0, <1>4, MarkFacts DEF OfHost, Placed, HostsPlaced
<1>5. ASSUME NEW p \in Borrowers, Evict(p) PROVE FingerprintsNamed'
  <2>1. UNCHANGED <<hostKey, known, pending, changes>>
    BY <1>5, EvictFacts
  <2> QED BY <2>1 DEF OfHost
<1>6. ASSUME NEW p \in Borrowers, DialBegin(p) PROVE FingerprintsNamed'
  BY <1>0, <1>6, DialBeginFacts DEF OfHost, Placed, HostsPlaced
<1>7. ASSUME NEW p \in Borrowers, DialSucceeds(p) PROVE FingerprintsNamed'
  BY <1>0, <1>7, DialSucceedsFacts DEF OfHost, Placed, HostsPlaced, KnownAfter, Hosts
<1>8. ASSUME NEW p \in Borrowers, DialFails(p) PROVE FingerprintsNamed'
  BY <1>0, <1>8, DialFailsFacts DEF OfHost, Placed, HostsPlaced, KnownAfter, Hosts
<1>9. ASSUME NEW p \in Borrowers, Put(p) PROVE FingerprintsNamed'
  BY <1>0, <1>9, PutFacts DEF OfHost, Placed, HostsPlaced
<1>10. ASSUME NEW p \in Borrowers, Release(p) PROVE FingerprintsNamed'
  BY <1>0, <1>10, ReleaseFacts DEF OfHost, Placed, HostsPlaced
<1>11. ASSUME NEW c \in Conns, Expire(c) PROVE FingerprintsNamed'
  BY <1>0, <1>11, ExpireFacts DEF OfHost, Placed, HostsPlaced
<1>12. CASE SweepOnce
  BY <1>0, <1>12, SweepOnceFacts DEF OfHost, Placed, HostsPlaced, Drops
<1>13. CASE Close
  BY <1>0, <1>13, CloseFacts DEF OfHost, Placed, HostsPlaced, Drops
<1>14. ASSUME NEW r \in RawDialers, RawBegin(r) PROVE FingerprintsNamed'
  BY <1>0, <1>14, RawBeginFacts DEF OfHost, Placed, HostsPlaced
<1>15. ASSUME NEW r \in RawDialers, NEW h \in RawHosts, RawEnd(r, h) PROVE FingerprintsNamed'
  BY <1>0, <1>15, RawEndFacts DEF OfHost, Placed, HostsPlaced
<1>16. ASSUME NEW h \in PoolHosts, NEW fp \in Fingerprints, TrustHostKey(h, fp) PROVE FingerprintsNamed'
  BY <1>0, <1>16, TrustFacts DEF OfHost, Placed, HostsPlaced, Hosts
<1>17. ASSUME NEW h \in PoolHosts, RotateKey(h) PROVE FingerprintsNamed'
  BY <1>0, <1>17, RotateKeyFacts DEF OfHost, Placed, HostsPlaced, Shapes
<1>18. ASSUME NEW c \in Conns, Break(c) PROVE FingerprintsNamed'
  BY <1>0, <1>18, BreakFacts DEF OfHost, Placed, HostsPlaced, Shapes
<1>19. ASSUME NEW h \in PoolHosts, Rekey(h) PROVE FingerprintsNamed'
  <2>1. /\ hostKey'[h] = <<h, hostKey[h][2] + 1>> /\ UNCHANGED <<known, pending>>
        /\ \A i \in Hosts : i # h => hostKey'[i] = hostKey[i]
        /\ changes' = changes + 1 /\ changes' \in 0..MaxChanges /\ changes \in Nat /\ h \in Hosts
    BY <1>19, RekeyFacts DEF Shapes, Hosts
  <2>2. hostKey[h][2] \in 0..changes
    BY <2>1
  <2>3. hostKey'[h][2] \in 0..changes' /\ hostKey'[h][2] \in 0..MaxChanges /\ hostKey'[h][1] = h
    BY <2>1, <2>2, PoolAssumption
  <2>4. OfHost(hostKey'[h], h)
    BY <2>1, <2>3 DEF OfHost, Fingerprints
  <2>5. \A i \in Hosts : OfHost(hostKey'[i], i) /\ hostKey'[i][2] \in 0..changes'
    BY <2>1, <2>3, <2>4
  <2> QED BY <2>1, <2>5
<1> QED BY <1>1, <1>2, <1>3, <1>4, <1>5, <1>6, <1>7, <1>8, <1>9, <1>10, <1>11, <1>12,
           <1>13, <1>14, <1>15, <1>16, <1>17, <1>18, <1>19 DEF Next, BorrowerStep

LEMMA ReachedStep == ASSUME Shapes, Placed, FingerprintsNamed, Reached, Next PROVE Reached'
<1>0. /\ \A c \in Conns : ent[c].key \in Nat /\ conn[c].key \in Nat
      /\ \A p \in Borrowers : call[p].key \in Nat
      /\ \A h \in PoolHosts : keys[h] \in Nat /\ entries[h] \in Conns \cup {NoOne}
      /\ opened \in Nat /\ NoOne \notin Conns /\ 1..opened \subseteq Conns
      /\ Conns \subseteq Nat
  BY PoolAssumption DEF Shapes, Conns
<1> USE DEF Reached, Holding, Looking, Moves
<1>1. ASSUME NEW p \in Borrowers, NEW h \in PoolHosts, Begin(p, h) PROVE Reached'
  BY <1>0, <1>1, BeginFacts DEF FingerprintsNamed, OfHost, Placed, HostsPlaced, HeldDialed, EntriesDialed, RestUnused, Hosts
<1>2. ASSUME NEW p \in Borrowers, Lookup(p) PROVE Reached'
  BY <1>0, <1>2, LookupFacts DEF FingerprintsNamed, OfHost, Placed, HostsPlaced, HeldDialed, EntriesDialed, RestUnused, Hosts, SameCall
<1>3. ASSUME NEW p \in Borrowers, Check(p) PROVE Reached'
  BY <1>0, <1>3, CheckFacts DEF FingerprintsNamed, OfHost, Placed, HostsPlaced, HeldDialed, EntriesDialed, RestUnused, Hosts
<1>4. ASSUME NEW p \in Borrowers, Mark(p) PROVE Reached'
  BY <1>0, <1>4, MarkFacts DEF FingerprintsNamed, OfHost, Placed, HostsPlaced, HeldDialed, EntriesDialed, RestUnused, Hosts, EntKept
<1>5. ASSUME NEW p \in Borrowers, Evict(p) PROVE Reached'
  BY <1>0, <1>5, EvictFacts DEF FingerprintsNamed, OfHost, Placed, HostsPlaced, HeldDialed, EntriesDialed, RestUnused, Hosts, SameCall, Closes, ConnKept
<1>6. ASSUME NEW p \in Borrowers, DialBegin(p) PROVE Reached'
  BY <1>0, <1>6, DialBeginFacts DEF FingerprintsNamed, OfHost, Placed, HostsPlaced, HeldDialed, EntriesDialed, RestUnused, Hosts, SameCall
<1>7. ASSUME NEW p \in Borrowers, DialSucceeds(p) PROVE Reached'
  <2>1. \A c \in Conns : conn'[c].alive =>
           /\ conn'[c].open /\ conn'[c].fp[1] \in PoolHosts
           /\ conn'[c].fp = hostKey'[conn'[c].fp[1]]
           /\ ent'[c].fp # NoOne /\ ent'[c].fp[1] = conn'[c].fp[1] => ent'[c].fp = conn'[c].fp
    BY <1>0, <1>7, DialSucceedsFacts DEF FingerprintsNamed, OfHost, Placed, HostsPlaced, HeldDialed, EntriesDialed, RestUnused, Hosts, SameCall
  <2>2. \A h \in PoolHosts : entries'[h] # NoOne => conn'[entries'[h]].fp[1] = h
    BY <1>0, <1>7, DialSucceedsFacts DEF FingerprintsNamed, OfHost, Placed, HostsPlaced, HeldDialed, EntriesDialed, RestUnused, Hosts, SameCall
  <2>3. \A q \in Borrowers : pc'[q] \in Holding => conn'[call'[q].c].fp[1] = call'[q].host
    BY <1>0, <1>7, DialSucceedsFacts DEF FingerprintsNamed, OfHost, Placed, HostsPlaced, HeldDialed, EntriesDialed, RestUnused, Hosts, SameCall
  <2>4. \A q \in Borrowers : pc'[q] = "put" /\ conn'[call'[q].c].alive =>
           (captured'[q][1] = call'[q].host => captured'[q] = conn'[call'[q].c].fp)
    BY <1>0, <1>7, DialSucceedsFacts DEF FingerprintsNamed, OfHost, Placed, HostsPlaced, HeldDialed, EntriesDialed, RestUnused, Hosts, SameCall
  <2> QED BY <2>1, <2>2, <2>3, <2>4
<1>8. ASSUME NEW p \in Borrowers, DialFails(p) PROVE Reached'
  BY <1>0, <1>8, DialFailsFacts DEF FingerprintsNamed, OfHost, Placed, HostsPlaced, HeldDialed, EntriesDialed, RestUnused, Hosts
<1>9. ASSUME NEW p \in Borrowers, Put(p) PROVE Reached'
  <2>1. \A c \in Conns : conn'[c].alive =>
           /\ conn'[c].open /\ conn'[c].fp[1] \in PoolHosts
           /\ conn'[c].fp = hostKey'[conn'[c].fp[1]]
           /\ ent'[c].fp # NoOne /\ ent'[c].fp[1] = conn'[c].fp[1] => ent'[c].fp = conn'[c].fp
    BY <1>0, <1>9, PutFacts DEF FingerprintsNamed, OfHost, Placed, HostsPlaced, HeldDialed, EntriesDialed, RestUnused, Hosts
  <2>2. \A h \in PoolHosts : entries'[h] # NoOne => conn'[entries'[h]].fp[1] = h
    BY <1>0, <1>9, PutFacts DEF FingerprintsNamed, OfHost, Placed, HostsPlaced, HeldDialed, EntriesDialed, RestUnused, Hosts
  <2>3. \A q \in Borrowers : pc'[q] \in Holding => conn'[call'[q].c].fp[1] = call'[q].host
    BY <1>0, <1>9, PutFacts DEF FingerprintsNamed, OfHost, Placed, HostsPlaced, HeldDialed, EntriesDialed, RestUnused, Hosts
  <2>4. \A q \in Borrowers : pc'[q] = "put" /\ conn'[call'[q].c].alive =>
           (captured'[q][1] = call'[q].host => captured'[q] = conn'[call'[q].c].fp)
    BY <1>0, <1>9, PutFacts DEF FingerprintsNamed, OfHost, Placed, HostsPlaced, HeldDialed, EntriesDialed, RestUnused, Hosts
  <2> QED BY <2>1, <2>2, <2>3, <2>4
<1>10. ASSUME NEW p \in Borrowers, Release(p) PROVE Reached'
  BY <1>0, <1>10, ReleaseFacts DEF FingerprintsNamed, OfHost, Placed, HostsPlaced, HeldDialed, EntriesDialed, RestUnused, Hosts, EntKept, Closes, ConnKept
<1>11. ASSUME NEW c \in Conns, Expire(c) PROVE Reached'
  BY <1>0, <1>11, ExpireFacts DEF FingerprintsNamed, OfHost, Placed, HostsPlaced, HeldDialed, EntriesDialed, RestUnused, Hosts, EntKept
<1>12. CASE SweepOnce
  BY <1>0, <1>12, SweepOnceFacts DEF FingerprintsNamed, OfHost, Placed, HostsPlaced, HeldDialed, EntriesDialed, RestUnused, Hosts, Drops, Closes, ConnKept
<1>13. CASE Close
  BY <1>0, <1>13, CloseFacts DEF FingerprintsNamed, OfHost, Placed, HostsPlaced, HeldDialed, EntriesDialed, RestUnused, Hosts, Drops, Closes, ConnKept
<1>14. ASSUME NEW r \in RawDialers, RawBegin(r) PROVE Reached'
  BY <1>0, <1>14, RawBeginFacts DEF FingerprintsNamed, OfHost, Placed, HostsPlaced, HeldDialed, EntriesDialed, RestUnused, Hosts
<1>15. ASSUME NEW r \in RawDialers, NEW h \in RawHosts, RawEnd(r, h) PROVE Reached'
  BY <1>0, <1>15, RawEndFacts DEF FingerprintsNamed, OfHost, Placed, HostsPlaced, HeldDialed, EntriesDialed, RestUnused, Hosts
<1>16. ASSUME NEW h \in PoolHosts, NEW fp \in Fingerprints, TrustHostKey(h, fp) PROVE Reached'
  BY <1>0, <1>16, TrustFacts DEF FingerprintsNamed, OfHost, Placed, HostsPlaced, HeldDialed, EntriesDialed, RestUnused, Hosts
<1>17. ASSUME NEW h \in PoolHosts, RotateKey(h) PROVE Reached'
  BY <1>0, <1>17, RotateKeyFacts DEF FingerprintsNamed, OfHost, Placed, HostsPlaced, HeldDialed, EntriesDialed, RestUnused, Hosts
<1>18. ASSUME NEW c \in Conns, Break(c) PROVE Reached'
  BY <1>0, <1>18, BreakFacts DEF FingerprintsNamed, OfHost, Placed, HostsPlaced, HeldDialed, EntriesDialed, RestUnused, Hosts, ConnKept
<1>19. ASSUME NEW h \in PoolHosts, Rekey(h) PROVE Reached'
  BY <1>0, <1>19, RekeyFacts DEF FingerprintsNamed, OfHost, Placed, HostsPlaced, HeldDialed, EntriesDialed, RestUnused, Hosts, ConnKept
<1> QED BY <1>1, <1>2, <1>3, <1>4, <1>5, <1>6, <1>7, <1>8, <1>9, <1>10, <1>11, <1>12,
           <1>13, <1>14, <1>15, <1>16, <1>17, <1>18, <1>19 DEF Next, BorrowerStep

-----------------------------------------------------------------------------
(* The theorems *)

LEMMA InitInv == Init => IInv
<1> SUFFICES ASSUME Init PROVE IInv
  OBVIOUS
<1>1. /\ DOMAIN NewEntry = EntFields /\ NewEntry.key = 0 /\ NewEntry.fp = NoOne
      /\ DOMAIN NewConn = ConnFields /\ NewConn.key = 0 /\ ~NewConn.open /\ ~NewConn.alive
      /\ DOMAIN NoCall = CallFields /\ NoCall.key = 0
  BY DEF NewEntry, EntFields, NewConn, ConnFields, NoCall, CallFields
<1>2. /\ \A c \in Conns : ent[c] = NewEntry /\ conn[c] = NewConn
      /\ \A p \in Borrowers : pc[p] = "out" /\ call[p] = NoCall
      /\ \A h \in PoolHosts : entries[h] = NoOne /\ pending[h] = NoOne
      /\ \A h \in Hosts : hostKey[h] = <<h, 0>>
      /\ \A h \in Hosts : known[h] # NoOne => known[h].fp = <<h, 0>>
      /\ opened = 0 /\ changes = 0
  BY DEF Init, Hosts
<1>3. Shapes
  BY <1>1, PoolAssumption DEF Init, Shapes
<1>4. Placed
  BY <1>1, <1>2 DEF Placed, HostsPlaced, HeldDialed, EntriesDialed, RestUnused, Holding
<1>5. KeysOrdered
  BY <1>1, <1>2 DEF KeysOrdered, EntryKeys, LookingKeys, HeldKeys, Looking
<1>6. OpenIsOwned
  BY <1>1, <1>2 DEF OpenIsOwned
<1>7. \A h \in Hosts : OfHost(<<h, 0>>, h)
  BY PoolAssumption DEF OfHost, Fingerprints
<1>8. FingerprintsNamed
  <2>1. \A h \in Hosts : OfHost(hostKey[h], h) /\ hostKey[h][2] \in 0..changes
    BY <1>2, <1>7
  <2>2. \A h \in Hosts : known[h] # NoOne => OfHost(known[h].fp, h)
    BY <1>2, <1>7
  <2>3. \A h \in PoolHosts : pending[h] = NoOne
    BY <1>2
  <2> QED BY <2>1, <2>2, <2>3 DEF FingerprintsNamed
<1>9. Reached
  BY <1>1, <1>2 DEF Reached, Holding
<1> QED BY <1>3, <1>4, <1>5, <1>6, <1>8, <1>9 DEF IInv

LEMMA StepInv == IInv /\ [Next]_vars => IInv'
<1> SUFFICES ASSUME IInv, [Next]_vars PROVE IInv'
  OBVIOUS
<1>1. CASE Next
  BY <1>1, ShapesStep, PlacedStep, KeysStep, OwnedStep, NamedStep, ReachedStep DEF IInv
<1>2. CASE UNCHANGED vars
  <2>1. Shapes' /\ Placed' /\ KeysOrdered'
    BY <1>2 DEF vars, IInv, Shapes, Placed, HostsPlaced, HeldDialed, EntriesDialed, RestUnused,
           KeysOrdered, EntryKeys, LookingKeys, HeldKeys
  <2>2. OpenIsOwned' /\ FingerprintsNamed' /\ Reached'
    BY <1>2 DEF vars, IInv, OpenIsOwned, Referenced, FingerprintsNamed, Reached
  <2> QED BY <2>1, <2>2 DEF IInv
<1> QED BY <1>1, <1>2

LEMMA Inductive == Spec => []IInv
BY InitInv, StepInv, PTL DEF Spec

\* No connection of the pool leaks: whatever borrowers, sweeper and shutdown do to the
\* entries, an open one can still be reached by somebody who will close it, but for
\* the idle ones a concurrent dial overwrote (Connect).
THEOREM OpenIsOwnedThm == Spec => []OpenIsOwned
BY Inductive, PTL DEF IInv

\* A borrower never works over a connection that was authenticated with a key older
\* than the one its Connect resolved (entryUsable, check 2), though the key may be
\* replaced before, during and after the dial.
THEOREM KeyFreshThm == Spec => []KeyFresh
<1>1. ASSUME IInv PROVE KeyFresh
  <2>1. SUFFICES ASSUME NEW p \in Borrowers, pc[p] = "hold"
                 PROVE  conn[call[p].c].key >= call[p].key
    BY DEF KeyFresh
  <2>2. call[p].key <= conn[call[p].c].key
    BY <1>1, <2>1 DEF IInv, KeysOrdered, HeldKeys
  <2>3. call[p].c \in Conns
    BY <1>1, <2>1, PoolAssumption DEF IInv, Placed, HeldDialed, Holding, Shapes, Conns
  <2>4. call[p].key \in Nat /\ conn[call[p].c].key \in Nat
    BY <1>1, <2>3 DEF IInv, Shapes
  <2> QED BY <2>2, <2>4
<1> QED BY <1>1, Inductive, PTL

\* Only the Check of a borrower takes it to the reuse of a connection.
LEMMA OnlyCheckMarks ==
    ASSUME IInv, Next, NEW p \in Borrowers, pc[p] = "check", pc'[p] = "mark"
    PROVE  Check(p)
<1>0. Shapes /\ Placed
  BY DEF IInv
<1>1. ASSUME NEW q \in Borrowers, Moves(q), pc'[q] # "mark" PROVE FALSE
  BY <1>1 DEF Moves
<1>2. ASSUME NEW q \in Borrowers, BorrowerStep(q) PROVE Check(p)
  <2>1. CASE Check(q)
    BY <1>0, <2>1, CheckFacts DEF Moves
  <2>2. CASE Lookup(q)
    BY <1>0, <1>1, <2>2, LookupFacts
  <2>3. CASE Mark(q)
    BY <1>0, <1>1, <2>3, MarkFacts
  <2>4. CASE Evict(q)
    BY <1>0, <1>1, <2>4, EvictFacts
  <2>5. CASE DialBegin(q)
    BY <1>0, <1>1, <2>5, DialBeginFacts
  <2>6. CASE DialSucceeds(q)
    BY <1>0, <1>1, <2>6, DialSucceedsFacts
  <2>7. CASE DialFails(q)
    BY <1>0, <1>1, <2>7, DialFailsFacts
  <2>8. CASE Put(q)
    BY <1>0, <1>1, <2>8, PutFacts
  <2> QED BY <1>2, <2>1, <2>2, <2>3, <2>4, <2>5, <2>6, <2>7, <2>8 DEF BorrowerStep
<1>3. ASSUME NEW q \in Borrowers, Release(q) \/ \E h \in PoolHosts : Begin(q, h) PROVE FALSE
  BY <1>0, <1>1, <1>3, ReleaseFacts, BeginFacts
<1>4. ASSUME UNCHANGED pc PROVE FALSE
  BY <1>4
<1>5. ASSUME NEW r \in RawDialers, RawBegin(r) \/ \E h \in RawHosts : RawEnd(r, h) PROVE UNCHANGED pc
  BY <1>5 DEF RawBegin, RawEnd
<1>6. ASSUME NEW c \in Conns, Expire(c) \/ Break(c) PROVE UNCHANGED pc
  BY <1>6 DEF Expire, Break
<1>7. ASSUME SweepOnce \/ Close PROVE UNCHANGED pc
  BY <1>7 DEF SweepOnce, Close
<1>8. ASSUME NEW h \in PoolHosts, RotateKey(h) \/ Rekey(h) \/ \E fp \in Fingerprints : TrustHostKey(h, fp)
      PROVE  UNCHANGED pc
  BY <1>8 DEF RotateKey, Rekey, TrustHostKey
<1> QED BY <1>2, <1>3, <1>4, <1>5, <1>6, <1>7, <1>8 DEF Next

\* The pool hands an old connection out again only if the node at its other end is the
\* one whose key is on record (entryUsable, check 3): a dial of the takeover that
\* overwrites the captured fingerprint makes the pool dial anew, and never lets a
\* connection to another node, or to the node before it was installed again, pass.
THEOREM ReuseMatchesKnownHostThm == Spec => ReuseMatchesKnownHost
<1> DEFINE Good == \A p \in Borrowers : pc[p] = "check" /\ pc'[p] = "mark" =>
                      (known[call[p].host] # NoOne => conn[call[p].c].fp = known[call[p].host].fp)
<1>1. IInv /\ [Next]_vars => [Good]_vars
  <2> SUFFICES ASSUME IInv, Next, NEW p \in Borrowers, pc[p] = "check", pc'[p] = "mark",
                      known[call[p].host] # NoOne
               PROVE  conn[call[p].c].fp = known[call[p].host].fp
    OBVIOUS
  <2>1. Check(p)
    BY OnlyCheckMarks
  <2>2. /\ conn[call[p].c].alive /\ known[call[p].host].fp = ent[call[p].c].fp
    BY <2>1, CheckFacts DEF IInv, Usable
  <2>3. call[p].c \in Conns /\ call[p].host \in PoolHosts /\ conn[call[p].c].fp[1] = call[p].host
    BY PoolAssumption DEF IInv, Placed, HostsPlaced, HeldDialed, Holding, Reached, Shapes, Conns
  <2>4. OfHost(known[call[p].host].fp, call[p].host)
    BY <2>3 DEF IInv, FingerprintsNamed, Hosts
  <2>5. ent[call[p].c].fp # NoOne /\ ent[call[p].c].fp[1] = conn[call[p].c].fp[1]
    BY <2>2, <2>3, <2>4, PoolAssumption DEF OfHost
  <2> QED BY <2>2, <2>3, <2>5 DEF IInv, Reached
<1> QED BY <1>1, Inductive, PTL DEF Spec, ReuseMatchesKnownHost
=============================================================================
