------------------------------ MODULE SSHPool ------------------------------
(***************************************************************************)
(* The pool of SSH connections the panel shares between its deploys        *)
(* (internal/ssh/pool.go), with what it stands on: the dial of             *)
(* internal/ssh/client.go, the known hosts of the store, which decide      *)
(* whether a host key is accepted, and the page on which the operator      *)
(* trusts a key that was observed.                                         *)
(*                                                                         *)
(* A borrower is a goroutine that calls Pool.Connect and later Close on    *)
(* what it got; the takeover handlers dial past the pool (raw dialers).    *)
(* A step is what runs between two moments at which another goroutine can  *)
(* get in: the sections under Pool.mu, a ping, a dial.  Closing a          *)
(* connection that was just taken out of the map is part of the step that  *)
(* took it out.                                                            *)
(***************************************************************************)
EXTENDS Naturals

CONSTANTS
    Borrowers,      \* goroutines that use the pool
    RawDialers,     \* goroutines that dial past it (takeover)
    PoolHosts,      \* nodes that the borrowers connect to
    RawHosts,       \* nodes that the raw dialers connect to
    MaxDials,       \* bound: connections opened by the pool
    MaxChanges,     \* bound: keys replaced, connections broken, nodes reinstalled
    NoOne           \* model value: nobody, nothing, unknown

Hosts == PoolHosts \cup RawHosts
Conns == 1..MaxDials
KeyVersions == 0..MaxChanges
\* Host keys of different nodes differ, and so do those of one node before
\* and after it was installed again.
Fingerprints == Hosts \X (0..MaxChanges)

ASSUME PoolAssumption ==
    /\ MaxDials \in Nat /\ MaxChanges \in Nat
    /\ NoOne \notin Conns \cup Borrowers \cup Fingerprints
    /\ RawDialers \cap Borrowers = {}

VARIABLES
    entries,    \* Pool.entries: host -> connection, or NoOne
    ent,        \* connection -> its poolEntry (what was recorded of the dial)
    conn,       \* connection -> what it really is, at the other end
    opened,     \* connections dialed so far
    pc,         \* borrower -> where it is in Connect or Close
    call,       \* borrower -> the arguments and locals of its call
    captured,   \* borrower -> observedFp, the target of fpOut
    dialMu,     \* holder of dialCaptureMu, or NoOne
    mgr,        \* globalManager: NoOne for the store, or the borrower it records for
    raw,        \* raw dialer -> the borrower for whom the manager it read records
    known,      \* Store.KnownHosts: host -> record, or NoOne
    pending,    \* NodeInfo.PendingHostKeyFingerprint
    keys,       \* host -> version of the private key under its key ID
    hostKey,    \* host -> the fingerprint it presents now
    lost,       \* history: idle connections whose entry was overwritten
    closed,     \* Pool.Close has run
    changes     \* changes of the surroundings so far (bounded by MaxChanges)

vars == << entries, ent, conn, opened, pc, call, captured, dialMu, mgr, raw,
           known, pending, keys, hostKey, lost, closed, changes >>

NoCall == [host |-> NoOne, key |-> 0, c |-> NoOne, prev |-> NoOne]
NewEntry == [fp |-> NoOne, key |-> 0, inUse |-> FALSE, stale |-> FALSE]
NewConn == [fp |-> NoOne, key |-> 0, open |-> FALSE, alive |-> FALSE]

Init ==
    /\ entries = [h \in PoolHosts |-> NoOne]
    /\ ent = [c \in Conns |-> NewEntry]
    /\ conn = [c \in Conns |-> NewConn]
    /\ opened = 0
    /\ pc = [p \in Borrowers |-> "out"]
    /\ call = [p \in Borrowers |-> NoCall]
    /\ captured = [p \in Borrowers |-> NoOne]
    /\ dialMu = NoOne
    /\ mgr = NoOne
    /\ raw = [r \in RawDialers |-> NoOne]
    /\ known = [h \in Hosts |-> IF h \in PoolHosts THEN NoOne ELSE [fp |-> <<h, 0>>, trusted |-> TRUE]]
    /\ pending = [h \in PoolHosts |-> NoOne]
    /\ keys = [h \in PoolHosts |-> 0]
    /\ hostKey = [h \in Hosts |-> <<h, 0>>]
    /\ lost = {}
    /\ closed = FALSE
    /\ changes = 0

----------------------------------------------------------------------------
\* The store's part of a dial.

\* CheckHostKey: an unknown key is stored as not trusted, and only a stored,
\* unchanged and trusted key is accepted.
Accepts(h) ==
    /\ known[h] # NoOne
    /\ known[h].fp = hostKey[h]
    /\ known[h].trusted

CheckHostKey(h) ==
    known' = IF known[h] = NoOne
             THEN [known EXCEPT ![h] = [fp |-> hostKey[h], trusted |-> FALSE]]
             ELSE known

\* The capturing manager records the key of whatever host the dial that read
\* the manager reaches, then asks the store.
Captures(m, h) ==
    captured' = [captured EXCEPT ![m] = hostKey[h]]

\* observedFp goes out of scope when p's Connect returns: a raw dial that still
\* has the capturing manager then writes where nobody reads.
Detach(p) == raw' = [r \in RawDialers |-> IF raw[r] = p THEN NoOne ELSE raw[r]]

----------------------------------------------------------------------------
\* Pool.Connect.

\* What the entry of a closed connection says is not read again.
CloseConns(S) ==
    /\ conn' = [c \in Conns |-> IF c \in S THEN [conn[c] EXCEPT !.open = FALSE, !.alive = FALSE] ELSE conn[c]]
    /\ ent' = [c \in Conns |-> IF c \in S THEN NewEntry ELSE ent[c]]

\* The key is resolved before the pool is looked at.  The panel takes no more
\* requests by the time it closes the pool; calls under way go on.
Begin(p, h) ==
    /\ pc[p] = "out" /\ ~closed
    /\ call' = [call EXCEPT ![p] = [NoCall EXCEPT !.host = h, !.key = keys[h]]]
    /\ pc' = [pc EXCEPT ![p] = "lookup"]
    /\ UNCHANGED << entries, ent, conn, opened, captured, dialMu, mgr, raw, known, pending, keys, hostKey, lost, closed, changes >>

Lookup(p) ==
    /\ pc[p] = "lookup"
    /\ LET c == entries[call[p].host] IN
       /\ call' = [call EXCEPT ![p].c = c]
       /\ pc' = [pc EXCEPT ![p] = IF c = NoOne THEN "dial" ELSE "check"]
    /\ UNCHANGED << entries, ent, conn, opened, captured, dialMu, mgr, raw, known, pending, keys, hostKey, lost, closed, changes >>

\* Mutants: a check of entryUsable is left out.
UsableAnyKey(c, h, key) ==
    /\ conn[c].open /\ conn[c].alive
    /\ (known[h] # NoOne => known[h].fp = ent[c].fp)

UsableAnyHost(c, h, key) ==
    /\ conn[c].open
    /\ key = ent[c].key

\* entryUsable: the ping, the key the entry was dialed with, and the stored
\* fingerprint.  inUse is not asked.
Usable(c, h, key) ==
    /\ conn[c].open /\ conn[c].alive
    /\ key = ent[c].key
    /\ (known[h] # NoOne => known[h].fp = ent[c].fp)

Check(p) ==
    /\ pc[p] = "check"
    /\ pc' = [pc EXCEPT ![p] = IF Usable(call[p].c, call[p].host, call[p].key) THEN "mark" ELSE "evict"]
    /\ UNCHANGED << entries, ent, conn, opened, call, captured, dialMu, mgr, raw, known, pending, keys, hostKey, lost, closed, changes >>

Mark(p) ==
    /\ pc[p] = "mark"
    /\ ent' = [ent EXCEPT ![call[p].c].inUse = TRUE, ![call[p].c].stale = FALSE]
    /\ pc' = [pc EXCEPT ![p] = "hold"]
    /\ UNCHANGED << entries, conn, opened, call, captured, dialMu, mgr, raw, known, pending, keys, hostKey, lost, closed, changes >>

Evict(p) ==
    /\ pc[p] = "evict"
    /\ LET h == call[p].host
           c == call[p].c IN
       /\ entries' = IF entries[h] = c THEN [entries EXCEPT ![h] = NoOne] ELSE entries
       /\ CloseConns({c})
    /\ call' = [call EXCEPT ![p].c = NoOne]
    /\ pc' = [pc EXCEPT ![p] = "dial"]
    /\ UNCHANGED << opened, captured, dialMu, mgr, raw, known, pending, keys, hostKey, lost, closed, changes >>

LockDial(p) == dialMu = NoOne /\ dialMu' = p

\* dialWithFingerprintCapture: one dial of the pool at a time, with a manager
\* installed that records the fingerprint.
DialBegin(p) ==
    /\ pc[p] = "dial"
    /\ LockDial(p)
    /\ call' = [call EXCEPT ![p].prev = mgr]
    /\ mgr' = p
    /\ pc' = [pc EXCEPT ![p] = "dialing"]
    /\ UNCHANGED << entries, ent, conn, opened, captured, raw, known, pending, keys, hostKey, lost, closed, changes >>

\* Mutant: the mutex is not released.
DialReturnLocked(p) == mgr' = call[p].prev /\ UNCHANGED dialMu

\* The dial resolves the key once more; it succeeds only with the node's
\* accepted host key.  The mutex and the manager go back in either case.
DialReturn(p) ==
    /\ mgr' = call[p].prev
    /\ dialMu' = IF dialMu = p THEN NoOne ELSE dialMu

DialSucceeds(p) ==
    LET h == call[p].host
        c == opened + 1 IN
    /\ pc[p] = "dialing" /\ c <= MaxDials
    /\ Accepts(h)
    /\ Captures(p, h) /\ CheckHostKey(h)
    /\ DialReturn(p)
    /\ opened' = c
    /\ conn' = [conn EXCEPT ![c] = [fp |-> hostKey[h], key |-> keys[h], open |-> TRUE, alive |-> TRUE]]
    /\ call' = [call EXCEPT ![p].c = c]
    /\ pc' = [pc EXCEPT ![p] = "put"]
    /\ UNCHANGED << entries, ent, raw, pending, keys, hostKey, lost, closed, changes >>

\* A dial that does not reach the node, is not let in, or meets a key that is
\* not accepted: the handler that captures a node keeps that fingerprint for
\* the operator.
DialFails(p) ==
    LET h == call[p].host IN
    /\ pc[p] = "dialing"
    /\ \/ /\ CheckHostKey(h)
          /\ \/ UNCHANGED pending
             \/ ~Accepts(h) /\ pending' = [pending EXCEPT ![h] = hostKey[h]]
       \/ UNCHANGED << known, pending >>
    /\ DialReturn(p) /\ Detach(p)
    /\ captured' = [captured EXCEPT ![p] = NoOne]
    /\ call' = [call EXCEPT ![p] = NoCall]
    /\ pc' = [pc EXCEPT ![p] = "out"]
    /\ UNCHANGED << entries, ent, conn, opened, keys, hostKey, lost, closed, changes >>

\* Some goroutine has c in a local and will hand it on, release it or evict it.
Referenced(c) ==
    \E p \in Borrowers : pc[p] \in {"check", "mark", "evict", "put", "hold"} /\ call[p].c = c

\* The new entry replaces whatever another borrower put there meanwhile.
Put(p) ==
    /\ pc[p] = "put"
    /\ LET h == call[p].host
           c == call[p].c
           old == entries[h] IN
       /\ ent' = [ent EXCEPT ![c] = [fp |-> captured[p], key |-> call[p].key, inUse |-> TRUE, stale |-> FALSE]]
       /\ entries' = [entries EXCEPT ![h] = c]
       /\ lost' = IF old # NoOne /\ ~Referenced(old) THEN lost \cup {old} ELSE lost
    /\ captured' = [captured EXCEPT ![p] = NoOne]
    /\ Detach(p)
    /\ pc' = [pc EXCEPT ![p] = "hold"]
    /\ UNCHANGED << conn, opened, call, dialMu, mgr, known, pending, keys, hostKey, closed, changes >>

\* Mutants: the flag stays, the orphan stays open.
GiveBackInUse(c) == UNCHANGED << ent, conn >>
KeepOrphan(c) == UNCHANGED << ent, conn >>

GiveBack(c) ==
    /\ ent' = [ent EXCEPT ![c].inUse = FALSE, ![c].stale = FALSE]
    /\ UNCHANGED conn

CloseOrphan(c) == CloseConns({c})

\* pooledClient.Close: back to the pool, or closed when the entry is another.
Release(p) ==
    /\ pc[p] = "hold"
    /\ IF entries[call[p].host] = call[p].c THEN GiveBack(call[p].c) ELSE CloseOrphan(call[p].c)
    /\ call' = [call EXCEPT ![p] = NoCall]
    /\ pc' = [pc EXCEPT ![p] = "out"]
    /\ UNCHANGED << entries, opened, captured, dialMu, mgr, raw, known, pending, keys, hostKey, lost, closed, changes >>

----------------------------------------------------------------------------
\* The sweeper, the clock and the shutdown.

\* idleTTL passes since lastUsed of an entry.
Expire(c) ==
    /\ ~closed /\ c \in {entries[h] : h \in PoolHosts}
    /\ ~ent[c].stale
    /\ ent' = [ent EXCEPT ![c].stale = TRUE]
    /\ UNCHANGED << entries, conn, opened, pc, call, captured, dialMu, mgr, raw, known, pending, keys, hostKey, lost, closed, changes >>

Swept == {h \in PoolHosts : entries[h] # NoOne /\ ~ent[entries[h]].inUse /\ ent[entries[h]].stale}

SweepOnce ==
    /\ ~closed
    /\ Swept # {}
    /\ CloseConns({entries[h] : h \in Swept})
    /\ entries' = [h \in PoolHosts |-> IF h \in Swept THEN NoOne ELSE entries[h]]
    /\ UNCHANGED << opened, pc, call, captured, dialMu, mgr, raw, known, pending, keys, hostKey, lost, closed, changes >>

Close ==
    /\ ~closed
    /\ closed' = TRUE
    /\ CloseConns({entries[h] : h \in PoolHosts} \ {NoOne})
    /\ entries' = [h \in PoolHosts |-> NoOne]
    /\ UNCHANGED << opened, pc, call, captured, dialMu, mgr, raw, known, pending, keys, hostKey, lost, changes >>

----------------------------------------------------------------------------
\* Raw dialers, the operator and the nodes.

Change == changes < MaxChanges /\ changes' = changes + 1

\* A raw dial to a node that is known and trusted.  One that starts while the
\* store's own manager is installed has no effect on the pool.
RawBegin(r) ==
    /\ raw[r] = NoOne /\ mgr # NoOne
    /\ raw' = [raw EXCEPT ![r] = mgr]
    /\ UNCHANGED << entries, ent, conn, opened, pc, call, captured, dialMu, mgr, known, pending, keys, hostKey, lost, closed, changes >>

\* The manager that was installed when the dial began is asked, however late.
RawEnd(r, h) ==
    /\ raw[r] # NoOne
    /\ Accepts(h)
    /\ Captures(raw[r], h)
    /\ raw' = [raw EXCEPT ![r] = NoOne]
    /\ UNCHANGED << entries, ent, conn, opened, pc, call, dialMu, mgr, known, pending, keys, hostKey, lost, closed, changes >>

TrustAllowed(h, fp) == pending[h] # NoOne /\ fp = pending[h]

\* handleTrustHostKey: only the fingerprint that is on record as pending.
TrustHostKey(h, fp) ==
    /\ TrustAllowed(h, fp)
    /\ known' = [known EXCEPT ![h] = [fp |-> fp, trusted |-> TRUE]]
    /\ pending' = [pending EXCEPT ![h] = NoOne]
    /\ UNCHANGED << entries, ent, conn, opened, pc, call, captured, dialMu, mgr, raw, keys, hostKey, lost, closed, changes >>

RotateKey(h) ==
    /\ Change
    /\ keys' = [keys EXCEPT ![h] = @ + 1]
    /\ UNCHANGED << entries, ent, conn, opened, pc, call, captured, dialMu, mgr, raw, known, pending, hostKey, lost, closed >>

\* A connection breaks at the other end: a restarted sshd, a NAT timeout.
Break(c) ==
    /\ Change
    /\ conn[c].alive
    /\ conn' = [conn EXCEPT ![c].alive = FALSE]
    /\ UNCHANGED << entries, ent, opened, pc, call, captured, dialMu, mgr, raw, known, pending, keys, hostKey, lost, closed >>

\* A node is installed again: its connections break and its key is new.
Rekey(h) ==
    /\ Change
    /\ hostKey' = [hostKey EXCEPT ![h] = <<h, @[2] + 1>>]
    /\ conn' = [c \in Conns |-> IF conn[c].fp = hostKey[h] THEN [conn[c] EXCEPT !.alive = FALSE] ELSE conn[c]]
    /\ UNCHANGED << entries, ent, opened, pc, call, captured, dialMu, mgr, raw, known, pending, keys, lost, closed >>

BorrowerStep(p) ==
    \/ Lookup(p) \/ Check(p) \/ Mark(p) \/ Evict(p)
    \/ DialBegin(p) \/ DialSucceeds(p) \/ DialFails(p) \/ Put(p)

Next ==
    \/ \E p \in Borrowers : BorrowerStep(p) \/ Release(p) \/ \E h \in PoolHosts : Begin(p, h)
    \/ \E r \in RawDialers : RawBegin(r) \/ \E h \in RawHosts : RawEnd(r, h)
    \/ \E c \in Conns : Expire(c) \/ Break(c)
    \/ SweepOnce \/ Close
    \/ \E h \in PoolHosts : RotateKey(h) \/ Rekey(h) \/ \E fp \in Fingerprints : TrustHostKey(h, fp)

Spec == Init /\ [][Next]_vars

\* Goroutines run on, dials end (the dial has a timeout), borrowers close what
\* they got, a waiter of a Go mutex gets it in the end, and the clock and the
\* sweeper's ticker go on.
Fairness ==
    /\ \A p \in Borrowers : WF_vars(BorrowerStep(p)) /\ SF_vars(DialBegin(p)) /\ WF_vars(Release(p))
    /\ \A c \in Conns : WF_vars(Expire(c))
    /\ WF_vars(SweepOnce)

FairSpec == Spec /\ Fairness

----------------------------------------------------------------------------
\* Properties.

Calls == [host : PoolHosts \cup {NoOne}, key : KeyVersions, c : Conns \cup {NoOne}, prev : Borrowers \cup {NoOne}]
Knowns == [fp : Fingerprints, trusted : BOOLEAN] \cup {NoOne}

\* The types of the pool, of the goroutines' locals and of the known hosts
\* (pool.go, poolEntry and Pool).
TypeOK ==
    /\ entries \in [PoolHosts -> Conns \cup {NoOne}]
    /\ ent \in [Conns -> [fp : Fingerprints \cup {NoOne}, key : KeyVersions, inUse : BOOLEAN, stale : BOOLEAN]]
    /\ conn \in [Conns -> [fp : Fingerprints \cup {NoOne}, key : KeyVersions, open : BOOLEAN, alive : BOOLEAN]]
    /\ opened \in 0..MaxDials
    /\ pc \in [Borrowers -> {"out", "lookup", "check", "mark", "evict", "dial", "dialing", "put", "hold"}]
    /\ call \in [Borrowers -> Calls]
    /\ captured \in [Borrowers -> Fingerprints \cup {NoOne}]
    /\ dialMu \in Borrowers \cup {NoOne}
    /\ mgr \in Borrowers \cup {NoOne}
    /\ raw \in [RawDialers -> Borrowers \cup {NoOne}]
    /\ known \in [Hosts -> Knowns]
    /\ pending \in [PoolHosts -> Fingerprints \cup {NoOne}]
    /\ keys \in [PoolHosts -> KeyVersions]
    /\ hostKey \in [Hosts -> Fingerprints]
    /\ lost \subseteq Conns
    /\ closed \in BOOLEAN
    /\ changes \in 0..MaxChanges

\* Every open connection is in the pool or in the hands of a goroutine that
\* will release or evict it; the one exception is an idle entry that a
\* concurrent dial to the same node overwrote (Connect).
OpenIsOwned ==
    \A c \in Conns : conn[c].open =>
        \/ c \in {entries[h] : h \in PoolHosts}
        \/ Referenced(c)
        \/ c \in lost

\* A borrower never works over a connection that was authenticated with a key
\* older than the one its Connect resolved, whenever the key was replaced
\* (entryUsable, check 2).
KeyFresh ==
    \A p \in Borrowers : pc[p] = "hold" => conn[call[p].c].key >= call[p].key

\* The pool reuses a connection only if the node at its other end is the one
\* whose key is on record at that moment, also when another dial overwrote
\* the captured fingerprint (entryUsable, check 3).
ReuseMatchesKnownHost ==
    [][\A p \in Borrowers : pc[p] = "check" /\ pc'[p] = "mark" =>
          (known[call[p].host] # NoOne => conn[call[p].c].fp = known[call[p].host].fp)]_vars

\* Every Connect returns, with a connection or an error.
ConnectEnds ==
    \A p \in Borrowers : pc[p] \notin {"out", "hold"} ~> pc[p] \in {"out", "hold"}

\* A connection that stays in the pool without a borrower is closed in the
\* end, unless the pool is shut down first.
IdleIsSwept ==
    \A c \in Conns : (\E h \in PoolHosts : entries[h] = c) ~>
        (~conn[c].open \/ Referenced(c) \/ c \in lost \/ closed)

=============================================================================
