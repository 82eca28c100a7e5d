----------------------------- MODULE NodeHealth -----------------------------
(***************************************************************************)
(* The health of the fleet: the metrics loop (collectAllMetrics in         *)
(* internal/web/server.go) with the state machine it drives (NextState in  *)
(* internal/chain/nodehealth.go) and the traffic fold it ends a visit with *)
(* (awgtraffic.go), the operator's Check (handleHostStatus in misc.go),    *)
(* and the handlers that reset a record: block, unblock and capture        *)
(* (nodes.go).                                                             *)
(*                                                                         *)
(* Each of them reads the metrics record, changes the copy and saves it:   *)
(* two Store calls with a gap in between. up[n] is the truth a probe       *)
(* observes: "ok", "ssh" (dial fails) or "svc" (sing-box inactive); a      *)
(* relocation that the loop starts shows as a change of up[n]. Counters    *)
(* saturate at CounterBound (1000 in the code, where some paths return     *)
(* before the cap): they are only ever compared with the thresholds.       *)
(***************************************************************************)
EXTENDS Naturals

CONSTANTS
    Node,
    Loop,              \* the goroutine of the metrics loop
    Checker,           \* Check requests at one time (bound)
    Handler,           \* block, unblock and capture requests at one time (bound)
    DownThreshold,
    RecoverThreshold,
    CounterBound,
    MaxOps,            \* bound on operator requests
    NoMetrics

ASSUME ThresholdAssumption ==
    /\ DownThreshold \in Nat \ {0}
    /\ RecoverThreshold \in Nat \ {0}
    /\ CounterBound \in Nat
    /\ DownThreshold <= CounterBound
    /\ RecoverThreshold <= CounterBound
    /\ MaxOps \in Nat

Prober == Checker \cup {Loop}

Incident == {"down", "unreachable"}

\* "" is the State of a record saved by a capture, or by an old release.
State   == {"", "unknown", "healthy", "suspect", "blocked"} \cup Incident
Probe   == {"ok", "ssh", "svc"}
Iface   == {"awg0", "awg1"}
Count   == 0 .. CounterBound
Metrics == [state : State, fails : Count, oks : Count]

ASSUME NoMetricsAssumption == NoMetrics \notin Metrics \cup Node \cup Probe \cup Iface

VARIABLES
    up,       \* what a probe of each node would find
    metrics,  \* the stored records
    todo,     \* nodes the current tick has still to visit
    visit,    \* of each prober: the node, what is being done and the copy
    handler,  \* the requests that reset a record
    ops,      \* operator requests so far
    failed,   \* history: failed probes since the last good one (see Record)
    passed    \* history: good probes since the last failed one

vars == <<up, metrics, todo, visit, handler, ops, failed, passed>>

Idle     == [node |-> NoMetrics, doing |-> NoMetrics, copy |-> NoMetrics]
NoAction == [node |-> NoMetrics, to |-> ""]

\* A visit has a probe to record, or counters of an interface to fold.
ProbeVisit == [node : Node, doing : Probe, copy : Metrics]
FoldVisit  == [node : Node, doing : Iface, copy : Metrics \cup {NoMetrics}]
Visit      == ProbeVisit \cup FoldVisit \cup {Idle}

\* States a handler saves: block, unblock and capture.
To      == {"blocked", "unknown", ""}
Request == [node : Node, to : To] \cup {NoAction}

TypeOK ==
    /\ up \in [Node -> Probe]
    /\ metrics \in [Node -> Metrics \cup {NoMetrics}]
    /\ todo \subseteq Node
    /\ visit \in [Prober -> Visit]
    /\ handler \in [Handler -> Request]
    /\ ops \in 0 .. MaxOps
    /\ failed \in [Node -> Count]
    /\ passed \in [Node -> Count]

Fresh(s) == [state |-> s, fails |-> 0, oks |-> 0]

\* No record yet, or one of an old store.
Init ==
    /\ up \in [Node -> Probe]
    /\ metrics \in [Node -> {NoMetrics, Fresh("")}]
    /\ todo = {}
    /\ visit = [p \in Prober |-> Idle]
    /\ handler = [h \in Handler |-> NoAction]
    /\ ops = 0
    /\ failed = [n \in Node |-> 0]
    /\ passed = [n \in Node |-> 0]

\* The record, or the one a reader makes up when there is none.
GetMetrics(n) == IF metrics[n] = NoMetrics THEN Fresh("unknown") ELSE metrics[n]

Inc(c) == IF c < CounterBound THEN c + 1 ELSE c

-----------------------------------------------------------------------------
(* NextState *)

\* Defect variant: the threshold is compared before the counter moves.
FailedProbeEager(m, probe) ==
    LET bad == IF probe = "ssh" THEN "unreachable" ELSE "down"
        c   == [m EXCEPT !.fails = Inc(@), !.oks = 0]
    IN  IF c.fails + 1 < DownThreshold
        THEN [c EXCEPT !.state = IF @ \in {"", "healthy"} THEN "suspect" ELSE @]
        ELSE [c EXCEPT !.state = bad]

\* Defect variant: the counters of a suspect node are not moved.
FailedProbeStuck(m, probe) ==
    LET bad == IF probe = "ssh" THEN "unreachable" ELSE "down"
        c   == [m EXCEPT !.fails = Inc(@), !.oks = 0]
    IN  CASE m.state = "suspect" -> m
          [] m.state # "suspect" /\ c.fails < DownThreshold ->
                [c EXCEPT !.state = IF @ \in {"", "healthy"} THEN "suspect" ELSE @]
          [] OTHER -> [c EXCEPT !.state = bad]

\* An incident moves between its two kinds at once; the other states need
\* DownThreshold failures in a row, and only unknown does not turn suspect.
FailedProbe(m, probe) ==
    LET bad == IF probe = "ssh" THEN "unreachable" ELSE "down"
        c   == [m EXCEPT !.fails = Inc(@), !.oks = 0]
    IN  IF m.state \notin Incident /\ c.fails < DownThreshold
        THEN [c EXCEPT !.state = IF @ \in {"", "healthy"} THEN "suspect" ELSE @]
        ELSE [c EXCEPT !.state = bad]

\* Defect variant: a suspect node recovers with its first good probe.
GoodProbeEager(m) ==
    LET c == [m EXCEPT !.fails = 0, !.oks = Inc(@)]
    IN  IF m.state \in Incident /\ c.oks < RecoverThreshold
        THEN c
        ELSE [c EXCEPT !.state = "healthy"]

\* Defect variant: the good probes of a node in an incident are not counted.
GoodProbeUncounted(m) ==
    IF m.state \in Incident THEN m ELSE [m EXCEPT !.fails = 0, !.oks = Inc(@), !.state = "healthy"]

\* Suspect nodes and incidents need RecoverThreshold good probes in a row.
GoodProbe(m) ==
    LET c == [m EXCEPT !.fails = 0, !.oks = Inc(@)]
    IN  IF m.state \in Incident \cup {"suspect"} /\ c.oks < RecoverThreshold
        THEN c
        ELSE [c EXCEPT !.state = "healthy"]

\* Defect variant: the stored state may carry the probe's name.
NextStateRaw(m, probe) == [m EXCEPT !.state = probe]

\* A block is sticky: no probe changes the record.
NextState(m, probe) ==
    IF m.state = "blocked" THEN m
    ELSE IF probe = "ok" THEN GoodProbe(m) ELSE FailedProbe(m, probe)

-----------------------------------------------------------------------------
(* Probing: the loop, one goroutine, and the operator's Check *)

\* The ticker fires and ListHosts returns the fleet.
Tick ==
    /\ todo = {}
    /\ visit[Loop] = Idle
    /\ todo' = Node
    /\ UNCHANGED <<up, metrics, visit, handler, ops, failed, passed>>

\* GetStatus, ClassifyProbe and then GetMetrics.
StartVisit(p, n) ==
    /\ visit[p] = Idle
    /\ visit' = [visit EXCEPT ![p] = [node |-> n, doing |-> up[n], copy |-> GetMetrics(n)]]
    /\ UNCHANGED <<up, metrics, handler, failed, passed>>

ProbeNode(n) ==
    /\ n \in todo
    /\ todo' = todo \ {n}
    /\ StartVisit(Loop, n)
    /\ UNCHANGED ops

\* handleHostStatus
Check(c, n) ==
    /\ ops < MaxOps
    /\ ops' = ops + 1
    /\ StartVisit(c, n)
    /\ UNCHANGED todo

\* Somebody else holds a copy of the record, and may save it later.
Overlapped(p, n) ==
    \E q \in Prober \ {p} : visit[q].node = n /\ visit[q].copy # NoMetrics

\* NextState on the copy and SaveMetrics. The loop goes on with maintainAWGNode
\* when the node is healthy. Of the history, a probe starts a new row only when
\* no other visit of the node overlaps it: its save may otherwise be lost.
Record(p) ==
    /\ visit[p].doing \in Probe
    /\ LET n   == visit[p].node
           ok  == visit[p].doing = "ok"
           new == NextState(visit[p].copy, visit[p].doing)
           old(c) == IF Overlapped(p, n) THEN c ELSE 0
       IN  /\ metrics' = [metrics EXCEPT ![n] = new]
           /\ failed' = [failed EXCEPT ![n] = IF ok THEN old(@) ELSE Inc(@)]
           /\ passed' = [passed EXCEPT ![n] = IF ok THEN Inc(@) ELSE old(@)]
           /\ visit' = [visit EXCEPT ![p] =
                  IF p = Loop /\ new.state = "healthy"
                  THEN [node |-> n, doing |-> "awg0", copy |-> NoMetrics]
                  ELSE Idle]
    /\ UNCHANGED <<up, todo, handler, ops>>

-----------------------------------------------------------------------------
(* CollectAWGTrafficForNode: one interface after the other *)

NextFold(v) ==
    IF v.doing = "awg0" THEN [v EXCEPT !.doing = "awg1", !.copy = NoMetrics] ELSE Idle

\* No connection, or no counters of the interface.
SkipFold ==
    /\ visit[Loop].doing \in Iface
    /\ visit[Loop].copy = NoMetrics
    /\ visit' = [visit EXCEPT ![Loop] = NextFold(@)]
    /\ UNCHANGED <<up, metrics, todo, handler, ops, failed, passed>>

ReadFold ==
    /\ visit[Loop].doing \in Iface
    /\ visit[Loop].copy = NoMetrics
    /\ LET n == visit[Loop].node
       IN  visit' = [visit EXCEPT ![Loop].copy =
                        IF metrics[n] = NoMetrics THEN Fresh("") ELSE metrics[n]]
    /\ UNCHANGED <<up, metrics, todo, handler, ops, failed, passed>>

\* FoldAWGTraffic changes the transfer counters only; SaveMetrics saves it all.
SaveFold ==
    /\ visit[Loop].doing \in Iface
    /\ visit[Loop].copy # NoMetrics
    /\ metrics' = [metrics EXCEPT ![visit[Loop].node] = visit[Loop].copy]
    /\ visit' = [visit EXCEPT ![Loop] = NextFold(@)]
    /\ UNCHANGED <<up, todo, handler, ops, failed, passed>>

-----------------------------------------------------------------------------
(* The operator, and the node itself *)

\* handleMarkNodeBlocked, handleClearNodeBlocked and the capture of a node begin;
\* only a blocked node can be cleared.
Ask(h, n, to) ==
    /\ ops < MaxOps
    /\ handler[h] = NoAction
    /\ to = "unknown" => GetMetrics(n).state = "blocked"
    /\ handler' = [handler EXCEPT ![h] = [node |-> n, to |-> to]]
    /\ ops' = ops + 1
    /\ UNCHANGED <<up, metrics, todo, visit, failed, passed>>

\* Defect variant: only the state is set, the counters are kept.
AnswerKeepingCounters(h) ==
    /\ handler[h] # NoAction
    /\ metrics' = [metrics EXCEPT ![handler[h].node] =
                      [GetMetrics(handler[h].node) EXCEPT !.state = handler[h].to]]
    /\ handler' = [handler EXCEPT ![h] = NoAction]
    /\ UNCHANGED <<up, todo, visit, ops, failed, passed>>

\* SetNodeState resets the counters, a capture saves a new record; SaveMetrics.
Answer(h) ==
    /\ handler[h] # NoAction
    /\ metrics' = [metrics EXCEPT ![handler[h].node] = Fresh(handler[h].to)]
    /\ handler' = [handler EXCEPT ![h] = NoAction]
    /\ UNCHANGED <<up, todo, visit, ops, failed, passed>>

\* The node comes up, its service fails, its network fails.
Change(n, p) ==
    /\ up[n] # p
    /\ up' = [up EXCEPT ![n] = p]
    /\ UNCHANGED <<metrics, todo, visit, handler, ops, failed, passed>>

LoopStep ==
    \/ Tick
    \/ \E n \in Node : ProbeNode(n)
    \/ Record(Loop)
    \/ SkipFold \/ ReadFold \/ SaveFold

Next ==
    \/ LoopStep
    \/ \E c \in Checker : Record(c) \/ \E n \in Node : Check(c, n)
    \/ \E h \in Handler : Answer(h) \/ \E n \in Node, to \in To : Ask(h, n, to)
    \/ \E n \in Node, p \in Probe : Change(n, p)

\* The ticker keeps firing and every SSH command has a deadline; a handler ends.
Fairness ==
    /\ WF_vars(LoopStep)
    /\ \A c \in Checker : WF_vars(Record(c))
    /\ \A h \in Handler : WF_vars(Answer(h))

Spec == Init /\ [][Next]_vars /\ Fairness

-----------------------------------------------------------------------------
(* Properties *)

StateOf(m) == IF m = NoMetrics THEN "unknown" ELSE m.state

\* The counters m claims were really observed on node n.
Backed(m, n) == m # NoMetrics => m.fails <= failed[n] /\ m.oks <= passed[n]

\* The counters of a record, and of every copy a visit holds, never exceed what
\* the probes have really observed, whoever saved in between.
CountersBacked ==
    /\ \A n \in Node : Backed(metrics[n], n)
    /\ \A p \in Prober : visit[p] # Idle => Backed(visit[p].copy, visit[p].node)

\* The step saves the copy of a visit of n that was made in one of these states.
SavesCopyFrom(n, states) ==
    \E p \in Prober :
        /\ visit[p].node = n
        /\ visit'[p] # visit[p]
        /\ StateOf(visit[p].copy) \in states

\* "a single transient SSH timeout must NOT flip a node to down/unreachable": an
\* incident starts with DownThreshold failed probes since the last good one,
\* also when checks, folds, blocks and captures race with the loop. (A visit
\* that missed another save goes on with the incident of its copy.)
IncidentNeedsFailures ==
    [][\A n \in Node :
          StateOf(metrics[n]) \notin Incident /\ StateOf(metrics'[n]) \in Incident
          => failed'[n] >= DownThreshold \/ SavesCopyFrom(n, Incident)]_vars

\* A suspicion and an incident end with RecoverThreshold good probes since the
\* last failed one. (A visit whose copy is older than them does not know better.)
RecoveryNeedsSuccesses ==
    [][\A n \in Node :
          /\ StateOf(metrics[n]) \in Incident \cup {"suspect"}
          /\ StateOf(metrics'[n]) = "healthy"
          => \/ passed'[n] >= RecoverThreshold
             \/ SavesCopyFrom(n, {"", "unknown", "healthy"})]_vars

\* An outage that lasts is flagged, unless the operator blocked the node.
OutageFlagged ==
    \A n \in Node :
        <>[](up[n] # "ok") => <>[](StateOf(metrics[n]) \in Incident \cup {"blocked"})

\* A node that stays well is shown healthy again.
RecoveryNoticed ==
    \A n \in Node :
        <>[](up[n] = "ok") => <>[](StateOf(metrics[n]) \in {"healthy", "blocked"})
=============================================================================
