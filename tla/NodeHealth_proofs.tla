-------------------------- MODULE NodeHealth_proofs --------------------------
(***************************************************************************)
(* The hysteresis of NodeHealth for every fleet, every number of           *)
(* concurrent requests and every pair of thresholds.                       *)
(***************************************************************************)
EXTENDS NodeHealth, TLAPS

USE ThresholdAssumption

\* The record types, with the fields the provers look at.
LEMMA VisitFacts ==
    /\ \A m \in Metrics : m # NoMetrics
    /\ Idle.copy = NoMetrics
    /\ \A v \in Visit : v.copy \in Metrics \cup {NoMetrics}
    /\ \A v \in Visit : v.doing \in Probe \cup Iface => v # Idle /\ v.node \in Node
    /\ \A v \in Visit : v.doing \in Probe => v.copy \in Metrics
  <1>1. NoMetrics \notin Metrics /\ NoMetrics \notin Probe /\ NoMetrics \notin Iface
    BY NoMetricsAssumption
  <1>2. \A v \in ProbeVisit : v.copy \in Metrics /\ v.node \in Node /\ v.doing \in Probe
    BY DEF ProbeVisit
  <1>3. \A v \in FoldVisit :
            v.copy \in Metrics \cup {NoMetrics} /\ v.node \in Node /\ v.doing \in Iface
    BY DEF FoldVisit
  <1>4. Idle.copy = NoMetrics /\ Idle.node = NoMetrics /\ Idle.doing = NoMetrics
    BY DEF Idle
  <1>5. Probe \cap Iface = {}
    BY DEF Probe, Iface
  <1>6. \A v \in Visit : v.copy \in Metrics \cup {NoMetrics}
    BY <1>2, <1>3, <1>4 DEF Visit
  <1>7. \A v \in Visit : v.doing \in Probe => v.copy \in Metrics
    BY <1>1, <1>2, <1>3, <1>4, <1>5 DEF Visit
  <1>8. \A v \in Visit : v # Idle => v.node \in Node
    BY <1>2, <1>3 DEF Visit
  <1> QED BY <1>1, <1>4, <1>6, <1>7, <1>8

\* Inc stays within the bound, is monotone and never falls below a threshold.
LEMMA IncFacts ==
    ASSUME NEW a \in Count, NEW b \in Count, a <= b
    PROVE  Inc(a) \in Count /\ Inc(b) \in Count /\ Inc(a) <= Inc(b)
BY DEF Inc, Count

\* NextState: type, counters and where the state may go.
LEMMA NextStateFacts ==
    ASSUME NEW m \in Metrics, NEW p \in Probe
    PROVE  LET x == NextState(m, p)
           IN  /\ x \in Metrics
               /\ m.state = "blocked" => x = m
               /\ m.state # "blocked" /\ p # "ok" => x.fails = Inc(m.fails) /\ x.oks = 0
               /\ m.state # "blocked" /\ p = "ok" => x.fails = 0 /\ x.oks = Inc(m.oks)
               /\ m.state \notin Incident /\ x.state \in Incident =>
                      p # "ok" /\ x.fails >= DownThreshold
               /\ m.state \in Incident \cup {"suspect"} /\ x.state = "healthy" =>
                      p = "ok" /\ x.oks >= RecoverThreshold
<1> DEFINE x == NextState(m, p)
<1>0. /\ m.fails \in Count /\ m.oks \in Count /\ m.state \in State
      /\ m = [state |-> m.state, fails |-> m.fails, oks |-> m.oks]
  BY DEF Metrics
<1>1. Inc(m.fails) \in Count /\ Inc(m.oks) \in Count /\ 0 \in Count
  BY <1>0 DEF Inc, Count
<1>2. CASE m.state = "blocked"
  BY <1>0, <1>2 DEF NextState, Incident
<1>3. CASE m.state # "blocked" /\ p = "ok"
  <2>1. x = GoodProbe(m)
    BY <1>3 DEF NextState
  <2> DEFINE c == [m EXCEPT !.fails = 0, !.oks = Inc(@)]
  <2>2. c \in Metrics /\ c.fails = 0 /\ c.oks = Inc(m.oks) /\ c.state = m.state
    BY <1>0, <1>1 DEF Metrics
  <2>3. CASE m.state \in Incident \cup {"suspect"} /\ c.oks < RecoverThreshold
    <3>1. x = c
      BY <2>1, <2>3 DEF GoodProbe
    <3> QED BY <1>3, <2>2, <2>3, <3>1 DEF Incident
  <2>4. CASE ~(m.state \in Incident \cup {"suspect"} /\ c.oks < RecoverThreshold)
    <3>1. x = [c EXCEPT !.state = "healthy"]
      BY <2>1, <2>4 DEF GoodProbe
    <3>2. x \in Metrics /\ x.fails = 0 /\ x.oks = Inc(m.oks) /\ x.state = "healthy"
      BY <2>2, <3>1 DEF Metrics, State
    <3>3. m.state \in Incident \cup {"suspect"} => x.oks >= RecoverThreshold
      BY <1>1, <2>2, <2>4, <3>2 DEF Count
    <3> QED BY <1>3, <3>2, <3>3 DEF Incident
  <2> QED BY <2>3, <2>4
<1>4. CASE m.state # "blocked" /\ p # "ok"
  <2>1. x = FailedProbe(m, p)
    BY <1>4 DEF NextState
  <2> DEFINE bad == IF p = "ssh" THEN "unreachable" ELSE "down"
             c   == [m EXCEPT !.fails = Inc(@), !.oks = 0]
             s   == IF m.state \in {"", "healthy"} THEN "suspect" ELSE m.state
  <2>2. c \in Metrics /\ c.fails = Inc(m.fails) /\ c.oks = 0 /\ c.state = m.state
    BY <1>0, <1>1 DEF Metrics
  <2>3. CASE m.state \notin Incident /\ c.fails < DownThreshold
    <3>1. x = [c EXCEPT !.state = s]
      BY <2>1, <2>2, <2>3 DEF FailedProbe
    <3>2. s \in State /\ s \notin Incident /\ s # "healthy"
      BY <1>0, <2>3 DEF State, Incident
    <3>3. x \in Metrics /\ x.fails = Inc(m.fails) /\ x.oks = 0 /\ x.state = s
      BY <2>2, <3>1, <3>2 DEF Metrics
    <3> QED BY <1>4, <2>3, <3>2, <3>3
  <2>4. CASE ~(m.state \notin Incident /\ c.fails < DownThreshold)
    <3>1. x = [c EXCEPT !.state = bad]
      BY <2>1, <2>4 DEF FailedProbe
    <3>2. bad \in State /\ bad # "healthy"
      BY DEF State, Incident
    <3>3. x \in Metrics /\ x.fails = Inc(m.fails) /\ x.oks = 0 /\ x.state = bad
      BY <2>2, <3>1, <3>2 DEF Metrics
    <3>4. m.state \notin Incident => x.fails >= DownThreshold
      BY <1>1, <2>2, <2>4, <3>3 DEF Count
    <3> QED BY <1>4, <3>2, <3>3, <3>4
  <2> QED BY <2>3, <2>4
<1> QED BY <1>2, <1>3, <1>4

-----------------------------------------------------------------------------
(* The inductive invariant *)

\* SetNodeState resets the counters, and nothing counts while a node is blocked.
Reset(m) == m # NoMetrics /\ m.state = "blocked" => m.fails = 0 /\ m.oks = 0

BlockedIsReset ==
    /\ \A n \in Node : Reset(metrics[n])
    /\ \A p \in Prober : Reset(visit[p].copy)

IInv == TypeOK /\ CountersBacked /\ BlockedIsReset

LEMMA FreshFacts ==
    ASSUME NEW s \in State
    PROVE  /\ Fresh(s) \in Metrics /\ Fresh(s).state = s
           /\ Fresh(s).fails = 0 /\ Fresh(s).oks = 0
           /\ Fresh(s) # NoMetrics
           /\ Reset(Fresh(s))
<1>1. 0 \in Count
  BY DEF Count
<1>2. Fresh(s) \in Metrics
  BY <1>1 DEF Fresh, Metrics
<1> QED BY <1>2, VisitFacts DEF Fresh, Reset

\* A fresh record claims nothing.
LEMMA FreshBacked ==
    ASSUME TypeOK, NEW s \in State, NEW n \in Node
    PROVE  Backed(Fresh(s), n)
<1>1. failed[n] \in Count /\ passed[n] \in Count
  BY DEF TypeOK
<1>2. failed[n] >= 0 /\ passed[n] >= 0
  BY <1>1 DEF Count
<1> QED BY <1>2, FreshFacts DEF Backed

LEMMA InitIInv == Init => IInv
<1> SUFFICES ASSUME Init PROVE IInv
  OBVIOUS
<1>1. Fresh("") \in Metrics /\ Reset(Fresh(""))
  BY FreshFacts DEF State
<1>2. 0 \in Count /\ 0 \in 0 .. MaxOps
  BY DEF Count
<1>3. Idle.copy = NoMetrics
  BY VisitFacts
<1>4. TypeOK
  <2>1. metrics \in [Node -> Metrics \cup {NoMetrics}]
    BY <1>1 DEF Init
  <2>2. visit \in [Prober -> Visit]
    BY DEF Init, Visit
  <2>3. handler \in [Handler -> Request]
    BY DEF Init, Request
  <2> QED BY <1>2, <2>1, <2>2, <2>3 DEF Init, TypeOK
<1>5. CountersBacked
  <2>1. ASSUME NEW n \in Node PROVE Backed(metrics[n], n)
    <3>1. metrics[n] = Fresh("") \/ metrics[n] = NoMetrics
      BY DEF Init
    <3>2. Backed(Fresh(""), n)
      BY <1>4, FreshBacked DEF State
    <3> QED BY <3>1, <3>2 DEF Backed
  <2>2. \A p \in Prober : visit[p] = Idle
    BY DEF Init
  <2> QED BY <2>1, <2>2 DEF CountersBacked
<1>6. BlockedIsReset
  <2>1. \A n \in Node : Reset(metrics[n])
    BY <1>1 DEF Init, Reset
  <2>2. \A p \in Prober : visit[p].copy = NoMetrics
    BY <1>3 DEF Init
  <2> QED BY <2>1, <2>2 DEF BlockedIsReset, Reset
<1> QED BY <1>4, <1>5, <1>6 DEF IInv

\* What a reader gets is a record that the observations back.
LEMMA ReadFacts ==
    ASSUME IInv, NEW n \in Node, NEW s \in State
    PROVE  LET m == IF metrics[n] = NoMetrics THEN Fresh(s) ELSE metrics[n]
           IN  m \in Metrics /\ Backed(m, n) /\ Reset(m)
<1>1. CASE metrics[n] = NoMetrics
  BY <1>1, FreshFacts, FreshBacked DEF IInv
<1>2. CASE metrics[n] # NoMetrics
  BY <1>2 DEF IInv, TypeOK, CountersBacked, BlockedIsReset
<1> QED BY <1>1, <1>2

\* A visit's copy is backed as well.
LEMMA CopyFacts ==
    ASSUME IInv, NEW p \in Prober, visit[p].doing \in Probe \cup Iface
    PROVE  /\ visit[p].node \in Node /\ visit[p] # Idle
           /\ visit[p].copy \in Metrics \cup {NoMetrics}
           /\ visit[p].doing \in Probe => visit[p].copy \in Metrics
           /\ Backed(visit[p].copy, visit[p].node)
           /\ Reset(visit[p].copy)
<1>1. visit[p] \in Visit
  BY DEF IInv, TypeOK
<1>2. visit[p].node \in Node /\ visit[p] # Idle
  BY <1>1, VisitFacts
<1> QED BY <1>1, <1>2, VisitFacts DEF IInv, CountersBacked, BlockedIsReset

\* Recording a probe, seen from the invariant.
LEMMA RecordFacts ==
    ASSUME IInv, NEW p \in Prober, Record(p)
    PROVE  LET n == visit[p].node
               m == visit[p].copy
           IN  /\ n \in Node /\ m \in Metrics /\ visit[p].doing \in Probe
               /\ metrics' = [metrics EXCEPT ![n] = NextState(m, visit[p].doing)]
               /\ metrics'[n] = NextState(m, visit[p].doing)
               /\ metrics'[n] \in Metrics /\ Reset(metrics'[n])
               /\ failed' = [failed EXCEPT ![n] = failed'[n]]
               /\ passed' = [passed EXCEPT ![n] = passed'[n]]
               /\ failed'[n] \in Count /\ passed'[n] \in Count
               /\ metrics'[n].fails <= failed'[n] /\ metrics'[n].oks <= passed'[n]
               /\ Overlapped(p, n) => failed[n] <= failed'[n] /\ passed[n] <= passed'[n]
<1> DEFINE n == visit[p].node
           m == visit[p].copy
           d == visit[p].doing
           x == NextState(m, d)
           old(c) == IF Overlapped(p, n) THEN c ELSE 0
<1>1. d \in Probe
  BY DEF Record
<1>2. n \in Node /\ m \in Metrics /\ Backed(m, n) /\ Reset(m)
  BY <1>1, CopyFacts
<1>3. metrics' = [metrics EXCEPT ![n] = x] /\ metrics'[n] = x
  BY <1>2 DEF Record, IInv, TypeOK
<1>4. /\ failed[n] \in Count /\ passed[n] \in Count
      /\ m.fails \in Count /\ m.oks \in Count
      /\ m.fails <= failed[n] /\ m.oks <= passed[n]
  BY <1>2, VisitFacts DEF IInv, TypeOK, Backed, Metrics
<1>5. /\ failed' = [failed EXCEPT ![n] = IF d = "ok" THEN old(failed[n]) ELSE Inc(failed[n])]
      /\ passed' = [passed EXCEPT ![n] = IF d = "ok" THEN Inc(passed[n]) ELSE old(passed[n])]
  BY DEF Record
<1>6. /\ failed'[n] = IF d = "ok" THEN old(failed[n]) ELSE Inc(failed[n])
      /\ passed'[n] = IF d = "ok" THEN Inc(passed[n]) ELSE old(passed[n])
      /\ failed' = [failed EXCEPT ![n] = failed'[n]]
      /\ passed' = [passed EXCEPT ![n] = passed'[n]]
  BY <1>2, <1>5 DEF IInv, TypeOK
<1>7. /\ Inc(m.fails) <= Inc(failed[n]) /\ Inc(failed[n]) \in Count
      /\ Inc(m.oks) <= Inc(passed[n]) /\ Inc(passed[n]) \in Count
      /\ failed[n] <= Inc(failed[n]) /\ passed[n] <= Inc(passed[n])
  BY <1>4, IncFacts DEF Inc, Count
<1>8. /\ old(failed[n]) \in Count /\ old(passed[n]) \in Count /\ 0 \in Count
      /\ 0 <= old(failed[n]) /\ 0 <= old(passed[n])
      /\ Overlapped(p, n) => old(failed[n]) = failed[n] /\ old(passed[n]) = passed[n]
      /\ \A c \in Count : 0 <= c /\ c <= c
  BY <1>4 DEF Count
<1>9. /\ x \in Metrics
      /\ m.state = "blocked" => x = m
      /\ m.state # "blocked" /\ d # "ok" => x.fails = Inc(m.fails) /\ x.oks = 0
      /\ m.state # "blocked" /\ d = "ok" => x.fails = 0 /\ x.oks = Inc(m.oks)
  BY <1>1, <1>2, NextStateFacts
<1>10. Reset(x)
  <2>1. m.state # "blocked" => x.state # "blocked"
    BY <1>2 DEF NextState, GoodProbe, FailedProbe, Metrics, Incident
  <2> QED BY <1>2, <1>9, <2>1 DEF Reset
<1> HIDE DEF old, x, d, m, n
<1>11. failed'[n] \in Count /\ passed'[n] \in Count
  BY <1>6, <1>7, <1>8
<1>12. x.fails <= failed'[n] /\ x.oks <= passed'[n]
  <2>1. CASE m.state = "blocked"
    BY <1>2, <1>8, <1>9, <1>11, <2>1, VisitFacts DEF Reset
  <2>2. CASE m.state # "blocked" /\ d = "ok"
    BY <1>6, <1>7, <1>8, <1>9, <2>2
  <2>3. CASE m.state # "blocked" /\ d # "ok"
    BY <1>6, <1>7, <1>8, <1>9, <2>3
  <2> QED BY <2>1, <2>2, <2>3
<1>13. Overlapped(p, n) => failed[n] <= failed'[n] /\ passed[n] <= passed'[n]
  BY <1>4, <1>6, <1>7, <1>8
<1> QED BY <1>1, <1>2, <1>3, <1>6, <1>9, <1>10, <1>11, <1>12, <1>13 DEF x, d, m, n

LEMMA RecordIInv ==
    ASSUME IInv, NEW p \in Prober, Record(p)
    PROVE  IInv'
<1> DEFINE n == visit[p].node
           v == visit'[p]
<1>1. /\ n \in Node /\ metrics'[n] \in Metrics /\ Reset(metrics'[n])
      /\ metrics' = [metrics EXCEPT ![n] = metrics'[n]]
      /\ failed' = [failed EXCEPT ![n] = failed'[n]]
      /\ passed' = [passed EXCEPT ![n] = passed'[n]]
      /\ failed'[n] \in Count /\ passed'[n] \in Count
      /\ metrics'[n].fails <= failed'[n] /\ metrics'[n].oks <= passed'[n]
      /\ Overlapped(p, n) => failed[n] <= failed'[n] /\ passed[n] <= passed'[n]
  BY RecordFacts
<1>2. UNCHANGED <<up, todo, handler, ops>>
  BY DEF Record
<1>3. v \in Visit /\ v.copy = NoMetrics /\ visit' = [visit EXCEPT ![p] = v]
  <2> DEFINE w == IF p = Loop /\ NextState(visit[p].copy, visit[p].doing).state = "healthy"
                  THEN [node |-> n, doing |-> "awg0", copy |-> NoMetrics]
                  ELSE Idle
  <2>1. w \in Visit /\ w.copy = NoMetrics
    BY <1>1, VisitFacts DEF Visit, FoldVisit, Iface
  <2>2. visit' = [visit EXCEPT ![p] = w]
    BY DEF Record
  <2>3. v = w
    BY <2>2 DEF IInv, TypeOK
  <2> QED BY <2>1, <2>2, <2>3
<1> HIDE DEF v
<1>4. TypeOK'
  BY <1>1, <1>2, <1>3 DEF IInv, TypeOK
<1>5. CountersBacked'
  <2>1. ASSUME NEW k \in Node PROVE Backed(metrics[k], k)'
    <3>1. CASE k = n
      BY <1>1, <3>1 DEF Backed
    <3>2. CASE k # n
      BY <1>1, <3>2 DEF IInv, TypeOK, CountersBacked, Backed
    <3> QED BY <3>1, <3>2
  <2>2. ASSUME NEW q \in Prober, visit'[q] # Idle
        PROVE  Backed(visit[q].copy, visit[q].node)'
    <3>1. CASE q = p
      BY <1>3, <3>1 DEF Backed, IInv, TypeOK
    <3>2. CASE q # p
      <4>1. visit'[q] = visit[q]
        BY <1>3, <3>2 DEF IInv, TypeOK
      <4>2. CASE visit[q].copy = NoMetrics
        BY <4>1, <4>2 DEF Backed
      <4>3. CASE visit[q].copy # NoMetrics
        <5> DEFINE m == visit[q].copy
                   k == visit[q].node
        <5>0. visit[q] \in Visit /\ visit[q] # Idle
          BY <2>2, <4>1 DEF IInv, TypeOK
        <5>1. m \in Metrics /\ k \in Node
          <6>1. \A w \in Visit : w # Idle => w.node \in Node
            BY DEF Visit, ProbeVisit, FoldVisit
          <6> QED BY <4>3, <5>0, <6>1, VisitFacts
        <5>2. m.fails <= failed[k] /\ m.oks <= passed[k]
          BY <4>3, <5>0 DEF IInv, CountersBacked, Backed
        <5>3. /\ m.fails \in Count /\ m.oks \in Count
              /\ failed[k] \in Count /\ passed[k] \in Count
              /\ failed'[k] \in Count /\ passed'[k] \in Count
          BY <1>4, <5>1 DEF IInv, TypeOK, Metrics
        <5>4. failed[k] <= failed'[k] /\ passed[k] <= passed'[k]
          <6>1. CASE k = n
            <7>1. Overlapped(p, n)
              BY <3>2, <4>3, <6>1 DEF Overlapped
            <7> QED BY <1>1, <6>1, <7>1
          <6>2. CASE k # n
            <7>1. failed'[k] = failed[k] /\ passed'[k] = passed[k]
              BY <1>1, <5>1, <6>2 DEF IInv, TypeOK
            <7> QED BY <5>3, <7>1 DEF Count
          <6> QED BY <6>1, <6>2
        <5> HIDE DEF m, k
        <5>5. m.fails <= failed'[k] /\ m.oks <= passed'[k]
          BY <5>2, <5>3, <5>4 DEF Count
        <5> QED BY <4>1, <5>5 DEF Backed, m, k
      <4> QED BY <4>2, <4>3
    <3> QED BY <3>1, <3>2
  <2> QED BY <2>1, <2>2 DEF CountersBacked
<1>6. BlockedIsReset'
  <2>1. \A k \in Node : Reset(metrics'[k])
    BY <1>1 DEF IInv, TypeOK, BlockedIsReset
  <2>2. \A q \in Prober : Reset(visit'[q].copy)
    BY <1>3 DEF IInv, TypeOK, BlockedIsReset, Reset
  <2> QED BY <2>1, <2>2 DEF BlockedIsReset
<1> QED BY <1>4, <1>5, <1>6 DEF IInv

\* A step that records no probe keeps the invariant when what it writes is
\* backed by the observations made so far.
LEMMA QuietStep ==
    ASSUME IInv, TypeOK', UNCHANGED <<failed, passed>>,
           \A n \in Node :
               metrics'[n] = metrics[n] \/ (Backed(metrics'[n], n) /\ Reset(metrics'[n])),
           \A p \in Prober :
               \/ visit'[p] = visit[p]
               \/ Backed(visit'[p].copy, visit'[p].node) /\ Reset(visit'[p].copy)
    PROVE  IInv'
<1>1. CountersBacked'
  BY DEF IInv, CountersBacked, Backed
<1>2. BlockedIsReset'
  BY DEF IInv, BlockedIsReset
<1> QED BY <1>1, <1>2 DEF IInv

LEMMA StartVisitIInv ==
    ASSUME IInv, NEW p \in Prober, NEW n \in Node, StartVisit(p, n),
           todo' \subseteq Node, ops' \in 0 .. MaxOps
    PROVE  IInv'
<1> DEFINE v == [node |-> n, doing |-> up[n], copy |-> GetMetrics(n)]
<1>1. GetMetrics(n) \in Metrics /\ Backed(GetMetrics(n), n) /\ Reset(GetMetrics(n))
  BY ReadFacts DEF GetMetrics, State
<1>2. /\ visit' = [visit EXCEPT ![p] = v]
      /\ UNCHANGED <<up, metrics, handler, failed, passed>>
  BY DEF StartVisit
<1>3. v \in Visit /\ v.copy = GetMetrics(n) /\ v.node = n
  BY <1>1 DEF IInv, TypeOK, Visit, ProbeVisit
<1>4. TypeOK'
  BY <1>2, <1>3 DEF IInv, TypeOK
<1> HIDE DEF v
<1>5. ASSUME NEW q \in Prober
      PROVE  \/ visit'[q] = visit[q]
             \/ Backed(visit'[q].copy, visit'[q].node) /\ Reset(visit'[q].copy)
  BY <1>1, <1>2, <1>3 DEF IInv, TypeOK
<1> QED BY <1>2, <1>4, <1>5, QuietStep

\* The traffic fold writes back what it read.
LEMMA FoldIInv ==
    ASSUME IInv, SkipFold \/ ReadFold \/ SaveFold
    PROVE  IInv'
<1> DEFINE n == visit[Loop].node
           m == visit[Loop].copy
           v == visit'[Loop]
<1>0. Loop \in Prober
  BY DEF Prober
<1>1. visit[Loop].doing \in Iface
  BY DEF SkipFold, ReadFold, SaveFold
<1>2. /\ n \in Node /\ m \in Metrics \cup {NoMetrics}
      /\ Backed(m, n) /\ Reset(m)
  BY <1>0, <1>1, CopyFacts
<1>3. visit[Loop] \in FoldVisit
  <2>1. visit[Loop] \in Visit
    BY <1>0 DEF IInv, TypeOK
  <2>2. visit[Loop] \notin ProbeVisit
    BY <1>1 DEF ProbeVisit, Probe, Iface
  <2>3. visit[Loop] # Idle
    BY <1>0, <1>1, CopyFacts
  <2> QED BY <2>1, <2>2, <2>3 DEF Visit
<1>4. NextFold(visit[Loop]) \in Visit /\ NextFold(visit[Loop]).copy = NoMetrics
  <2>1. CASE visit[Loop].doing = "awg0"
    <3> DEFINE w == [visit[Loop] EXCEPT !.doing = "awg1", !.copy = NoMetrics]
    <3>1. w \in FoldVisit /\ w.copy = NoMetrics
      BY <1>3 DEF FoldVisit, Iface
    <3> QED BY <2>1, <3>1 DEF NextFold, Visit
  <2>2. CASE visit[Loop].doing # "awg0"
    BY <2>2, VisitFacts DEF NextFold, Visit
  <2> QED BY <2>1, <2>2
<1>5. CASE SkipFold
  <2>1. visit' = [visit EXCEPT ![Loop] = NextFold(visit[Loop])]
        /\ UNCHANGED <<up, metrics, todo, handler, ops, failed, passed>>
    BY <1>5 DEF SkipFold
  <2>2. TypeOK'
    BY <1>0, <1>4, <2>1 DEF IInv, TypeOK
  <2>3. ASSUME NEW q \in Prober
        PROVE  \/ visit'[q] = visit[q]
               \/ Backed(visit'[q].copy, visit'[q].node) /\ Reset(visit'[q].copy)
    BY <1>0, <1>4, <2>1 DEF IInv, TypeOK, Backed, Reset
  <2> QED BY <2>1, <2>2, <2>3, QuietStep
<1>6. CASE ReadFold
  <2> DEFINE r == IF metrics[n] = NoMetrics THEN Fresh("") ELSE metrics[n]
             w == [visit[Loop] EXCEPT !.copy = r]
  <2>1. r \in Metrics /\ Backed(r, n) /\ Reset(r)
    BY <1>2, ReadFacts DEF State
  <2>2. w \in Visit /\ w.copy = r /\ w.node = n
    BY <1>3, <2>1 DEF Visit, FoldVisit
  <2>3. visit' = [visit EXCEPT ![Loop] = w]
        /\ UNCHANGED <<up, metrics, todo, handler, ops, failed, passed>>
    BY <1>6 DEF ReadFold
  <2> HIDE DEF w, r
  <2>4. TypeOK'
    BY <1>0, <2>2, <2>3 DEF IInv, TypeOK
  <2>5. ASSUME NEW q \in Prober
        PROVE  \/ visit'[q] = visit[q]
               \/ Backed(visit'[q].copy, visit'[q].node) /\ Reset(visit'[q].copy)
    BY <1>0, <2>1, <2>2, <2>3 DEF IInv, TypeOK
  <2> QED BY <2>3, <2>4, <2>5, QuietStep
<1>7. CASE SaveFold
  <2>1. /\ metrics' = [metrics EXCEPT ![n] = m]
        /\ m # NoMetrics
        /\ visit' = [visit EXCEPT ![Loop] = NextFold(visit[Loop])]
        /\ UNCHANGED <<up, todo, handler, ops, failed, passed>>
    BY <1>7 DEF SaveFold
  <2>2. TypeOK'
    BY <1>0, <1>2, <1>4, <2>1 DEF IInv, TypeOK
  <2>3. ASSUME NEW q \in Prober
        PROVE  \/ visit'[q] = visit[q]
               \/ Backed(visit'[q].copy, visit'[q].node) /\ Reset(visit'[q].copy)
    BY <1>0, <1>4, <2>1 DEF IInv, TypeOK, Backed, Reset
  <2>4. ASSUME NEW k \in Node
        PROVE  metrics'[k] = metrics[k] \/ (Backed(metrics'[k], k) /\ Reset(metrics'[k]))
    BY <1>2, <2>1 DEF IInv, TypeOK
  <2> QED BY <2>1, <2>2, <2>3, <2>4, QuietStep
<1> QED BY <1>5, <1>6, <1>7

\* What a handler saves.
LEMMA AnswerFacts ==
    ASSUME IInv, NEW h \in Handler, Answer(h)
    PROVE  /\ handler[h].node \in Node /\ handler[h].to \in To
           /\ Fresh(handler[h].to) \in Metrics
           /\ StateOf(Fresh(handler[h].to)) \in To
           /\ metrics' = [metrics EXCEPT ![handler[h].node] = Fresh(handler[h].to)]
<1>1. handler[h].node \in Node /\ handler[h].to \in To
  BY DEF Answer, IInv, TypeOK, Request
<1>2. Fresh(handler[h].to) # NoMetrics /\ Fresh(handler[h].to).state = handler[h].to
      /\ Fresh(handler[h].to) \in Metrics
  BY <1>1, FreshFacts DEF To, State
<1> QED BY <1>1, <1>2 DEF Answer, StateOf

LEMMA AnswerIInv ==
    ASSUME IInv, NEW h \in Handler, Answer(h)
    PROVE  IInv'
<1> DEFINE k == handler[h].node
           f == Fresh(handler[h].to)
<1>1. k \in Node /\ f \in Metrics /\ metrics' = [metrics EXCEPT ![k] = f]
  BY AnswerFacts
<1>2. Backed(f, k) /\ Reset(f)
  BY <1>1, AnswerFacts, FreshFacts, FreshBacked DEF To, State, IInv
<1>3. /\ handler' = [handler EXCEPT ![h] = NoAction]
      /\ UNCHANGED <<up, todo, visit, ops, failed, passed>>
  BY DEF Answer
<1> HIDE DEF f
<1>4. TypeOK'
  BY <1>1, <1>3 DEF IInv, TypeOK, Request
<1>5. ASSUME NEW j \in Node
      PROVE  metrics'[j] = metrics[j] \/ (Backed(metrics'[j], j) /\ Reset(metrics'[j]))
  BY <1>1, <1>2 DEF IInv, TypeOK
<1> QED BY <1>3, <1>4, <1>5, QuietStep

\* Every step keeps the invariant.
LEMMA NextIInv == IInv /\ [Next]_vars => IInv'
<1> SUFFICES ASSUME IInv, [Next]_vars PROVE IInv'
  OBVIOUS
<1>1. CASE Tick
  <2>1. TypeOK'
    BY <1>1 DEF Tick, IInv, TypeOK
  <2> QED BY <1>1, <2>1, QuietStep DEF Tick
<1>2. ASSUME NEW n \in Node, ProbeNode(n) PROVE IInv'
  BY <1>2, StartVisitIInv DEF ProbeNode, IInv, TypeOK, Prober
<1>3. ASSUME NEW c \in Checker, NEW n \in Node, Check(c, n) PROVE IInv'
  <2>1. ops' \in 0 .. MaxOps
    BY <1>3 DEF Check, IInv, TypeOK
  <2> QED BY <1>3, <2>1, StartVisitIInv DEF Check, IInv, TypeOK, Prober
<1>4. ASSUME NEW p \in Prober, Record(p) PROVE IInv'
  BY <1>4, RecordIInv
<1>5. CASE SkipFold \/ ReadFold \/ SaveFold
  BY <1>5, FoldIInv
<1>6. ASSUME NEW h \in Handler, Answer(h) PROVE IInv'
  BY <1>6, AnswerIInv
<1>7. ASSUME NEW h \in Handler, NEW n \in Node, NEW to \in To, Ask(h, n, to) PROVE IInv'
  <2>1. TypeOK'
    BY <1>7 DEF Ask, IInv, TypeOK, Request
  <2> QED BY <1>7, <2>1, QuietStep DEF Ask
<1>8. ASSUME NEW n \in Node, NEW p \in Probe, Change(n, p) PROVE IInv'
  <2>1. TypeOK'
    BY <1>8 DEF Change, IInv, TypeOK
  <2> QED BY <1>8, <2>1, QuietStep DEF Change
<1>9. CASE UNCHANGED vars
  BY <1>9 DEF vars, IInv, TypeOK, CountersBacked, Backed, BlockedIsReset
<1> QED BY <1>1, <1>2, <1>3, <1>4, <1>5, <1>6, <1>7, <1>8, <1>9 DEF Next, LoopStep, Prober

-----------------------------------------------------------------------------
(* The theorems *)

LEMMA Invariance == Spec => []IInv
BY InitIInv, NextIInv, PTL DEF Spec

\* Every record, copy and counter of the loop, of the checks and of the handlers
\* stays in its type, for every fleet and every number of concurrent requests.
THEOREM TypeCorrect == Spec => []TypeOK
<1>1. IInv => TypeOK
  BY DEF IInv
<1> QED BY <1>1, Invariance, PTL

\* No interleaving of the loop with checks, folds, blocks and captures makes a
\* counter claim more than the probes observed.
THEOREM CountersAreBacked == Spec => []CountersBacked
<1>1. IInv => CountersBacked
  BY DEF IInv
<1> QED BY <1>1, Invariance, PTL

\* Recording a probe and saving a fold use up the copy of the visit.
LEMMA CopyUsedUp ==
    ASSUME IInv, NEW p \in Prober, Record(p) \/ (p = Loop /\ SaveFold)
    PROVE  visit'[p] # visit[p] /\ visit[p].copy \in Metrics
<1>1. CASE Record(p)
  <2>1. visit[p].copy \in Metrics
    BY <1>1, RecordFacts
  <2>2. visit'[p].copy = NoMetrics
    BY <1>1, VisitFacts DEF Record, IInv, TypeOK
  <2> QED BY <2>1, <2>2, VisitFacts
<1>2. CASE p = Loop /\ SaveFold
  <2>1. visit[p].copy \in Metrics
    BY <1>2, CopyFacts DEF SaveFold
  <2>2. visit'[p] = NextFold(visit[p])
    BY <1>2 DEF SaveFold, IInv, TypeOK
  <2>3. NextFold(visit[p]).copy = NoMetrics
    <3>1. visit[p] \in FoldVisit
      <4>1. visit[p] \in Visit /\ visit[p].doing \in Iface
        BY <1>2 DEF IInv, TypeOK, SaveFold
      <4>2. visit[p] \notin ProbeVisit
        BY <4>1 DEF ProbeVisit, Probe, Iface
      <4>3. visit[p] # Idle
        BY <4>1, CopyFacts
      <4> QED BY <4>1, <4>2, <4>3 DEF Visit
    <3> QED BY <3>1, VisitFacts DEF NextFold, FoldVisit
  <2> QED BY <2>1, <2>2, <2>3, VisitFacts
<1> QED BY <1>1, <1>2

\* The three kinds of steps that write a record.
LEMMA Writers ==
    ASSUME [Next]_vars
    PROVE  \/ UNCHANGED metrics
           \/ \E p \in Prober : Record(p)
           \/ SaveFold
           \/ \E h \in Handler : Answer(h)
BY DEF Next, LoopStep, Tick, ProbeNode, Check, StartVisit, SkipFold, ReadFold, Ask, Change,
       vars, Prober

\* A step that starts an incident records a probe or saves a stale copy.
LEMMA IncidentStep ==
    ASSUME IInv, [Next]_vars, NEW n \in Node,
           StateOf(metrics[n]) \notin Incident, StateOf(metrics'[n]) \in Incident
    PROVE  failed'[n] >= DownThreshold \/ SavesCopyFrom(n, Incident)
<1>1. metrics'[n] # metrics[n]
  OBVIOUS
<1>2. ASSUME NEW h \in Handler, Answer(h) PROVE FALSE
  <2>1. metrics'[n] = Fresh(handler[h].to)
    BY <1>1, <1>2, AnswerFacts DEF IInv, TypeOK
  <2> QED BY <1>2, <2>1, AnswerFacts DEF To, Incident
<1>3. ASSUME SaveFold PROVE SavesCopyFrom(n, Incident)
  <2>1. Loop \in Prober
    BY DEF Prober
  <2>2. visit[Loop].node = n /\ metrics'[n] = visit[Loop].copy
    BY <1>1, <1>3 DEF SaveFold, IInv, TypeOK
  <2>3. visit'[Loop] # visit[Loop]
    BY <1>3, <2>1, CopyUsedUp
  <2> QED BY <2>1, <2>2, <2>3 DEF SavesCopyFrom
<1>4. ASSUME NEW p \in Prober, Record(p)
      PROVE  failed'[n] >= DownThreshold \/ SavesCopyFrom(n, Incident)
  <2> DEFINE m == visit[p].copy
             d == visit[p].doing
  <2>1. visit[p].node = n
    BY <1>1, <1>4, RecordFacts DEF IInv, TypeOK
  <2>2. /\ m \in Metrics /\ d \in Probe
        /\ metrics'[n] = NextState(m, d) /\ metrics'[n] \in Metrics
        /\ failed'[n] \in Count /\ metrics'[n].fails <= failed'[n]
    BY <1>4, <2>1, RecordFacts
  <2>3. StateOf(m) = m.state /\ StateOf(metrics'[n]) = metrics'[n].state
    BY <2>2, VisitFacts DEF StateOf
  <2>4. CASE m.state \in Incident
    BY <1>4, <2>1, <2>3, <2>4, CopyUsedUp DEF SavesCopyFrom
  <2>5. CASE m.state \notin Incident
    <3>1. metrics'[n].fails >= DownThreshold
      BY <2>2, <2>3, <2>5, NextStateFacts
    <3>2. metrics'[n].fails \in Count
      BY <2>2 DEF Metrics
    <3>3. \A a, b \in Count : a >= DownThreshold /\ a <= b => b >= DownThreshold
      BY DEF Count
    <3>4. failed'[n] >= DownThreshold
      BY <2>2, <3>1, <3>2, <3>3
    <3> QED BY <3>4
  <2> QED BY <2>4, <2>5
<1> QED BY <1>1, <1>2, <1>3, <1>4, Writers

\* Hysteresis, one way: an incident starts only after DownThreshold failed
\* probes since the last good one, whatever races with the loop.
THEOREM IncidentHysteresis == Spec => IncidentNeedsFailures
<1>1. IInv /\ [Next]_vars =>
        [\A n \in Node :
          StateOf(metrics[n]) \notin Incident /\ StateOf(metrics'[n]) \in Incident
          => failed'[n] >= DownThreshold \/ SavesCopyFrom(n, Incident)]_vars
  BY IncidentStep
<1> QED BY <1>1, Invariance, PTL DEF Spec, IncidentNeedsFailures

\* A step that ends a suspicion or an incident records a good probe or saves a
\* copy from before it.
LEMMA RecoveryStep ==
    ASSUME IInv, [Next]_vars, NEW n \in Node,
           StateOf(metrics[n]) \in Incident \cup {"suspect"}, StateOf(metrics'[n]) = "healthy"
    PROVE  \/ passed'[n] >= RecoverThreshold
           \/ SavesCopyFrom(n, {"", "unknown", "healthy"})
<1>1. metrics'[n] # metrics[n]
  BY DEF Incident
<1>2. ASSUME NEW h \in Handler, Answer(h) PROVE FALSE
  <2>1. metrics'[n] = Fresh(handler[h].to)
    BY <1>1, <1>2, AnswerFacts DEF IInv, TypeOK
  <2> QED BY <1>2, <2>1, AnswerFacts DEF To
<1>3. ASSUME SaveFold PROVE SavesCopyFrom(n, {"", "unknown", "healthy"})
  <2>1. Loop \in Prober
    BY DEF Prober
  <2>2. visit[Loop].node = n /\ metrics'[n] = visit[Loop].copy
    BY <1>1, <1>3 DEF SaveFold, IInv, TypeOK
  <2>3. visit'[Loop] # visit[Loop]
    BY <1>3, <2>1, CopyUsedUp
  <2> QED BY <2>1, <2>2, <2>3 DEF SavesCopyFrom
<1>4. ASSUME NEW p \in Prober, Record(p)
      PROVE  \/ passed'[n] >= RecoverThreshold
             \/ SavesCopyFrom(n, {"", "unknown", "healthy"})
  <2> DEFINE m == visit[p].copy
             d == visit[p].doing
  <2>1. visit[p].node = n
    BY <1>1, <1>4, RecordFacts DEF IInv, TypeOK
  <2>2. /\ m \in Metrics /\ d \in Probe
        /\ metrics'[n] = NextState(m, d) /\ metrics'[n] \in Metrics
        /\ passed'[n] \in Count /\ metrics'[n].oks <= passed'[n]
    BY <1>4, <2>1, RecordFacts
  <2>3. StateOf(m) = m.state /\ StateOf(metrics'[n]) = metrics'[n].state
    BY <2>2, VisitFacts DEF StateOf
  <2>4. m.state # "blocked"
    BY <2>2, <2>3, NextStateFacts
  <2>5. CASE m.state \notin Incident \cup {"suspect"}
    <3>1. m.state \in {"", "unknown", "healthy"}
      BY <2>2, <2>4, <2>5 DEF Metrics, State
    <3>2. visit'[p] # visit[p]
      BY <1>4, CopyUsedUp
    <3>3. StateOf(visit[p].copy) \in {"", "unknown", "healthy"}
      BY <2>3, <3>1
    <3>4. SavesCopyFrom(n, {"", "unknown", "healthy"})
      BY <2>1, <3>2, <3>3 DEF SavesCopyFrom
    <3> QED BY <3>4
  <2>6. CASE m.state \in Incident \cup {"suspect"}
    <3>1. metrics'[n].oks >= RecoverThreshold
      BY <2>2, <2>3, <2>6, NextStateFacts
    <3>2. metrics'[n].oks \in Count
      BY <2>2 DEF Metrics
    <3>3. \A a, b \in Count : a >= RecoverThreshold /\ a <= b => b >= RecoverThreshold
      BY DEF Count
    <3>4. passed'[n] >= RecoverThreshold
      BY <2>2, <3>1, <3>2, <3>3
    <3> QED BY <3>4
  <2> QED BY <2>5, <2>6
<1> QED BY <1>1, <1>2, <1>3, <1>4, Writers

\* Hysteresis, the other way: a suspicion or an incident ends only after
\* RecoverThreshold good probes since the last failed one.
THEOREM RecoveryHysteresis == Spec => RecoveryNeedsSuccesses
<1>1. IInv /\ [Next]_vars =>
        [\A n \in Node :
          /\ StateOf(metrics[n]) \in Incident \cup {"suspect"}
          /\ StateOf(metrics'[n]) = "healthy"
          => \/ passed'[n] >= RecoverThreshold
             \/ SavesCopyFrom(n, {"", "unknown", "healthy"})]_vars
  BY RecoveryStep
<1> QED BY <1>1, Invariance, PTL DEF Spec, RecoveryNeedsSuccesses
=============================================================================
