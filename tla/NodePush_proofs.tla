-------------------------- MODULE NodePush_proofs --------------------------
(***************************************************************************)
(* The push of a version to a node, for every set of deployers, versions,  *)
(* interfaces and initial nodes and every number of failed commands. Other *)
(* deploys install, restart sing-box and wait for the host mutex meanwhile *)
(* as they like.                                                           *)
(***************************************************************************)
EXTENDS NodePush, TLAPS

-----------------------------------------------------------------------------
(* The inductive invariant *)

JobFields  == {"target", "todo", "cur", "synced", "records", "bak", "cbak", "restart",
               "restore", "err"}
NodeFields == {"cfg", "run", "conf", "live"}

IsNode(n) ==
    /\ n \in Node /\ DOMAIN n = NodeFields
    /\ n.cfg \in FileContent /\ n.run \in Running
    /\ n.conf \in [Iface -> FileContent] /\ n.live \in [Iface -> Running]

JobShape(d) ==
    /\ DOMAIN job[d] = JobFields /\ job[d].target \in Version
    /\ job[d].records \subseteq Iface /\ job[d].todo \subseteq Iface /\ job[d].cur \subseteq Iface
    /\ job[d].restart \subseteq Iface /\ job[d].restore \subseteq Iface
    /\ job[d].bak \in [Iface -> Backup] /\ job[d].cbak \in Backup
    /\ pc[d] = "rollback" => job[d].cbak # NoPath

Shapes ==
    /\ IsNode(node)
    /\ pc \in [Deployer -> Step]
    /\ DOMAIN job = Deployer /\ \A d \in Deployer : JobShape(d)

Locked == Step \ {"idle", "start", "ready"}

\* Only the holder of the host mutex is in a push, and it knows the node it found.
Exclusive == \A d \in Deployer : pc[d] \in Locked => lock = d /\ IsNode(before)

\* A context is only cancelled at the cost of a fault.
FaultsCounted ==
    /\ faults \in Nat /\ cancelled \in [Deployer -> BOOLEAN]
    /\ \A d \in Deployer : cancelled[d] => faults # 0

\* A push that has not begun.
Untouched(d) ==
    /\ job[d].todo = Rendered[Target(d)] /\ job[d].records = {} /\ job[d].cur = {}
    /\ job[d].restart = {} /\ job[d].restore = {}

\* The kernel layer on the way: the confs pushed so far are the target's, and so is
\* what their units run, unless they are still to be restarted.
OnTheWay(d) ==
    /\ job[d].todo \cup job[d].records = Rendered[Target(d)]
    /\ job[d].todo \cap job[d].records = {} /\ job[d].restart \subseteq job[d].records
    /\ job[d].restore = {}
    /\ job[d].cur \subseteq job[d].todo /\ \A i, j \in job[d].cur : i = j
    /\ pc[d] \in {"sync", "services"} => job[d].cur = {}
    /\ pc[d] = "services" => job[d].todo = {}
    /\ \A i \in job[d].records : /\ node.conf[i] = Target(d)
                                 /\ i \notin job[d].restart => node.live[i] = Target(d)
    /\ job[d].synced => \A i \in job[d].cur : node.live[i] = Target(d)

\* The kernel layer is the target's.
KernelPushed(d) ==
    \A i \in Rendered[Target(d)] : node.conf[i] = Target(d) /\ node.live[i] = Target(d)

\* The sing-box layer is the target's, or what the installation of another deploy
\* made of it.
CfgPushed(d) ==
    \/ node.cfg = Target(d)
    \/ overwritten /\ node.cfg \in {Minimal, Torn}

RunPushed(d) ==
    \/ node.run = StartSingBox(Target(d)) /\ (Target(d) = node.cfg \/ overwritten)
    \/ overwritten /\ node.run \in {Minimal, Down}

Progress(d) ==
    /\ pc[d] \in Locked => /\ job[d].records \subseteq Rendered[Target(d)]
                           /\ job[d].restore \subseteq TornDown[Target(d)]
    /\ pc[d] \in {"idle", "start", "ready", "prepare"} => Untouched(d)
    /\ pc[d] \in {"sync", "conf", "upconf", "services"} => OnTheWay(d)
    /\ pc[d] \in {"teardown", "backup", "assets", "upload", "check", "restart", "probe"} =>
           KernelPushed(d) /\ job[d].cur = {}
    /\ pc[d] = "teardown" => job[d].restore = {}
    /\ pc[d] \in {"check", "restart", "probe"} => CfgPushed(d)
    /\ pc[d] = "probe" => RunPushed(d)
    /\ pc[d] \notin {"restore", "unconf", "return"} => job[d].err = "none"
    /\ pc[d] \in {"restore", "unconf"} => job[d].err # "none"
    /\ pc[d] = "return" /\ job[d].err = "none" =>
           /\ KernelPushed(d) /\ CfgPushed(d) /\ RunPushed(d)
           /\ overwritten \/ Target(d) \in ServiceOK

\* Where the sing-box config is being replaced.
Replacing == {"check", "restart", "probe", "rollback"}

\* What was changed is what the rollback will put back, and it has what it needs.
Undoable(d) ==
    /\ pc[d] \notin Replacing =>
           (node.cfg = before.cfg /\ node.run = before.run) \/ overwritten
    /\ pc[d] \in Replacing \cup {"assets", "upload"} =>
           job[d].cbak # NoPath /\ (job[d].cbak = before.cfg \/ overwritten)
    /\ \A i \in Iface \ (job[d].records \cup job[d].cur \cup job[d].restore) :
           node.conf[i] = before.conf[i] /\ node.live[i] = before.live[i]
    /\ \A i \in job[d].cur : node.conf[i] = before.conf[i]
    /\ \A i \in job[d].records : job[d].bak[i] = before.conf[i]
    /\ pc[d] = "upconf" => \A i \in job[d].cur : job[d].bak[i] = before.conf[i]
    /\ \A i \in job[d].restore :
           node.conf[i] = before.conf[i] /\ before.live[i] = StartAwg(before.conf[i])
    /\ pc[d] \in {"rollback", "restore", "unconf", "return"} => job[d].cur = {}
    /\ pc[d] \in {"unconf", "return"} => job[d].restore = {}
    /\ pc[d] = "return" => job[d].records = {}

Clean(d) == pc[d] \in Locked /\ faults = 0 /\ Settled(before, Target(d))
                /\ ~(pc[d] = "return" /\ job[d].err = "none")

IInv ==
    /\ Shapes /\ Exclusive /\ FaultsCounted
    /\ \A d \in Deployer : Progress(d) /\ (Clean(d) => Undoable(d))

-----------------------------------------------------------------------------
(* Nodes *)

LEMMA SameNode ==
    ASSUME NEW n, NEW m, IsNode(n), IsNode(m),
           n.cfg = m.cfg, n.run = m.run,
           \A i \in Iface : n.conf[i] = m.conf[i] /\ n.live[i] = m.live[i]
    PROVE  n = m
<1>1. n.conf = m.conf
  BY DEF IsNode
<1>2. n.live = m.live
  BY DEF IsNode
<1> QED BY <1>1, <1>2 DEF IsNode, Node

LEMMA WithCfg ==
    ASSUME NEW n, IsNode(n), NEW c \in FileContent
    PROVE  LET m == [n EXCEPT !.cfg = c]
           IN  IsNode(m) /\ m.cfg = c /\ m.run = n.run /\ m.conf = n.conf /\ m.live = n.live
BY DEF IsNode, Node, NodeFields

LEMMA WithRun ==
    ASSUME NEW n, IsNode(n), NEW r \in Running
    PROVE  LET m == [n EXCEPT !.run = r]
           IN  IsNode(m) /\ m.cfg = n.cfg /\ m.run = r /\ m.conf = n.conf /\ m.live = n.live
BY DEF IsNode, Node, NodeFields

LEMMA WithConf ==
    ASSUME NEW n, IsNode(n), NEW i \in Iface, NEW c \in FileContent
    PROVE  LET m == [n EXCEPT !.conf[i] = c]
           IN  /\ IsNode(m) /\ m.cfg = n.cfg /\ m.run = n.run /\ m.live = n.live
               /\ m.conf[i] = c /\ \A j \in Iface : j # i => m.conf[j] = n.conf[j]
BY DEF IsNode, Node, NodeFields

LEMMA WithLives ==
    ASSUME NEW n, IsNode(n), NEW l \in [Iface -> Running]
    PROVE  LET m == [n EXCEPT !.live = l]
           IN  IsNode(m) /\ m.cfg = n.cfg /\ m.run = n.run /\ m.conf = n.conf /\ m.live = l
BY DEF IsNode, Node, NodeFields

LEMMA WithLive ==
    ASSUME NEW n, IsNode(n), NEW i \in Iface, NEW r \in Running
    PROVE  LET m == [n EXCEPT !.live[i] = r]
           IN  /\ IsNode(m) /\ m.cfg = n.cfg /\ m.run = n.run /\ m.conf = n.conf
               /\ m.live[i] = r /\ \A j \in Iface : j # i => m.live[j] = n.live[j]
BY DEF IsNode, Node, NodeFields

\* A service runs the content it was started from, or is down.
LEMMA Started ==
    ASSUME NEW c
    PROVE  /\ StartSingBox(c) \in Running /\ StartAwg(c) \in Running
           /\ StartSingBox(c) # Down => StartSingBox(c) = c /\ c \in ServiceOK
           /\ StartAwg(c) # Down => StartAwg(c) = c
BY VersionAssumption DEF StartSingBox, StartAwg, Running

\* What an installation leaves, when sing-box is restarted.
LEMMA InstalledRuns == StartSingBox(Minimal) = Minimal /\ StartSingBox(Torn) = Down
BY VersionAssumption, ConstantAssumption DEF StartSingBox

LEMMA CfgRolledBack ==
    ASSUME NEW n, IsNode(n), NEW b \in FileContent
    PROVE  LET m == RolledBackCfg(n, b)
           IN  /\ IsNode(m) /\ m.conf = n.conf /\ m.live = n.live
               /\ m.cfg = Restored(n.cfg, b) /\ m.run = StartSingBox(m.cfg)
<1> DEFINE c == Restored(n.cfg, b)
           r == StartSingBox(c)
           m == [n EXCEPT !.cfg = c, !.run = r]
<1>1. c \in FileContent /\ r \in Running
  BY Started DEF Restored, IsNode
<1>2. RolledBackCfg(n, b) = m
  BY DEF RolledBackCfg
<1>3. r = StartSingBox(c)
  OBVIOUS
<1> HIDE DEF c, r
<1>4. IsNode(m) /\ m.conf = n.conf /\ m.live = n.live /\ m.cfg = c /\ m.run = r
  BY <1>1 DEF IsNode, Node, NodeFields
<1> HIDE DEF m
<1> QED BY <1>2, <1>3, <1>4 DEF c

LEMMA ConfRolledBack ==
    ASSUME NEW n, IsNode(n), NEW i \in Iface, NEW b \in FileContent
    PROVE  LET m == RolledBackConf(n, i, b)
           IN  /\ IsNode(m) /\ m.cfg = n.cfg /\ m.run = n.run
               /\ m.conf[i] = Restored(n.conf[i], b) /\ m.live[i] = StartAwg(m.conf[i])
               /\ \A j \in Iface : j # i => m.conf[j] = n.conf[j] /\ m.live[j] = n.live[j]
<1> DEFINE c == Restored(n.conf[i], b)
           r == StartAwg(c)
           m == [n EXCEPT !.conf[i] = c, !.live[i] = r]
<1>1. c \in FileContent /\ r \in Running
  BY Started DEF Restored, IsNode
<1>2. RolledBackConf(n, i, b) = m
  BY DEF RolledBackConf
<1>3. r = StartAwg(c)
  OBVIOUS
<1> HIDE DEF c, r
<1>4. /\ IsNode(m) /\ m.cfg = n.cfg /\ m.run = n.run /\ m.conf[i] = c /\ m.live[i] = r
      /\ \A j \in Iface : j # i => m.conf[j] = n.conf[j] /\ m.live[j] = n.live[j]
  BY <1>1 DEF IsNode, Node, NodeFields
<1> HIDE DEF m
<1> QED BY <1>2, <1>3, <1>4 DEF c

-----------------------------------------------------------------------------
(* What the steps do *)

\* Only deployer d moves.
Moves(d) ==
    /\ pc' \in [Deployer -> Step] /\ DOMAIN job' = Deployer
    /\ \A q \in Deployer : q # d => pc'[q] = pc[q] /\ job'[q] = job[q]

\* d's job but for some fields.
JobKept(d, changed) ==
    /\ DOMAIN job'[d] = JobFields
    /\ \A f \in JobFields \ changed : job'[d][f] = job[d][f]

LEMMA KeptFields ==
    ASSUME NEW d, NEW changed, JobKept(d, changed)
    PROVE  /\ "target" \notin changed => job'[d].target = job[d].target
           /\ "todo" \notin changed => job'[d].todo = job[d].todo
           /\ "cur" \notin changed => job'[d].cur = job[d].cur
           /\ "synced" \notin changed => job'[d].synced = job[d].synced
           /\ "records" \notin changed => job'[d].records = job[d].records
           /\ "bak" \notin changed => job'[d].bak = job[d].bak
           /\ "cbak" \notin changed => job'[d].cbak = job[d].cbak
           /\ "restart" \notin changed => job'[d].restart = job[d].restart
           /\ "restore" \notin changed => job'[d].restore = job[d].restore
           /\ "err" \notin changed => job'[d].err = job[d].err
BY DEF JobKept, JobFields

\* A job that has just been made.
NewShape(d) ==
    /\ DOMAIN job'[d] = JobFields /\ job'[d].target \in Version
    /\ job'[d].todo = Rendered[job'[d].target] /\ job'[d].records = {} /\ job'[d].cur = {}
    /\ job'[d].restart = {} /\ job'[d].restore = {} /\ job'[d].err = "none"
    /\ job'[d].bak \in [Iface -> Backup] /\ job'[d].cbak \in Backup

LEMMA NewJobFacts ==
    ASSUME Shapes, NEW d \in Deployer, NEW v \in Version, SetJob(d, NewJob(v))
    PROVE  DOMAIN job' = Deployer /\ (\A q \in Deployer : q # d => job'[q] = job[q]) /\ NewShape(d)
<1>1. /\ DOMAIN job' = Deployer /\ (\A q \in Deployer : q # d => job'[q] = job[q])
      /\ job'[d] = NewJob(v)
  BY DEF SetJob, Shapes
<1>2. /\ DOMAIN NewJob(v) = JobFields /\ NewJob(v).target = v /\ NewJob(v).todo = Rendered[v]
      /\ NewJob(v).records = {} /\ NewJob(v).cur = {} /\ NewJob(v).restart = {}
      /\ NewJob(v).restore = {} /\ NewJob(v).err = "none" /\ NewJob(v).cbak = NoPath
      /\ NewJob(v).bak = [i \in Iface |-> NoPath]
  BY DEF NewJob, JobFields
<1> QED BY <1>1, <1>2 DEF NewShape, Backup

LEMMA MinimalVersion == Minimal \in Version /\ Goals \subseteq Version
BY VersionAssumption

LEMMA EndFacts ==
    ASSUME Shapes, NEW d \in Deployer, End(d)
    PROVE  Moves(d) /\ pc'[d] = "idle" /\ NewShape(d)
<1>1. DOMAIN job' = Deployer /\ (\A q \in Deployer : q # d => job'[q] = job[q]) /\ NewShape(d)
  BY NewJobFacts, MinimalVersion DEF End
<1>2. pc' = [pc EXCEPT ![d] = "idle"]
  BY DEF End, Goto
<1> QED BY <1>1, <1>2 DEF Shapes, Moves, Step

LEMMA GotoFacts ==
    ASSUME Shapes, NEW d \in Deployer, NEW s \in Step, Goto(d, s),
           UNCHANGED job
    PROVE  Moves(d) /\ pc'[d] = s /\ UNCHANGED job
BY DEF Shapes, Goto, Moves

LEMMA FailFacts ==
    ASSUME Shapes, NEW d \in Deployer, NEW s \in Step, NEW e, FailTo(d, s, e)
    PROVE  Moves(d) /\ pc'[d] = s /\ JobKept(d, {"err"}) /\ job'[d].err = e
BY DEF Shapes, FailTo, Goto, SetJob, Moves, JobKept, JobShape, JobFields

\* A command that failed was counted, then or when its context was cancelled.
LEMMA Dirty ==
    ASSUME FaultsCounted, NEW d \in Deployer, CtxErr(d) \/ RunErr
    PROVE  faults' # 0
BY DEF FaultsCounted, CtxErr, RunErr, Fault

LEMMA RecoverFacts ==
    ASSUME Shapes, NEW d \in Deployer, Recover(d)
    PROVE  /\ Moves(d)
           /\ \/ /\ job[d].cbak = NoPath /\ pc'[d] = "restore"
                 /\ JobKept(d, {"err"}) /\ job'[d].err = "deploy"
              \/ job[d].cbak # NoPath /\ pc'[d] = "rollback" /\ UNCHANGED job
<1>1. CASE job[d].cbak = NoPath /\ FailTo(d, "restore", "deploy")
  BY <1>1, FailFacts DEF Step
<1>2. CASE job[d].cbak # NoPath /\ Goto(d, "rollback") /\ UNCHANGED job
  BY <1>2, GotoFacts DEF Step
<1> QED BY <1>1, <1>2 DEF Recover

LEMMA InstallFacts ==
    ASSUME Shapes, NEW d \in Deployer, NEW v \in Goals, Install(d, v)
    PROVE  /\ pc[d] = "idle" /\ UNCHANGED lock /\ UNCHANGED before
           /\ lock # Nobody => overwritten'
           /\ node'.cfg \in {node.cfg, Torn, Minimal} /\ node'.run = node.run
           /\ node'.conf = node.conf /\ node'.live = node.live
           /\ Moves(d) /\ NewShape(d) /\ pc'[d] \in {"start", "idle"} /\ IsNode(node)'
<1>1. /\ pc[d] = "idle" /\ UNCHANGED <<lock, before>> /\ (lock # Nobody => overwritten')
  BY DEF Install
<1>2. \E c \in {node.cfg, Torn, Minimal} : node' = [node EXCEPT !.cfg = c]
  BY DEF Install
<1>3. {node.cfg, Torn, Minimal} \subseteq FileContent
  BY MinimalVersion DEF Shapes, IsNode, FileContent
<1>4. /\ IsNode(node)' /\ node'.cfg \in {node.cfg, Torn, Minimal} /\ node'.run = node.run
      /\ node'.conf = node.conf /\ node'.live = node.live
  BY <1>2, <1>3, WithCfg DEF Shapes
<1>5. CASE Goto(d, "start") /\ SetJob(d, NewJob(v))
  <2>1. DOMAIN job' = Deployer /\ (\A q \in Deployer : q # d => job'[q] = job[q]) /\ NewShape(d)
    BY <1>5, NewJobFacts, MinimalVersion
  <2>2. pc' = [pc EXCEPT ![d] = "start"]
    BY <1>5 DEF Goto
  <2> QED BY <1>1, <1>4, <2>1, <2>2 DEF Shapes, Moves, Step
<1>6. CASE End(d)
  BY <1>1, <1>4, <1>6, EndFacts
<1> QED BY <1>5, <1>6 DEF Install

LEMMA StartUnitFacts ==
    ASSUME Shapes, NEW d \in Deployer, StartUnit(d)
    PROVE  /\ pc[d] = "start" /\ UNCHANGED <<lock, before, overwritten>> /\ Moves(d)
           /\ \/ pc'[d] = "ready" /\ UNCHANGED job
              \/ pc'[d] = "idle" /\ NewShape(d)
           /\ IsNode(node)' /\ node'.cfg = node.cfg /\ node'.conf = node.conf /\ node'.live = node.live
           /\ node'.run \in {node.run, StartSingBox(node.cfg)}
<1>1. pc[d] = "start" /\ UNCHANGED <<lock, before, overwritten>>
  BY DEF StartUnit
<1>2. node' \in {node, [node EXCEPT !.run = StartSingBox(node.cfg)]}
  BY DEF StartUnit
<1>3. /\ IsNode(node)' /\ node'.cfg = node.cfg /\ node'.conf = node.conf /\ node'.live = node.live
      /\ node'.run \in {node.run, StartSingBox(node.cfg)}
  <2> DEFINE m == [node EXCEPT !.run = StartSingBox(node.cfg)]
  <2>1. IsNode(node) /\ StartSingBox(node.cfg) \in Running
    BY Started DEF Shapes
  <2>2. /\ IsNode(m) /\ m.cfg = node.cfg /\ m.conf = node.conf /\ m.live = node.live
        /\ m.run = StartSingBox(node.cfg)
    BY <2>1, WithRun
  <2> HIDE DEF m
  <2>3. CASE node' = node
    BY <2>1, <2>3 DEF IsNode
  <2>4. CASE node' = m
    BY <2>2, <2>4 DEF IsNode
  <2> QED BY <1>2, <2>3, <2>4 DEF m
<1>4. (Goto(d, "ready") /\ UNCHANGED job) \/ End(d)
  BY DEF StartUnit
<1> QED BY <1>1, <1>3, <1>4, GotoFacts, EndFacts DEF Step

LEMMA LockFacts ==
    ASSUME Shapes, NEW d \in Deployer, Lock(d)
    PROVE  /\ pc[d] = "ready" /\ lock = Nobody /\ lock' = d /\ before' = node
           /\ Moves(d) /\ UNCHANGED <<node, job, faults>>
           /\ pc'[d] = IF Rendered[Target(d)] = {} THEN "teardown" ELSE "prepare"
BY GotoFacts DEF Lock, Step

LEMMA PrepareFacts ==
    ASSUME Shapes, FaultsCounted, NEW d \in Deployer, Prepare(d)
    PROVE  /\ pc[d] = "prepare" /\ UNCHANGED <<node, lock, before, overwritten>> /\ Moves(d)
           /\ \/ pc'[d] = "sync" /\ UNCHANGED job
              \/ /\ pc'[d] = "return" /\ faults' # 0
                 /\ JobKept(d, {"err"}) /\ job'[d].err = "other"
<1>1. pc[d] = "prepare" /\ UNCHANGED <<node, lock, before, overwritten>>
  BY DEF Prepare
<1>2. \/ Goto(d, "sync") /\ UNCHANGED job
      \/ CtxErr(d) /\ FailTo(d, "return", "other")
  BY DEF Prepare
<1> QED BY <1>1, <1>2, GotoFacts, FailFacts, Dirty DEF Step

LEMMA SetJobFacts ==
    ASSUME Shapes, NEW d \in Deployer, NEW j, SetJob(d, j),
           \/ UNCHANGED pc
           \/ \E s \in Step : Goto(d, s)
    PROVE  Moves(d) /\ job'[d] = j
BY DEF Shapes, SetJob, Goto, Moves

LEMMA PeerSyncFacts ==
    ASSUME Shapes, NEW d \in Deployer, PeerSync(d)
    PROVE  /\ pc[d] = "sync" /\ pc'[d] = "conf" /\ UNCHANGED <<lock, before, overwritten>> /\ Moves(d)
           /\ IsNode(node)' /\ node'.cfg = node.cfg /\ node'.run = node.run /\ node'.conf = node.conf
           /\ \E i \in job[d].todo :
                 /\ JobKept(d, {"cur", "synced"}) /\ job'[d].cur = {i}
                 /\ job'[d].synced => node'.live[i] = Target(d)
                 /\ \A j \in Iface : j # i => node'.live[j] = node.live[j]
<1>1. pc[d] = "sync" /\ Goto(d, "conf") /\ UNCHANGED <<lock, before, overwritten>>
  BY DEF PeerSync
<1>2. PICK i \in job[d].todo :
         \/ /\ node' = [node EXCEPT !.live[i] = Target(d)]
            /\ SetJob(d, [job[d] EXCEPT !.cur = {i}, !.synced = TRUE])
         \/ /\ node' = node \/ node' = [node EXCEPT !.live[i] = Torn]
            /\ SetJob(d, [job[d] EXCEPT !.cur = {i}, !.synced = FALSE])
  BY Zenon DEF PeerSync
<1>3. /\ IsNode(node) /\ i \in Iface /\ Target(d) \in Running /\ Torn \in Running
      /\ DOMAIN job[d] = JobFields
  BY DEF Shapes, JobShape, Target, Running
<1>4. "conf" \in Step
  BY DEF Step
<1>5. CASE /\ node' = [node EXCEPT !.live[i] = Target(d)]
           /\ SetJob(d, [job[d] EXCEPT !.cur = {i}, !.synced = TRUE])
  <2> DEFINE j == [job[d] EXCEPT !.cur = {i}, !.synced = TRUE]
  <2>1. DOMAIN j = JobFields /\ j.cur = {i} /\ \A f \in JobFields \ {"cur", "synced"} : j[f] = job[d][f]
    BY <1>3 DEF JobFields
  <2> HIDE DEF j
  <2>2. Moves(d) /\ job'[d] = j
    BY <1>1, <1>4, <1>5, SetJobFacts DEF j
  <2>3. /\ IsNode(node)' /\ node'.cfg = node.cfg /\ node'.run = node.run /\ node'.conf = node.conf
        /\ node'.live[i] = Target(d) /\ \A k \in Iface : k # i => node'.live[k] = node.live[k]
    BY <1>3, <1>5, WithLive
  <2>4. pc'[d] = "conf"
    BY <1>1 DEF Goto, Shapes
  <2> QED BY <1>1, <2>1, <2>2, <2>3, <2>4 DEF JobKept
<1>6. CASE /\ node' = node \/ node' = [node EXCEPT !.live[i] = Torn]
           /\ SetJob(d, [job[d] EXCEPT !.cur = {i}, !.synced = FALSE])
  <2> DEFINE j == [job[d] EXCEPT !.cur = {i}, !.synced = FALSE]
  <2>1. /\ DOMAIN j = JobFields /\ j.cur = {i} /\ ~j.synced
        /\ \A f \in JobFields \ {"cur", "synced"} : j[f] = job[d][f]
    BY <1>3 DEF JobFields
  <2> HIDE DEF j
  <2>2. Moves(d) /\ job'[d] = j
    BY <1>1, <1>4, <1>6, SetJobFacts DEF j
  <2>3. /\ IsNode(node)' /\ node'.cfg = node.cfg /\ node'.run = node.run /\ node'.conf = node.conf
        /\ \A k \in Iface : k # i => node'.live[k] = node.live[k]
    <3> DEFINE m == [node EXCEPT !.live[i] = Torn]
    <3>1. /\ IsNode(m) /\ m.cfg = node.cfg /\ m.run = node.run /\ m.conf = node.conf
          /\ \A k \in Iface : k # i => m.live[k] = node.live[k]
      BY <1>3, WithLive
    <3> HIDE DEF m
    <3>2. CASE node' = node
      BY <1>3, <3>2 DEF IsNode
    <3>3. CASE node' = m
      BY <3>1, <3>3 DEF IsNode
    <3> QED BY <1>6, <3>2, <3>3 DEF m
  <2>4. pc'[d] = "conf"
    BY <1>1 DEF Goto, Shapes
  <2> QED BY <1>1, <2>1, <2>2, <2>3, <2>4 DEF JobKept
<1> QED BY <1>2, <1>5, <1>6

LEMMA BackupConfFacts ==
    ASSUME Shapes, FaultsCounted, NEW d \in Deployer, BackupConf(d)
    PROVE  /\ pc[d] = "conf" /\ pc'[d] = "upconf" /\ UNCHANGED <<node, lock, before, overwritten>> /\ Moves(d)
           /\ JobKept(d, {"bak"}) /\ job'[d].bak \in [Iface -> Backup]
           /\ \E i \in job[d].cur :
                 /\ \A j \in Iface : j # i => job'[d].bak[j] = job[d].bak[j]
                 /\ faults' # 0 \/ job'[d].bak[i] = node.conf[i]
<1>1. pc[d] = "conf" /\ Goto(d, "upconf") /\ UNCHANGED <<node, lock, before, overwritten>>
  BY DEF BackupConf
<1>2. PICK i \in job[d].cur : \E b \in {node.conf[i], NoPath} :
         /\ SetJob(d, [job[d] EXCEPT !.bak[i] = b])
         /\ b = node.conf[i] \/ RunErr
  BY DEF BackupConf
<1>3. PICK b \in {node.conf[i], NoPath} :
         /\ SetJob(d, [job[d] EXCEPT !.bak[i] = b])
         /\ b = node.conf[i] \/ RunErr
  BY <1>2
<1>4. /\ i \in Iface /\ DOMAIN job[d] = JobFields /\ job[d].bak \in [Iface -> Backup] /\ b \in Backup
  BY DEF Shapes, JobShape, IsNode, Backup
<1> DEFINE j == [job[d] EXCEPT !.bak[i] = b]
<1>5. /\ DOMAIN j = JobFields /\ j.bak \in [Iface -> Backup] /\ j.bak[i] = b
      /\ \A k \in Iface : k # i => j.bak[k] = job[d].bak[k]
      /\ \A f \in JobFields \ {"bak"} : j[f] = job[d][f]
  BY <1>4 DEF JobFields
<1> HIDE DEF j
<1>6. "upconf" \in Step
  BY DEF Step
<1>7. Moves(d) /\ job'[d] = j
  BY <1>1, <1>3, <1>6, SetJobFacts DEF j
<1>8. pc'[d] = "upconf"
  BY <1>1 DEF Goto, Shapes
<1>9. faults' # 0 \/ b = node.conf[i]
  BY <1>3, Dirty
<1> QED BY <1>1, <1>5, <1>7, <1>8, <1>9 DEF JobKept

LEMMA PushConfFacts ==
    ASSUME Shapes, FaultsCounted, NEW d \in Deployer, PushConf(d)
    PROVE  /\ pc[d] = "upconf" /\ UNCHANGED <<lock, before, overwritten>> /\ Moves(d) /\ IsNode(node)'
           /\ \/ \E i \in job[d].cur :
                   /\ node'.cfg = node.cfg /\ node'.run = node.run /\ node'.live = node.live
                   /\ node'.conf[i] = Target(d)
                   /\ \A j \in Iface : j # i => node'.conf[j] = node.conf[j]
                   /\ JobKept(d, {"todo", "cur", "records", "restart"})
                   /\ job'[d].todo = job[d].todo \ {i} /\ job'[d].cur = {}
                   /\ job'[d].records = job[d].records \cup {i}
                   /\ job'[d].restart = IF job[d].synced THEN job[d].restart ELSE job[d].restart \cup {i}
                   /\ pc'[d] = IF job[d].todo = {i} THEN "services" ELSE "sync"
              \/ /\ faults' # 0 /\ pc'[d] = "unconf"
                 /\ JobKept(d, {"err"}) /\ job'[d].err = "other"
<1>1. pc[d] = "upconf" /\ UNCHANGED <<lock, before, overwritten>>
  BY DEF PushConf
<1>2. PICK i \in job[d].cur :
          \/ /\ node' = [node EXCEPT !.conf[i] = Target(d)]
             /\ SetJob(d, [job[d] EXCEPT
                    !.todo = @ \ {i},
                    !.cur = {},
                    !.records = @ \cup {i},
                    !.restart = IF job[d].synced THEN @ ELSE @ \cup {i}])
             /\ Goto(d, IF job[d].todo = {i} THEN "services" ELSE "sync")
          \/ /\ CtxErr(d)
             /\ \E c \in {node.conf[i], Torn, Target(d)} :
                   node' = [node EXCEPT !.conf[i] = c]
             /\ FailTo(d, "unconf", "other")
  BY Zenon DEF PushConf
<1>3. /\ IsNode(node) /\ i \in Iface /\ {node.conf[i], Torn, Target(d)} \subseteq FileContent
      /\ DOMAIN job[d] = JobFields
  BY DEF Shapes, JobShape, IsNode, Target, FileContent
<1>4. CASE /\ node' = [node EXCEPT !.conf[i] = Target(d)]
           /\ SetJob(d, [job[d] EXCEPT
                    !.todo = @ \ {i},
                    !.cur = {},
                    !.records = @ \cup {i},
                    !.restart = IF job[d].synced THEN @ ELSE @ \cup {i}])
           /\ Goto(d, IF job[d].todo = {i} THEN "services" ELSE "sync")
  <2> DEFINE td == job[d].todo \ {i}
             rc == job[d].records \cup {i}
             rs == IF job[d].synced THEN job[d].restart ELSE job[d].restart \cup {i}
             nx == IF job[d].todo = {i} THEN "services" ELSE "sync"
             j  == [job[d] EXCEPT !.todo = td, !.cur = {}, !.records = rc, !.restart = rs]
  <2>1. SetJob(d, j) /\ Goto(d, nx) /\ nx \in Step
    BY <1>4 DEF Step
  <2> HIDE DEF td, rc, rs, nx
  <2>2. /\ DOMAIN j = JobFields /\ j.todo = td /\ j.cur = {} /\ j.records = rc /\ j.restart = rs
        /\ \A f \in JobFields \ {"todo", "cur", "records", "restart"} : j[f] = job[d][f]
    BY <1>3 DEF JobFields
  <2> HIDE DEF j
  <2>3. Moves(d) /\ job'[d] = j
    BY <2>1, SetJobFacts
  <2>4. pc'[d] = nx
    BY <2>1 DEF Goto, Shapes
  <2>5. /\ IsNode(node)' /\ node'.cfg = node.cfg /\ node'.run = node.run /\ node'.live = node.live
        /\ node'.conf[i] = Target(d) /\ \A k \in Iface : k # i => node'.conf[k] = node.conf[k]
    BY <1>3, <1>4, WithConf
  <2> QED BY <1>1, <2>2, <2>3, <2>4, <2>5 DEF JobKept, td, rc, rs, nx
<1>5. CASE /\ CtxErr(d)
           /\ \E c \in {node.conf[i], Torn, Target(d)} :
                   node' = [node EXCEPT !.conf[i] = c]
           /\ FailTo(d, "unconf", "other")
  <2>1. IsNode(node)'
    BY <1>3, <1>5, WithConf
  <2>2. Moves(d) /\ pc'[d] = "unconf" /\ JobKept(d, {"err"}) /\ job'[d].err = "other"
    BY <1>5, FailFacts DEF Step
  <2> QED BY <1>1, <1>5, <2>1, <2>2, Dirty
<1> QED BY <1>2, <1>4, <1>5

LEMMA EnableServiceFacts ==
    ASSUME Shapes, FaultsCounted, NEW d \in Deployer, EnableService(d)
    PROVE  /\ pc[d] = "services" /\ UNCHANGED <<lock, before, overwritten>> /\ Moves(d) /\ IsNode(node)'
           /\ node'.cfg = node.cfg /\ node'.run = node.run /\ node'.conf = node.conf
           /\ \/ job[d].restart = {} /\ pc'[d] = "teardown" /\ UNCHANGED <<node, job>>
              \/ \E i \in job[d].restart :
                   /\ \A j \in Iface : j # i => node'.live[j] = node.live[j]
                   /\ \/ /\ node'.live[i] = StartAwg(node.conf[i]) /\ node'.live[i] # Down
                         /\ JobKept(d, {"restart"}) /\ job'[d].restart = job[d].restart \ {i}
                         /\ pc'[d] = "services"
                      \/ /\ pc'[d] = "unconf" /\ JobKept(d, {"err"}) /\ job'[d].err = "other"
<1>1. pc[d] = "services" /\ UNCHANGED <<lock, before, overwritten>>
  BY DEF EnableService
<1>2. CASE job[d].restart = {} /\ Goto(d, "teardown") /\ UNCHANGED <<node, job>>
  BY <1>1, <1>2, GotoFacts DEF Step, Shapes
<1>3. ASSUME NEW i \in job[d].restart,
             \/ /\ node' = [node EXCEPT !.live[i] = StartAwg(node.conf[i])]
                /\ node'.live[i] # Down
                /\ SetJob(d, [job[d] EXCEPT !.restart = @ \ {i}])
                /\ UNCHANGED pc
             \/ /\ node' \in {node, [node EXCEPT !.live[i] = StartAwg(node.conf[i])]}
                /\ FailTo(d, "unconf", "other")
      PROVE  /\ Moves(d) /\ IsNode(node)'
             /\ node'.cfg = node.cfg /\ node'.run = node.run /\ node'.conf = node.conf
             /\ \A j \in Iface : j # i => node'.live[j] = node.live[j]
             /\ \/ /\ node'.live[i] = StartAwg(node.conf[i]) /\ node'.live[i] # Down
                   /\ JobKept(d, {"restart"}) /\ job'[d].restart = job[d].restart \ {i}
                   /\ pc'[d] = "services"
                \/ /\ pc'[d] = "unconf" /\ JobKept(d, {"err"}) /\ job'[d].err = "other"
  <2>1. IsNode(node) /\ i \in Iface /\ DOMAIN job[d] = JobFields /\ StartAwg(node.conf[i]) \in Running
    BY Started DEF Shapes, JobShape
  <2>2. /\ IsNode(node)' /\ node'.cfg = node.cfg /\ node'.run = node.run /\ node'.conf = node.conf
        /\ \A k \in Iface : k # i => node'.live[k] = node.live[k]
        /\ node' = [node EXCEPT !.live[i] = StartAwg(node.conf[i])] => node'.live[i] = StartAwg(node.conf[i])
    <3> DEFINE m == [node EXCEPT !.live[i] = StartAwg(node.conf[i])]
    <3>1. /\ IsNode(m) /\ m.cfg = node.cfg /\ m.run = node.run /\ m.conf = node.conf
          /\ \A k \in Iface : k # i => m.live[k] = node.live[k]
          /\ m.live[i] = StartAwg(node.conf[i])
      BY <2>1, WithLive
    <3> HIDE DEF m
    <3>2. CASE node' = m
      BY <3>1, <3>2 DEF IsNode
    <3>3. CASE node' = node /\ node' # m
      BY <2>1, <3>3 DEF IsNode, m
    <3>4. node' \in {node, m}
      BY <1>3 DEF m
    <3> QED BY <3>2, <3>3, <3>4
  <2>3. CASE /\ node' = [node EXCEPT !.live[i] = StartAwg(node.conf[i])]
             /\ node'.live[i] # Down
             /\ SetJob(d, [job[d] EXCEPT !.restart = @ \ {i}])
             /\ UNCHANGED pc
    <3> DEFINE j == [job[d] EXCEPT !.restart = @ \ {i}]
    <3>1. /\ DOMAIN j = JobFields /\ j.restart = job[d].restart \ {i}
          /\ \A f \in JobFields \ {"restart"} : j[f] = job[d][f]
      BY <2>1 DEF JobFields
    <3> HIDE DEF j
    <3>2. Moves(d) /\ job'[d] = j
      BY <2>3, SetJobFacts DEF j
    <3> QED BY <1>1, <2>2, <2>3, <3>1, <3>2 DEF JobKept
  <2>4. CASE FailTo(d, "unconf", "other")
    BY <2>2, <2>4, FailFacts DEF Step
  <2> QED BY <1>3, <2>3, <2>4
<1>4. \/ job[d].restart = {} /\ Goto(d, "teardown") /\ UNCHANGED <<node, job>>
      \/ \E i \in job[d].restart :
             \/ /\ node' = [node EXCEPT !.live[i] = StartAwg(node.conf[i])]
                /\ node'.live[i] # Down
                /\ SetJob(d, [job[d] EXCEPT !.restart = @ \ {i}])
                /\ UNCHANGED pc
             \/ /\ node' \in {node, [node EXCEPT !.live[i] = StartAwg(node.conf[i])]}
                /\ FailTo(d, "unconf", "other")
  BY Zenon DEF EnableService
<1> QED BY <1>1, <1>2, <1>3, <1>4

LEMMA TeardownFacts ==
    ASSUME Shapes, FaultsCounted, NEW d \in Deployer, Teardown(d)
    PROVE  /\ pc[d] = "teardown" /\ pc'[d] = "backup" /\ UNCHANGED <<lock, before, overwritten>> /\ Moves(d)
           /\ IsNode(node)' /\ node'.cfg = node.cfg /\ node'.run = node.run /\ node'.conf = node.conf
           /\ JobKept(d, {"restore"}) /\ job'[d].restore \subseteq TornDown[Target(d)]
           /\ \A i \in Iface \ TornDown[Target(d)] : node'.live[i] = node.live[i]
           /\ \/ faults' # 0
              \/ /\ job'[d].restore = {i \in TornDown[Target(d)] : node.live[i] # Down}
                 /\ \A i \in TornDown[Target(d)] : node'.live[i] = Down
<1> DEFINE ifaces == TornDown[Target(d)]
           stop(S) == [node EXCEPT !.live = [i \in Iface |-> IF i \in S THEN Down ELSE @[i]]]
<1>1. pc[d] = "teardown" /\ Goto(d, "backup") /\ UNCHANGED <<lock, before, overwritten>>
  BY DEF Teardown
<1>2. \E S \in SUBSET ifaces : \E K \in SUBSET S :
         /\ node' = stop(S)
         /\ SetJob(d, [job[d] EXCEPT !.restore = {i \in K : node.live[i] # Down}])
         /\ CtxErr(d) \/ (S = ifaces /\ K = ifaces)
  <2>1. CASE /\ node' = stop(ifaces)
             /\ SetJob(d, [job[d] EXCEPT !.restore = {i \in ifaces : node.live[i] # Down}])
    BY <2>1
  <2>2. CASE /\ CtxErr(d)
             /\ \E stopped \in SUBSET ifaces : \E known \in SUBSET stopped :
                    /\ node' = stop(stopped)
                    /\ SetJob(d, [job[d] EXCEPT
                           !.restore = {i \in known : node.live[i] # Down}])
    BY <2>2
  <2> QED BY <2>1, <2>2, Zenon DEF Teardown
<1>3a. PICK S \in SUBSET ifaces : \E K \in SUBSET S :
         /\ node' = stop(S)
         /\ SetJob(d, [job[d] EXCEPT !.restore = {i \in K : node.live[i] # Down}])
         /\ CtxErr(d) \/ (S = ifaces /\ K = ifaces)
  BY <1>2
<1>3. PICK K \in SUBSET S :
         /\ node' = stop(S)
         /\ SetJob(d, [job[d] EXCEPT !.restore = {i \in K : node.live[i] # Down}])
         /\ CtxErr(d) \/ (S = ifaces /\ K = ifaces)
  BY <1>3a
<1>4. IsNode(node) /\ ifaces \subseteq Iface /\ DOMAIN job[d] = JobFields
  BY VersionAssumption DEF Shapes, JobShape, Target
<1> DEFINE l == [i \in Iface |-> IF i \in S THEN Down ELSE node.live[i]]
           R == {i \in K : node.live[i] # Down}
           j == [job[d] EXCEPT !.restore = R]
<1>5. l \in [Iface -> Running]
  BY <1>4 DEF IsNode, Running
<1>6. node' = [node EXCEPT !.live = l]
  BY <1>3, <1>4 DEF IsNode, NodeFields
<1>7. \A i \in Iface : l[i] = IF i \in S THEN Down ELSE node.live[i]
  OBVIOUS
<1> HIDE DEF l
<1>8. /\ IsNode(node)' /\ node'.cfg = node.cfg /\ node'.run = node.run /\ node'.conf = node.conf
      /\ node'.live = l
  BY <1>4, <1>5, <1>6, WithLives
<1> HIDE DEF R
<1>9. DOMAIN j = JobFields /\ j.restore = R /\ \A f \in JobFields \ {"restore"} : j[f] = job[d][f]
  BY <1>4 DEF JobFields
<1> HIDE DEF j
<1>10. Moves(d) /\ job'[d] = j
  <2>1. "backup" \in Step
    BY DEF Step
  <2> QED BY <1>1, <1>3, <2>1, SetJobFacts DEF j, R
<1>11. pc'[d] = "backup"
  BY <1>1 DEF Goto, Shapes
<1>12. R \subseteq ifaces /\ (faults' # 0 \/ (S = ifaces /\ R = {i \in ifaces : node.live[i] # Down}))
  BY <1>3, Dirty DEF R
<1> QED BY <1>1, <1>4, <1>7, <1>8, <1>9, <1>10, <1>11, <1>12 DEF JobKept

LEMMA BackupConfigFacts ==
    ASSUME Shapes, FaultsCounted, NEW d \in Deployer, BackupConfig(d)
    PROVE  /\ pc[d] = "backup" /\ pc'[d] = "assets" /\ UNCHANGED <<node, lock, before, overwritten>> /\ Moves(d)
           /\ JobKept(d, {"cbak"}) /\ job'[d].cbak \in Backup
           /\ faults' # 0 \/ job'[d].cbak = node.cfg
<1>1. pc[d] = "backup" /\ Goto(d, "assets") /\ UNCHANGED <<node, lock, before, overwritten>>
  BY DEF BackupConfig
<1>2. PICK b \in {node.cfg, NoPath} :
         SetJob(d, [job[d] EXCEPT !.cbak = b]) /\ (b = node.cfg \/ RunErr)
  BY DEF BackupConfig
<1> DEFINE j == [job[d] EXCEPT !.cbak = b]
<1>3. DOMAIN j = JobFields /\ j.cbak = b /\ \A f \in JobFields \ {"cbak"} : j[f] = job[d][f]
  BY DEF Shapes, JobShape, JobFields
<1>4. b \in Backup
  BY DEF Shapes, IsNode, Backup
<1> HIDE DEF j
<1>5. Moves(d) /\ job'[d] = j
  <2>1. "assets" \in Step
    BY DEF Step
  <2> QED BY <1>1, <1>2, <2>1, SetJobFacts DEF j
<1>6. pc'[d] = "assets"
  BY <1>1 DEF Goto, Shapes
<1> QED BY <1>1, <1>2, <1>3, <1>4, <1>5, <1>6, Dirty DEF JobKept

LEMMA PushAssetsFacts ==
    ASSUME Shapes, NEW d \in Deployer, PushAssets(d)
    PROVE  /\ pc[d] = "assets" /\ UNCHANGED <<node, lock, before, overwritten>> /\ Moves(d)
           /\ \/ pc'[d] = "upload" /\ UNCHANGED job
              \/ pc'[d] = "restore" /\ JobKept(d, {"err"}) /\ job'[d].err = "other"
<1>1. pc[d] = "assets" /\ UNCHANGED <<node, lock, before, overwritten>>
  BY DEF PushAssets
<1>2. (Goto(d, "upload") /\ UNCHANGED job) \/ FailTo(d, "restore", "other")
  BY DEF PushAssets
<1> QED BY <1>1, <1>2, GotoFacts, FailFacts DEF Step

LEMMA UploadFacts ==
    ASSUME Shapes, FaultsCounted, NEW d \in Deployer, Upload(d)
    PROVE  /\ pc[d] = "upload" /\ UNCHANGED <<lock, before, overwritten>> /\ Moves(d)
           /\ IsNode(node)' /\ node'.run = node.run /\ node'.conf = node.conf /\ node'.live = node.live
           /\ \/ pc'[d] = "check" /\ UNCHANGED job /\ node'.cfg = Target(d)
              \/ /\ pc'[d] = "restore" /\ faults' # 0
                 /\ JobKept(d, {"err"}) /\ job'[d].err = "other"
<1>1. pc[d] = "upload" /\ UNCHANGED <<lock, before, overwritten>>
  BY DEF Upload
<1>2. IsNode(node) /\ {node.cfg, Torn, Target(d)} \subseteq FileContent
  BY DEF Shapes, JobShape, IsNode, Target, FileContent
<1>3. CASE node' = [node EXCEPT !.cfg = Target(d)] /\ Goto(d, "check") /\ UNCHANGED job
  BY <1>1, <1>2, <1>3, WithCfg, GotoFacts DEF Step
<1>4. CASE /\ CtxErr(d) /\ FailTo(d, "restore", "other")
           /\ \E c \in {node.cfg, Torn, Target(d)} : node' = [node EXCEPT !.cfg = c]
  BY <1>1, <1>2, <1>4, WithCfg, FailFacts, Dirty DEF Step
<1> QED BY <1>3, <1>4 DEF Upload

\* How Recover goes on.
Recovers(d) ==
    \/ job[d].cbak = NoPath /\ pc'[d] = "restore" /\ JobKept(d, {"err"}) /\ job'[d].err = "deploy"
    \/ job[d].cbak # NoPath /\ pc'[d] = "rollback" /\ UNCHANGED job

LEMMA CheckFacts ==
    ASSUME Shapes, NEW d \in Deployer, Check(d)
    PROVE  /\ pc[d] = "check" /\ UNCHANGED <<node, lock, before, overwritten>> /\ Moves(d)
           /\ (pc'[d] = "restart" /\ UNCHANGED job) \/ Recovers(d)
<1>1. pc[d] = "check" /\ UNCHANGED <<node, lock, before, overwritten>>
  BY DEF Check
<1>2. (Goto(d, "restart") /\ UNCHANGED job) \/ Recover(d)
  BY DEF Check
<1> QED BY <1>1, <1>2, GotoFacts, RecoverFacts DEF Step, Recovers

LEMMA RestartFacts ==
    ASSUME Shapes, NEW d \in Deployer, Restart(d)
    PROVE  /\ pc[d] = "restart" /\ UNCHANGED <<lock, before, overwritten>> /\ Moves(d)
           /\ IsNode(node)' /\ node'.cfg = node.cfg /\ node'.conf = node.conf /\ node'.live = node.live
           /\ \/ pc'[d] = "probe" /\ UNCHANGED job /\ node'.run = StartSingBox(node.cfg)
              \/ Recovers(d)
<1> DEFINE m == [node EXCEPT !.run = StartSingBox(node.cfg)]
<1>1. pc[d] = "restart" /\ UNCHANGED <<lock, before, overwritten>>
  BY DEF Restart
<1>2. \/ node' = m /\ Goto(d, "probe") /\ UNCHANGED job
      \/ node' \in {node, m} /\ Recover(d)
  BY DEF Restart
<1>3. /\ IsNode(m) /\ m.cfg = node.cfg /\ m.conf = node.conf /\ m.live = node.live
      /\ m.run = StartSingBox(node.cfg)
  BY Started, WithRun DEF Shapes
<1> HIDE DEF m
<1>4. CASE node' = m /\ Goto(d, "probe") /\ UNCHANGED job
  BY <1>1, <1>3, <1>4, GotoFacts DEF Step, IsNode
<1>5. CASE node' = m /\ Recover(d)
  BY <1>1, <1>3, <1>5, RecoverFacts DEF Recovers, IsNode
<1>6. CASE node' = node /\ Recover(d)
  BY <1>1, <1>6, RecoverFacts DEF Recovers, Shapes, IsNode
<1> QED BY <1>2, <1>4, <1>5, <1>6

LEMMA ProbeFacts ==
    ASSUME Shapes, NEW d \in Deployer, Probe(d)
    PROVE  /\ pc[d] = "probe" /\ UNCHANGED <<node, lock, before, overwritten>> /\ Moves(d)
           /\ \/ pc'[d] = "return" /\ UNCHANGED job /\ node.run # Down
              \/ Recovers(d)
<1>1. pc[d] = "probe" /\ UNCHANGED <<node, lock, before, overwritten>>
  BY DEF Probe
<1>2. (Goto(d, "return") /\ UNCHANGED job /\ node.run # Down) \/ Recover(d)
  BY DEF Probe
<1> QED BY <1>1, <1>2, GotoFacts, RecoverFacts DEF Step, Recovers

LEMMA RollbackFacts ==
    ASSUME Shapes, FaultsCounted, NEW d \in Deployer, Rollback(d)
    PROVE  /\ pc[d] = "rollback" /\ pc'[d] = "restore" /\ UNCHANGED <<lock, before, overwritten>> /\ Moves(d)
           /\ JobKept(d, {"err"}) /\ job'[d].err # "none"
           /\ IsNode(node)' /\ node'.conf = node.conf /\ node'.live = node.live
           /\ \/ faults' # 0
              \/ /\ node'.cfg = Restored(node.cfg, job[d].cbak)
                 /\ node'.run = StartSingBox(node'.cfg)
<1> DEFINE m == RolledBackCfg(node, job[d].cbak)
<1>1. pc[d] = "rollback" /\ UNCHANGED <<lock, before, overwritten>>
  BY DEF Rollback
<1>2. /\ FailTo(d, "restore", "deploy") \/ FailTo(d, "restore", "rollback")
      /\ node' = m \/ (RunErr /\ node' = node)
  BY DEF Rollback
<1>3. job[d].cbak \in FileContent /\ IsNode(node)
  BY <1>1 DEF Shapes, JobShape, Backup
<1>4. /\ IsNode(m) /\ m.conf = node.conf /\ m.live = node.live
      /\ m.cfg = Restored(node.cfg, job[d].cbak) /\ m.run = StartSingBox(m.cfg)
  BY <1>3, CfgRolledBack
<1>5. Moves(d) /\ pc'[d] = "restore" /\ JobKept(d, {"err"}) /\ job'[d].err # "none"
  BY <1>2, FailFacts DEF Step
<1> HIDE DEF m
<1>6. CASE node' = m
  BY <1>1, <1>4, <1>5, <1>6 DEF IsNode
<1>7. CASE RunErr /\ node' = node
  BY <1>1, <1>3, <1>5, <1>7, Dirty DEF IsNode
<1> QED BY <1>2, <1>6, <1>7

LEMMA RestoreInterfaceFacts ==
    ASSUME Shapes, FaultsCounted, NEW d \in Deployer, RestoreInterface(d)
    PROVE  /\ pc[d] = "restore" /\ UNCHANGED <<lock, before, overwritten>> /\ Moves(d)
           /\ IsNode(node)' /\ node'.cfg = node.cfg /\ node'.run = node.run /\ node'.conf = node.conf
           /\ \/ job[d].restore = {} /\ pc'[d] = "unconf" /\ UNCHANGED <<node, job>>
              \/ \E i \in job[d].restore :
                   /\ pc'[d] = "restore"
                   /\ JobKept(d, {"restore"}) /\ job'[d].restore = job[d].restore \ {i}
                   /\ \A j \in Iface : j # i => node'.live[j] = node.live[j]
                   /\ faults' # 0 \/ node'.live[i] = StartAwg(node.conf[i])
<1>1. pc[d] = "restore" /\ UNCHANGED <<lock, before, overwritten>>
  BY DEF RestoreInterface
<1>2. CASE job[d].restore = {} /\ Goto(d, "unconf") /\ UNCHANGED <<node, job>>
  BY <1>1, <1>2, GotoFacts DEF Step, Shapes
<1>3. ASSUME NEW i \in job[d].restore,
             \/ node' = [node EXCEPT !.live[i] = StartAwg(node.conf[i])]
             \/ CtxErr(d) /\ node' = node,
             SetJob(d, [job[d] EXCEPT !.restore = @ \ {i}]), UNCHANGED pc
      PROVE  /\ Moves(d) /\ IsNode(node)'
             /\ node'.cfg = node.cfg /\ node'.run = node.run /\ node'.conf = node.conf
             /\ pc'[d] = "restore"
             /\ JobKept(d, {"restore"}) /\ job'[d].restore = job[d].restore \ {i}
             /\ \A j \in Iface : j # i => node'.live[j] = node.live[j]
             /\ faults' # 0 \/ node'.live[i] = StartAwg(node.conf[i])
  <2>1. IsNode(node) /\ i \in Iface /\ DOMAIN job[d] = JobFields /\ StartAwg(node.conf[i]) \in Running
    BY Started DEF Shapes, JobShape
  <2> DEFINE m == [node EXCEPT !.live[i] = StartAwg(node.conf[i])]
             j == [job[d] EXCEPT !.restore = @ \ {i}]
  <2>2. /\ IsNode(m) /\ m.cfg = node.cfg /\ m.run = node.run /\ m.conf = node.conf
        /\ \A k \in Iface : k # i => m.live[k] = node.live[k]
        /\ m.live[i] = StartAwg(node.conf[i])
    BY <2>1, WithLive
  <2> HIDE DEF m
  <2>3. /\ IsNode(node)' /\ node'.cfg = node.cfg /\ node'.run = node.run /\ node'.conf = node.conf
        /\ \A k \in Iface : k # i => node'.live[k] = node.live[k]
        /\ faults' # 0 \/ node'.live[i] = StartAwg(node.conf[i])
    <3>1. CASE node' = m
      BY <2>2, <3>1 DEF IsNode
    <3>2. CASE CtxErr(d) /\ node' = node
      BY <2>1, <3>2, Dirty DEF IsNode
    <3> QED BY <1>3, <3>1, <3>2 DEF m
  <2>4. /\ DOMAIN j = JobFields /\ j.restore = job[d].restore \ {i}
        /\ \A f \in JobFields \ {"restore"} : j[f] = job[d][f]
    BY <2>1 DEF JobFields
  <2> HIDE DEF j
  <2>5. Moves(d) /\ job'[d] = j
    BY <1>3, SetJobFacts DEF j
  <2> QED BY <1>1, <1>3, <2>3, <2>4, <2>5 DEF JobKept
<1>4. \/ job[d].restore = {} /\ Goto(d, "unconf") /\ UNCHANGED <<node, job>>
      \/ \E i \in job[d].restore :
            /\ \/ node' = [node EXCEPT !.live[i] = StartAwg(node.conf[i])]
               \/ CtxErr(d) /\ node' = node
            /\ SetJob(d, [job[d] EXCEPT !.restore = @ \ {i}]) /\ UNCHANGED pc
  BY Zenon DEF RestoreInterface
<1> QED BY <1>1, <1>2, <1>3, <1>4

LEMMA RollbackConfFacts ==
    ASSUME Shapes, FaultsCounted, NEW d \in Deployer, RollbackConf(d)
    PROVE  /\ pc[d] = "unconf" /\ UNCHANGED <<lock, before, overwritten>> /\ Moves(d)
           /\ IsNode(node)' /\ node'.cfg = node.cfg /\ node'.run = node.run
           /\ \/ job[d].records = {} /\ pc'[d] = "return" /\ UNCHANGED <<node, job>>
              \/ \E i \in job[d].records :
                   /\ pc'[d] = "unconf"
                   /\ JobKept(d, {"records"}) /\ job'[d].records = job[d].records \ {i}
                   /\ \A j \in Iface : j # i => node'.conf[j] = node.conf[j] /\ node'.live[j] = node.live[j]
                   /\ \/ faults' # 0 \/ job[d].bak[i] = NoPath
                      \/ /\ node'.conf[i] = Restored(node.conf[i], job[d].bak[i])
                         /\ node'.live[i] = StartAwg(node'.conf[i])
<1>1. pc[d] = "unconf" /\ UNCHANGED <<lock, before, overwritten>>
  BY DEF RollbackConf
<1>2. CASE job[d].records = {} /\ Goto(d, "return") /\ UNCHANGED <<node, job>>
  BY <1>1, <1>2, GotoFacts DEF Step, Shapes
<1>3. ASSUME NEW i \in job[d].records,
             \/ job[d].bak[i] # NoPath /\ node' = RolledBackConf(node, i, job[d].bak[i])
             \/ job[d].bak[i] = NoPath /\ node' = node
             \/ RunErr /\ node' = node,
             SetJob(d, [job[d] EXCEPT !.records = @ \ {i}]), UNCHANGED pc
      PROVE  /\ Moves(d) /\ IsNode(node)' /\ node'.cfg = node.cfg /\ node'.run = node.run
             /\ pc'[d] = "unconf"
             /\ JobKept(d, {"records"}) /\ job'[d].records = job[d].records \ {i}
             /\ \A j \in Iface : j # i => node'.conf[j] = node.conf[j] /\ node'.live[j] = node.live[j]
             /\ \/ faults' # 0 \/ job[d].bak[i] = NoPath
                \/ /\ node'.conf[i] = Restored(node.conf[i], job[d].bak[i])
                   /\ node'.live[i] = StartAwg(node'.conf[i])
  <2>1. IsNode(node) /\ i \in Iface /\ DOMAIN job[d] = JobFields /\ job[d].bak[i] \in Backup
    BY DEF Shapes, JobShape
  <2> DEFINE m == RolledBackConf(node, i, job[d].bak[i])
             j == [job[d] EXCEPT !.records = @ \ {i}]
  <2>2. job[d].bak[i] # NoPath =>
           /\ IsNode(m) /\ m.cfg = node.cfg /\ m.run = node.run
           /\ m.conf[i] = Restored(node.conf[i], job[d].bak[i]) /\ m.live[i] = StartAwg(m.conf[i])
           /\ \A k \in Iface : k # i => m.conf[k] = node.conf[k] /\ m.live[k] = node.live[k]
    <3>1. job[d].bak[i] # NoPath => job[d].bak[i] \in FileContent
      BY <2>1 DEF Backup
    <3> QED BY <2>1, <3>1, ConfRolledBack
  <2> HIDE DEF m
  <2>3. /\ IsNode(node)' /\ node'.cfg = node.cfg /\ node'.run = node.run
        /\ \A k \in Iface : k # i => node'.conf[k] = node.conf[k] /\ node'.live[k] = node.live[k]
        /\ \/ faults' # 0 \/ job[d].bak[i] = NoPath
           \/ /\ node'.conf[i] = Restored(node.conf[i], job[d].bak[i])
              /\ node'.live[i] = StartAwg(node'.conf[i])
    <3>1. CASE job[d].bak[i] # NoPath /\ node' = m
      BY <2>2, <3>1 DEF IsNode
    <3>2. CASE node' = node /\ (job[d].bak[i] = NoPath \/ RunErr)
      BY <2>1, <3>2, Dirty DEF IsNode
    <3> QED BY <1>3, <3>1, <3>2 DEF m
  <2>4. /\ DOMAIN j = JobFields /\ j.records = job[d].records \ {i}
        /\ \A f \in JobFields \ {"records"} : j[f] = job[d][f]
    BY <2>1 DEF JobFields
  <2> HIDE DEF j
  <2>5. Moves(d) /\ job'[d] = j
    BY <1>3, SetJobFacts DEF j
  <2> QED BY <1>1, <1>3, <2>3, <2>4, <2>5 DEF JobKept
<1>4. \/ job[d].records = {} /\ Goto(d, "return") /\ UNCHANGED <<node, job>>
      \/ \E i \in job[d].records :
            /\ \/ job[d].bak[i] # NoPath /\ node' = RolledBackConf(node, i, job[d].bak[i])
               \/ job[d].bak[i] = NoPath /\ node' = node
               \/ RunErr /\ node' = node
            /\ SetJob(d, [job[d] EXCEPT !.records = @ \ {i}]) /\ UNCHANGED pc
  BY Zenon DEF RollbackConf
<1> QED BY <1>1, <1>2, <1>3, <1>4

LEMMA ReturnFacts ==
    ASSUME Shapes, NEW d \in Deployer, Return(d)
    PROVE  /\ pc[d] = "return" /\ lock' = Nobody /\ UNCHANGED <<node, faults>>
           /\ Moves(d) /\ pc'[d] = "idle" /\ NewShape(d)
BY EndFacts DEF Return

LEMMA CancelFacts ==
    ASSUME NEW d \in Deployer, Cancel(d)
    PROVE  UNCHANGED <<node, lock, pc, job, before, overwritten>>
BY DEF Cancel

-----------------------------------------------------------------------------
(* Faults are only counted up *)

LEMMA FaultsStep ==
    ASSUME FaultsCounted, Next
    PROVE  FaultsCounted' /\ (faults' = 0 => faults = 0)
<1>1. PICK d \in Deployer : (\E v \in Goals : Install(d, v)) \/ Lock(d) \/ Push(d) \/ Cancel(d)
  BY DEF Next
<1>2. faults' = faults \/ Fault
  <2>1. CASE \E v \in Goals : Install(d, v)
    BY <2>1 DEF Install, CtxOk, CtxErr
  <2>2. CASE Push(d)
    BY <2>2 DEF Push, StartUnit, Prepare, PeerSync, BackupConf, PushConf, EnableService, Teardown,
       BackupConfig, PushAssets, Upload, Check, Restart, Probe, Rollback, RestoreInterface,
       RollbackConf, Return, CtxOk, CtxErr, RunOk, RunErr
  <2>3. CASE Lock(d) \/ Cancel(d)
    BY <2>3 DEF Lock, Cancel
  <2> QED BY <1>1, <2>1, <2>2, <2>3
<1>3. \/ cancelled' = cancelled
      \/ cancelled' = [cancelled EXCEPT ![d] = FALSE]
      \/ Fault /\ cancelled' = [cancelled EXCEPT ![d] = TRUE]
  <2>1. CASE \E v \in Goals : Install(d, v)
    BY <2>1 DEF Install, End
  <2>2. CASE Push(d)
    BY <2>2 DEF Push, StartUnit, Prepare, PeerSync, BackupConf, PushConf, EnableService, Teardown,
       BackupConfig, PushAssets, Upload, Check, Restart, Probe, Rollback, RestoreInterface,
       RollbackConf, Return, End
  <2>3. CASE Lock(d) \/ Cancel(d)
    BY <2>3 DEF Lock, Cancel
  <2> QED BY <1>1, <2>1, <2>2, <2>3
<1>4. faults' \in Nat /\ (faults' = 0 => faults = 0) /\ (faults # 0 => faults' # 0)
  BY <1>2 DEF Fault, FaultsCounted
<1>5. Fault => faults' # 0
  BY DEF Fault, FaultsCounted
<1> QED BY <1>3, <1>4, <1>5 DEF FaultsCounted

-----------------------------------------------------------------------------
(* What a step does to the push it belongs to *)

Sound(d) == JobShape(d) /\ Progress(d) /\ (Clean(d) => Undoable(d))

LEMMA PrepareStep ==
    ASSUME IInv, NEW d \in Deployer, Prepare(d)
    PROVE  Sound(d)'
<1>0. Shapes /\ FaultsCounted /\ JobShape(d) /\ Progress(d) /\ (Clean(d) => Undoable(d))
  BY DEF IInv, Shapes
<1>1. /\ pc[d] = "prepare" /\ UNCHANGED <<node, lock, before, overwritten>> /\ Moves(d)
      /\ \/ pc'[d] = "sync" /\ UNCHANGED job
         \/ /\ pc'[d] = "return" /\ faults' # 0
            /\ JobKept(d, {"err"}) /\ job'[d].err = "other"
  BY <1>0, PrepareFacts
<1>2. faults' = 0 => faults = 0
  BY FaultsStep DEF Next, Push, IInv
<1>3. CASE pc'[d] = "sync" /\ UNCHANGED job
  <2>1. JobShape(d)'
    BY <1>0, <1>1, <1>3 DEF JobShape
  <2>2. Progress(d)'
    BY <1>0, <1>1, <1>3 DEF Progress, Untouched, OnTheWay, Locked, Target
  <2>3. Clean(d)' => Undoable(d)'
    BY <1>0, <1>1, <1>2, <1>3 DEF Progress, Untouched, Undoable, Clean, Locked, Step, Replacing, Target
  <2> QED BY <2>1, <2>2, <2>3 DEF Sound
<1>4. CASE /\ pc'[d] = "return" /\ faults' # 0
           /\ JobKept(d, {"err"}) /\ job'[d].err = "other"
  <2>1. JobShape(d)'
    BY <1>0, <1>1, <1>4, KeptFields DEF JobShape, JobKept
  <2>2. Progress(d)'
    BY <1>0, <1>1, <1>4, KeptFields DEF Progress, Untouched, OnTheWay, Locked, Target
  <2>3. Clean(d)' => Undoable(d)'
    BY <1>4 DEF Clean
  <2> QED BY <2>1, <2>2, <2>3 DEF Sound
<1> QED BY <1>1, <1>3, <1>4

LEMMA IsBefore ==
    ASSUME IInv, NEW d \in Deployer, pc[d] \in Locked
    PROVE  IsNode(before)
BY DEF IInv, Exclusive

LEMMA PeerSyncStep ==
    ASSUME IInv, NEW d \in Deployer, PeerSync(d)
    PROVE  Sound(d)'
<1>0. /\ Shapes /\ IsNode(node) /\ FaultsCounted /\ JobShape(d)
      /\ Progress(d) /\ (Clean(d) => Undoable(d))
  BY DEF IInv, Shapes
<1>1. /\ pc[d] = "sync" /\ pc'[d] = "conf" /\ UNCHANGED <<lock, before, overwritten>> /\ Moves(d)
      /\ IsNode(node)' /\ node'.cfg = node.cfg /\ node'.run = node.run /\ node'.conf = node.conf
      /\ \E i \in job[d].todo :
            /\ JobKept(d, {"cur", "synced"}) /\ job'[d].cur = {i}
            /\ job'[d].synced => node'.live[i] = Target(d)
            /\ \A j \in Iface : j # i => node'.live[j] = node.live[j]
  BY <1>0, PeerSyncFacts
<1>2. faults' = 0 => faults = 0
  BY FaultsStep DEF Next, Push, IInv
<1>3. PICK i \in job[d].todo :
         /\ JobKept(d, {"cur", "synced"}) /\ job'[d].cur = {i}
         /\ job'[d].synced => node'.live[i] = Target(d)
         /\ \A j \in Iface : j # i => node'.live[j] = node.live[j]
  BY <1>1
<1>4. JobShape(d)'
  BY <1>0, <1>1, <1>3, KeptFields DEF JobShape, JobKept
<1>5. /\ job'[d].target = job[d].target /\ job'[d].todo = job[d].todo
      /\ job'[d].records = job[d].records /\ job'[d].restart = job[d].restart
      /\ job'[d].restore = job[d].restore /\ job'[d].bak = job[d].bak
      /\ job'[d].err = job[d].err
  BY <1>3, KeptFields
<1>6. OnTheWay(d) /\ i \in Iface /\ i \notin job[d].records
  BY <1>0, <1>1 DEF Progress, JobShape, OnTheWay
<1>7. Progress(d)'
  <2>1. OnTheWay(d)'
    BY <1>0, <1>1, <1>3, <1>5, <1>6 DEF OnTheWay, Target, JobShape
  <2> QED BY <1>0, <1>1, <1>5, <2>1 DEF Progress, Locked, Step, Target
<1>8. Clean(d)' => Undoable(d)'
  BY <1>0, <1>1, <1>2, <1>3, <1>5, <1>6
     DEF Undoable, Clean, OnTheWay, Locked, Step, Replacing, Target
<1> QED BY <1>4, <1>7, <1>8 DEF Sound

LEMMA BackupConfStep ==
    ASSUME IInv, NEW d \in Deployer, BackupConf(d)
    PROVE  Sound(d)'
<1>0. /\ Shapes /\ IsNode(node) /\ FaultsCounted /\ JobShape(d)
      /\ Progress(d) /\ (Clean(d) => Undoable(d))
  BY DEF IInv, Shapes
<1>1. /\ pc[d] = "conf" /\ pc'[d] = "upconf" /\ UNCHANGED <<node, lock, before, overwritten>> /\ Moves(d)
      /\ JobKept(d, {"bak"}) /\ job'[d].bak \in [Iface -> Backup]
      /\ \E i \in job[d].cur :
            /\ \A j \in Iface : j # i => job'[d].bak[j] = job[d].bak[j]
            /\ faults' # 0 \/ job'[d].bak[i] = node.conf[i]
  BY <1>0, BackupConfFacts
<1>2. faults' = 0 => faults = 0
  BY FaultsStep DEF Next, Push, IInv
<1>3. PICK i \in job[d].cur :
         /\ \A j \in Iface : j # i => job'[d].bak[j] = job[d].bak[j]
         /\ faults' # 0 \/ job'[d].bak[i] = node.conf[i]
  BY <1>1
<1>4. JobShape(d)'
  BY <1>0, <1>1, <1>3, KeptFields DEF JobShape, JobKept
<1>5. Progress(d)'
  BY <1>0, <1>1, <1>3, KeptFields
     DEF Progress, Untouched, OnTheWay, KernelPushed, CfgPushed, RunPushed, Locked, Step, Target
<1>6. OnTheWay(d) /\ i \in Iface /\ i \notin job[d].records /\ job[d].cur = {i}
  BY <1>0, <1>1, <1>3 DEF Progress, JobShape, OnTheWay
<1>7. Clean(d)' => Undoable(d)'
  <2>1. /\ job'[d].target = job[d].target /\ job'[d].cur = job[d].cur /\ job'[d].err = job[d].err
        /\ job'[d].records = job[d].records /\ job'[d].restore = job[d].restore
    BY <1>1, KeptFields
  <2>2. job[d].records \subseteq Iface
    BY <1>0 DEF JobShape
  <2> QED BY <1>0, <1>1, <1>2, <1>3, <1>6, <2>1, <2>2
          DEF Undoable, Clean, OnTheWay, Locked, Step, Replacing, Target
<1> QED BY <1>4, <1>5, <1>7 DEF Sound

LEMMA PushConfStep ==
    ASSUME IInv, NEW d \in Deployer, PushConf(d)
    PROVE  Sound(d)'
<1>0. /\ Shapes /\ IsNode(node) /\ FaultsCounted /\ JobShape(d)
      /\ Progress(d) /\ (Clean(d) => Undoable(d))
  BY DEF IInv, Shapes
<1>1. /\ pc[d] = "upconf" /\ UNCHANGED <<lock, before, overwritten>> /\ Moves(d) /\ IsNode(node)'
      /\ \/ \E i \in job[d].cur :
              /\ node'.cfg = node.cfg /\ node'.run = node.run /\ node'.live = node.live
              /\ node'.conf[i] = Target(d)
              /\ \A j \in Iface : j # i => node'.conf[j] = node.conf[j]
              /\ JobKept(d, {"todo", "cur", "records", "restart"})
              /\ job'[d].todo = job[d].todo \ {i} /\ job'[d].cur = {}
              /\ job'[d].records = job[d].records \cup {i}
              /\ job'[d].restart = IF job[d].synced THEN job[d].restart ELSE job[d].restart \cup {i}
              /\ pc'[d] = IF job[d].todo = {i} THEN "services" ELSE "sync"
         \/ /\ faults' # 0 /\ pc'[d] = "unconf"
            /\ JobKept(d, {"err"}) /\ job'[d].err = "other"
  BY <1>0, PushConfFacts
<1>2. faults' = 0 => faults = 0
  BY FaultsStep DEF Next, Push, IInv
<1>3. CASE \E i \in job[d].cur :
              /\ node'.cfg = node.cfg /\ node'.run = node.run /\ node'.live = node.live
              /\ node'.conf[i] = Target(d)
              /\ \A j \in Iface : j # i => node'.conf[j] = node.conf[j]
              /\ JobKept(d, {"todo", "cur", "records", "restart"})
              /\ job'[d].todo = job[d].todo \ {i} /\ job'[d].cur = {}
              /\ job'[d].records = job[d].records \cup {i}
              /\ job'[d].restart = IF job[d].synced THEN job[d].restart ELSE job[d].restart \cup {i}
              /\ pc'[d] = IF job[d].todo = {i} THEN "services" ELSE "sync"
  <2>1. JobShape(d)'
    BY <1>0, <1>1, <1>3, KeptFields DEF JobShape, JobKept
  <2>2. Progress(d)'
    <3>1. PICK i \in job[d].cur :
             /\ node'.live = node.live /\ node'.conf[i] = Target(d)
             /\ \A j \in Iface : j # i => node'.conf[j] = node.conf[j]
             /\ JobKept(d, {"todo", "cur", "records", "restart"})
             /\ job'[d].todo = job[d].todo \ {i} /\ job'[d].cur = {}
             /\ job'[d].records = job[d].records \cup {i}
             /\ job'[d].restart = IF job[d].synced THEN job[d].restart ELSE job[d].restart \cup {i}
             /\ pc'[d] = IF job[d].todo = {i} THEN "services" ELSE "sync"
      BY <1>3
    <3>2. /\ job'[d].target = job[d].target /\ job'[d].restore = job[d].restore
          /\ job'[d].err = job[d].err
      BY <3>1, KeptFields
    <3>3. OnTheWay(d) /\ job[d].records \subseteq Iface /\ job[d].cur = {i}
      BY <1>0, <1>1, <3>1 DEF Progress, JobShape, OnTheWay
    <3>4. OnTheWay(d)'
      BY <1>1, <3>1, <3>2, <3>3 DEF OnTheWay, Target
    <3> QED BY <1>0, <1>1, <3>1, <3>2, <3>4 DEF Progress, OnTheWay, Locked, Step, Target
  <2>3. Clean(d)' => Undoable(d)'
    BY <1>0, <1>1, <1>2, <1>3, KeptFields
       DEF Undoable, Clean, Settled, Locked, Step, Replacing, Target, Progress, Untouched,
           OnTheWay, KernelPushed, CfgPushed, RunPushed
  <2> QED BY <2>1, <2>2, <2>3 DEF Sound
<1>4. CASE /\ faults' # 0 /\ pc'[d] = "unconf"
           /\ JobKept(d, {"err"}) /\ job'[d].err = "other"
  <2>1. JobShape(d)'
    BY <1>0, <1>1, <1>4, KeptFields DEF JobShape, JobKept
  <2>2. Progress(d)'
    BY <1>0, <1>1, <1>4, KeptFields
       DEF Progress, Untouched, OnTheWay, KernelPushed, CfgPushed, RunPushed, Locked, Step, Target
  <2>3. Clean(d)' => Undoable(d)'
    BY <1>4 DEF Clean
  <2> QED BY <2>1, <2>2, <2>3 DEF Sound
<1> QED BY <1>1, <1>3, <1>4

LEMMA EnableServiceStep ==
    ASSUME IInv, NEW d \in Deployer, EnableService(d)
    PROVE  Sound(d)'
<1>0. /\ Shapes /\ IsNode(node) /\ FaultsCounted /\ JobShape(d)
      /\ Progress(d) /\ (Clean(d) => Undoable(d))
  BY DEF IInv, Shapes
<1>1. /\ pc[d] = "services" /\ UNCHANGED <<lock, before, overwritten>> /\ Moves(d) /\ IsNode(node)'
      /\ node'.cfg = node.cfg /\ node'.run = node.run /\ node'.conf = node.conf
      /\ \/ job[d].restart = {} /\ pc'[d] = "teardown" /\ UNCHANGED <<node, job>>
         \/ \E i \in job[d].restart :
              /\ \A j \in Iface : j # i => node'.live[j] = node.live[j]
              /\ \/ /\ node'.live[i] = StartAwg(node.conf[i]) /\ node'.live[i] # Down
                    /\ JobKept(d, {"restart"}) /\ job'[d].restart = job[d].restart \ {i}
                    /\ pc'[d] = "services"
                 \/ /\ pc'[d] = "unconf" /\ JobKept(d, {"err"}) /\ job'[d].err = "other"
  BY <1>0, EnableServiceFacts
<1>2. faults' = 0 => faults = 0
  BY FaultsStep DEF Next, Push, IInv
<1>3. CASE job[d].restart = {} /\ pc'[d] = "teardown" /\ UNCHANGED <<node, job>>
  <2>1. JobShape(d)'
    BY <1>0, <1>1, <1>3 DEF JobShape
  <2>2. Progress(d)'
    BY <1>0, <1>1, <1>3 DEF Progress, Untouched, OnTheWay, KernelPushed, CfgPushed, RunPushed, Locked, Step, Target
  <2>3. Clean(d)' => Undoable(d)'
    BY <1>0, <1>1, <1>2, <1>3
       DEF Undoable, Clean, Settled, Locked, Step, Replacing, Target, Progress, Untouched,
           OnTheWay, KernelPushed, CfgPushed, RunPushed
  <2> QED BY <2>1, <2>2, <2>3 DEF Sound
<1>4. CASE \E i \in job[d].restart :
              /\ \A j \in Iface : j # i => node'.live[j] = node.live[j]
              /\ node'.live[i] = StartAwg(node.conf[i]) /\ node'.live[i] # Down
              /\ JobKept(d, {"restart"}) /\ job'[d].restart = job[d].restart \ {i}
              /\ pc'[d] = "services"
  <2>1. JobShape(d)'
    BY <1>0, <1>1, <1>4, KeptFields DEF JobShape, JobKept
  <2>2. Progress(d)'
    <3>1. PICK i \in job[d].restart :
             /\ \A j \in Iface : j # i => node'.live[j] = node.live[j]
             /\ node'.live[i] = StartAwg(node.conf[i]) /\ node'.live[i] # Down
             /\ JobKept(d, {"restart"}) /\ job'[d].restart = job[d].restart \ {i}
             /\ pc'[d] = "services"
      BY <1>4
    <3>2. /\ job'[d].target = job[d].target /\ job'[d].restore = job[d].restore
          /\ job'[d].todo = job[d].todo /\ job'[d].records = job[d].records
          /\ job'[d].cur = job[d].cur /\ job'[d].err = job[d].err
      BY <3>1, KeptFields
    <3>3. OnTheWay(d) /\ job[d].records \subseteq Iface /\ node'.live[i] = node.conf[i]
      BY <1>0, <1>1, <3>1, Started DEF Progress, JobShape
    <3>4. OnTheWay(d)'
      BY <1>1, <3>1, <3>2, <3>3 DEF OnTheWay, Target
    <3> QED BY <1>0, <1>1, <3>1, <3>2, <3>4 DEF Progress, OnTheWay, Locked, Step, Target
  <2>3. Clean(d)' => Undoable(d)'
    BY <1>0, <1>1, <1>2, <1>4, Started, KeptFields
       DEF Undoable, Clean, Settled, Locked, Step, Replacing, Target, Progress, Untouched,
           OnTheWay, KernelPushed, CfgPushed, RunPushed
  <2> QED BY <2>1, <2>2, <2>3 DEF Sound
<1>5. CASE \E i \in job[d].restart :
              /\ \A j \in Iface : j # i => node'.live[j] = node.live[j]
              /\ pc'[d] = "unconf" /\ JobKept(d, {"err"}) /\ job'[d].err = "other"
  <2>1. JobShape(d)'
    BY <1>0, <1>1, <1>5, KeptFields DEF JobShape, JobKept
  <2>2. Progress(d)'
    BY <1>0, <1>1, <1>5, KeptFields
       DEF Progress, Untouched, OnTheWay, KernelPushed, CfgPushed, RunPushed, Locked, Step, Target
  <2>3. Clean(d)' => Undoable(d)'
    BY <1>0, <1>1, <1>2, <1>5, KeptFields
       DEF Undoable, Clean, Settled, Locked, Step, Replacing, Target, Progress, Untouched,
           OnTheWay, KernelPushed, CfgPushed, RunPushed
  <2> QED BY <2>1, <2>2, <2>3 DEF Sound
<1> QED BY <1>1, <1>3, <1>4, <1>5

LEMMA TeardownStep ==
    ASSUME IInv, NEW d \in Deployer, Teardown(d)
    PROVE  Sound(d)'
<1>0. /\ Shapes /\ IsNode(node) /\ FaultsCounted /\ JobShape(d)
      /\ Progress(d) /\ (Clean(d) => Undoable(d))
  BY DEF IInv, Shapes
<1>1. /\ pc[d] = "teardown" /\ pc'[d] = "backup" /\ UNCHANGED <<lock, before, overwritten>> /\ Moves(d)
      /\ IsNode(node)' /\ node'.cfg = node.cfg /\ node'.run = node.run /\ node'.conf = node.conf
      /\ JobKept(d, {"restore"}) /\ job'[d].restore \subseteq TornDown[Target(d)]
      /\ \A i \in Iface \ TornDown[Target(d)] : node'.live[i] = node.live[i]
      /\ \/ faults' # 0
         \/ /\ job'[d].restore = {i \in TornDown[Target(d)] : node.live[i] # Down}
            /\ \A i \in TornDown[Target(d)] : node'.live[i] = Down
  BY <1>0, TeardownFacts
<1>2. faults' = 0 => faults = 0
  BY FaultsStep DEF Next, Push, IInv
<1>3. /\ job'[d].target = job[d].target /\ job'[d].todo = job[d].todo /\ job'[d].cur = job[d].cur
      /\ job'[d].records = job[d].records /\ job'[d].bak = job[d].bak /\ job'[d].cbak = job[d].cbak
      /\ job'[d].restart = job[d].restart /\ job'[d].err = job[d].err
  BY <1>1, KeptFields
<1>4. /\ Target(d) \in Version /\ TornDown[Target(d)] \subseteq Iface
      /\ Rendered[Target(d)] \subseteq Iface /\ Rendered[Target(d)] \cap TornDown[Target(d)] = {}
  BY <1>0, VersionAssumption DEF JobShape, Target
<1>5. JobShape(d)'
  BY <1>0, <1>1, <1>3, <1>4 DEF JobShape, JobKept
<1>6. Progress(d)'
  BY <1>0, <1>1, <1>3, <1>4 DEF Progress, KernelPushed, CfgPushed, RunPushed, Locked, Step, Target
<1>7. Clean(d)' => Undoable(d)'
  <2>1. SUFFICES ASSUME Clean(d)'
                 PROVE  Undoable(d)'
    OBVIOUS
  <2>2. Undoable(d) /\ Settled(before, Target(d))
    BY <1>0, <1>1, <1>2, <1>3, <2>1 DEF Clean, Locked, Step, Target
  <2>3. /\ job'[d].restore = {i \in TornDown[Target(d)] : node.live[i] # Down}
        /\ \A i \in TornDown[Target(d)] : node'.live[i] = Down
    BY <1>1, <2>1 DEF Clean
  <2>4. /\ job[d].restore = {} /\ job[d].cur = {}
        /\ job[d].records \subseteq Rendered[Target(d)]
    BY <1>0, <1>1 DEF Progress, Locked, Step
  <2>5. \A i \in TornDown[Target(d)] :
           /\ node.conf[i] = before.conf[i] /\ node.live[i] = before.live[i]
           /\ node.live[i] \in {Down, StartAwg(before.conf[i])}
    BY <1>4, <2>2, <2>4 DEF Undoable, Settled
  <2>6. \A i \in Iface \ (job[d].records \cup job'[d].restore) :
           node'.conf[i] = before.conf[i] /\ node'.live[i] = before.live[i]
    BY <1>1, <2>2, <2>3, <2>4, <2>5 DEF Undoable
  <2>7. \A i \in job'[d].restore :
           node'.conf[i] = before.conf[i] /\ before.live[i] = StartAwg(before.conf[i])
    BY <1>1, <2>3, <2>5
  <2> QED BY <1>1, <1>3, <2>2, <2>4, <2>6, <2>7 DEF Undoable, Replacing
<1> QED BY <1>5, <1>6, <1>7 DEF Sound

LEMMA BackupConfigStep ==
    ASSUME IInv, NEW d \in Deployer, BackupConfig(d)
    PROVE  Sound(d)'
<1>0. /\ Shapes /\ IsNode(node) /\ FaultsCounted /\ JobShape(d)
      /\ Progress(d) /\ (Clean(d) => Undoable(d))
  BY DEF IInv, Shapes
<1>1. /\ pc[d] = "backup" /\ pc'[d] = "assets" /\ UNCHANGED <<node, lock, before, overwritten>> /\ Moves(d)
      /\ JobKept(d, {"cbak"}) /\ job'[d].cbak \in Backup
      /\ faults' # 0 \/ job'[d].cbak = node.cfg
  BY <1>0, BackupConfigFacts
<1>2. faults' = 0 => faults = 0
  BY FaultsStep DEF Next, Push, IInv
<1>4. JobShape(d)'
  BY <1>0, <1>1, KeptFields DEF JobShape, JobKept
<1>5. Progress(d)'
  BY <1>0, <1>1, KeptFields DEF Progress, Untouched, OnTheWay, KernelPushed, CfgPushed, RunPushed, Locked, Step, Target
<1>6. Clean(d)' => Undoable(d)'
  <2>1. node.cfg # NoPath
    BY <1>0, ConstantAssumption DEF IsNode, FileContent
  <2> QED BY <1>0, <1>1, <1>2, <2>1, KeptFields
          DEF Undoable, Clean, Settled, Locked, Step, Replacing, Target, Progress, Untouched,
              OnTheWay, KernelPushed, CfgPushed, RunPushed
<1> QED BY <1>4, <1>5, <1>6 DEF Sound

LEMMA PushAssetsStep ==
    ASSUME IInv, NEW d \in Deployer, PushAssets(d)
    PROVE  Sound(d)'
<1>0. /\ Shapes /\ IsNode(node) /\ FaultsCounted /\ JobShape(d)
      /\ Progress(d) /\ (Clean(d) => Undoable(d))
  BY DEF IInv, Shapes
<1>1. /\ pc[d] = "assets" /\ UNCHANGED <<node, lock, before, overwritten>> /\ Moves(d)
      /\ \/ pc'[d] = "upload" /\ UNCHANGED job
         \/ pc'[d] = "restore" /\ JobKept(d, {"err"}) /\ job'[d].err = "other"
  BY <1>0, PushAssetsFacts
<1>2. faults' = 0 => faults = 0
  BY FaultsStep DEF Next, Push, IInv
<1>3. CASE pc'[d] = "upload" /\ UNCHANGED job
  <2>1. JobShape(d)'
    BY <1>0, <1>1, <1>3 DEF JobShape
  <2>2. Progress(d)'
    BY <1>0, <1>1, <1>3 DEF Progress, Untouched, OnTheWay, KernelPushed, CfgPushed, RunPushed, Locked, Step, Target
  <2>3. Clean(d)' => Undoable(d)'
    BY <1>0, <1>1, <1>2, <1>3
       DEF Undoable, Clean, Settled, Locked, Step, Replacing, Target, Progress, Untouched,
           OnTheWay, KernelPushed, CfgPushed, RunPushed
  <2> QED BY <2>1, <2>2, <2>3 DEF Sound
<1>4. CASE pc'[d] = "restore" /\ JobKept(d, {"err"}) /\ job'[d].err = "other"
  <2>1. JobShape(d)'
    BY <1>0, <1>1, <1>4, KeptFields DEF JobShape, JobKept
  <2>2. Progress(d)'
    BY <1>0, <1>1, <1>4, KeptFields
       DEF Progress, Untouched, OnTheWay, KernelPushed, CfgPushed, RunPushed, Locked, Step, Target
  <2>3. Clean(d)' => Undoable(d)'
    BY <1>0, <1>1, <1>2, <1>4, KeptFields
       DEF Undoable, Clean, Settled, Locked, Step, Replacing, Target, Progress, Untouched,
           OnTheWay, KernelPushed, CfgPushed, RunPushed
  <2> QED BY <2>1, <2>2, <2>3 DEF Sound
<1> QED BY <1>1, <1>3, <1>4

LEMMA UploadStep ==
    ASSUME IInv, NEW d \in Deployer, Upload(d)
    PROVE  Sound(d)'
<1>0. /\ Shapes /\ IsNode(node) /\ FaultsCounted /\ JobShape(d)
      /\ Progress(d) /\ (Clean(d) => Undoable(d))
  BY DEF IInv, Shapes
<1>1. /\ pc[d] = "upload" /\ UNCHANGED <<lock, before, overwritten>> /\ Moves(d)
      /\ IsNode(node)' /\ node'.run = node.run /\ node'.conf = node.conf /\ node'.live = node.live
      /\ \/ pc'[d] = "check" /\ UNCHANGED job /\ node'.cfg = Target(d)
         \/ /\ pc'[d] = "restore" /\ faults' # 0
            /\ JobKept(d, {"err"}) /\ job'[d].err = "other"
  BY <1>0, UploadFacts
<1>2. faults' = 0 => faults = 0
  BY FaultsStep DEF Next, Push, IInv
<1>3. CASE pc'[d] = "check" /\ UNCHANGED job /\ node'.cfg = Target(d)
  <2>1. JobShape(d)'
    BY <1>0, <1>1, <1>3 DEF JobShape
  <2>2. Progress(d)'
    BY <1>0, <1>1, <1>3 DEF Progress, Untouched, OnTheWay, KernelPushed, CfgPushed, RunPushed, Locked, Step, Target
  <2>3. Clean(d)' => Undoable(d)'
    BY <1>0, <1>1, <1>2, <1>3
       DEF Undoable, Clean, Settled, Locked, Step, Replacing, Target, Progress, Untouched,
           OnTheWay, KernelPushed, CfgPushed, RunPushed
  <2> QED BY <2>1, <2>2, <2>3 DEF Sound
<1>4. CASE /\ pc'[d] = "restore" /\ faults' # 0
           /\ JobKept(d, {"err"}) /\ job'[d].err = "other"
  <2>1. JobShape(d)'
    BY <1>0, <1>1, <1>4, KeptFields DEF JobShape, JobKept
  <2>2. Progress(d)'
    BY <1>0, <1>1, <1>4, KeptFields
       DEF Progress, Untouched, OnTheWay, KernelPushed, CfgPushed, RunPushed, Locked, Step, Target
  <2>3. Clean(d)' => Undoable(d)'
    BY <1>4 DEF Clean
  <2> QED BY <2>1, <2>2, <2>3 DEF Sound
<1> QED BY <1>1, <1>3, <1>4

LEMMA CheckStep ==
    ASSUME IInv, NEW d \in Deployer, Check(d)
    PROVE  Sound(d)'
<1>0. /\ Shapes /\ IsNode(node) /\ FaultsCounted /\ JobShape(d)
      /\ Progress(d) /\ (Clean(d) => Undoable(d))
  BY DEF IInv, Shapes
<1>1. /\ pc[d] = "check" /\ UNCHANGED <<node, lock, before, overwritten>> /\ Moves(d)
      /\ (pc'[d] = "restart" /\ UNCHANGED job) \/ Recovers(d)
  BY <1>0, CheckFacts
<1>2. faults' = 0 => faults = 0
  BY FaultsStep DEF Next, Push, IInv
<1>3. CASE pc'[d] = "restart" /\ UNCHANGED job
  <2>1. JobShape(d)'
    BY <1>0, <1>1, <1>3 DEF JobShape
  <2>2. Progress(d)'
    BY <1>0, <1>1, <1>3, Started
       DEF Progress, Untouched, OnTheWay, KernelPushed, CfgPushed, RunPushed, Locked, Step, Target
  <2>3. Clean(d)' => Undoable(d)'
    BY <1>0, <1>1, <1>2, <1>3, Started
       DEF Undoable, Clean, Settled, Locked, Step, Replacing, Target, Progress, Untouched,
           OnTheWay, KernelPushed, CfgPushed, RunPushed
  <2> QED BY <2>1, <2>2, <2>3 DEF Sound
<1>4. CASE /\ job[d].cbak = NoPath /\ pc'[d] = "restore"
           /\ JobKept(d, {"err"}) /\ job'[d].err = "deploy"
  <2>1. JobShape(d)'
    BY <1>0, <1>1, <1>4, KeptFields DEF JobShape, JobKept
  <2>2. Progress(d)'
    BY <1>0, <1>1, <1>4, KeptFields
       DEF Progress, Untouched, OnTheWay, KernelPushed, CfgPushed, RunPushed, Locked, Step, Target
  <2>3. Clean(d)' => Undoable(d)'
    <3>1. Clean(d)' => Clean(d)
      BY <1>1, <1>2, <1>4, KeptFields DEF Clean, Locked, Step, Target
    <3>2. Clean(d) => job[d].cbak # NoPath
      BY <1>0, <1>1, <1>4 DEF Undoable, Replacing
    <3> QED BY <1>4, <3>1, <3>2
  <2> QED BY <2>1, <2>2, <2>3 DEF Sound
<1>5. CASE job[d].cbak # NoPath /\ pc'[d] = "rollback" /\ UNCHANGED job
  <2>1. JobShape(d)'
    BY <1>0, <1>1, <1>5 DEF JobShape
  <2>2. Progress(d)'
    BY <1>0, <1>1, <1>5 DEF Progress, Untouched, OnTheWay, KernelPushed, CfgPushed, RunPushed, Locked, Step, Target
  <2>3. Clean(d)' => Undoable(d)'
    BY <1>0, <1>1, <1>2, <1>5
       DEF Undoable, Clean, Settled, Locked, Step, Replacing, Target, Progress, Untouched,
           OnTheWay, KernelPushed, CfgPushed, RunPushed
  <2> QED BY <2>1, <2>2, <2>3 DEF Sound
<1> QED BY <1>1, <1>3, <1>4, <1>5 DEF Recovers

LEMMA RestartStep ==
    ASSUME IInv, NEW d \in Deployer, Restart(d)
    PROVE  Sound(d)'
<1>0. /\ Shapes /\ IsNode(node) /\ FaultsCounted /\ JobShape(d)
      /\ Progress(d) /\ (Clean(d) => Undoable(d))
  BY DEF IInv, Shapes
<1>1. /\ pc[d] = "restart" /\ UNCHANGED <<lock, before, overwritten>> /\ Moves(d)
      /\ IsNode(node)' /\ node'.cfg = node.cfg /\ node'.conf = node.conf /\ node'.live = node.live
      /\ \/ pc'[d] = "probe" /\ UNCHANGED job /\ node'.run = StartSingBox(node.cfg)
         \/ Recovers(d)
  BY <1>0, RestartFacts
<1>2. faults' = 0 => faults = 0
  BY FaultsStep DEF Next, Push, IInv
<1>3. CASE pc'[d] = "probe" /\ UNCHANGED job /\ node'.run = StartSingBox(node.cfg)
  <2>1. JobShape(d)'
    BY <1>0, <1>1, <1>3 DEF JobShape
  <2>2. CfgPushed(d)' /\ RunPushed(d)'
    BY <1>0, <1>1, <1>3, InstalledRuns DEF Progress, CfgPushed, RunPushed, Target
  <2>3. Progress(d)'
    BY <1>0, <1>1, <1>3, <2>2 DEF Progress, KernelPushed, Locked, Step, Target
  <2>4. Clean(d)' => Undoable(d)'
    BY <1>0, <1>1, <1>2, <1>3, Started
       DEF Undoable, Clean, Settled, Locked, Step, Replacing, Target, Progress, Untouched,
           OnTheWay, KernelPushed, CfgPushed, RunPushed
  <2> QED BY <2>1, <2>3, <2>4 DEF Sound
<1>4. CASE /\ job[d].cbak = NoPath /\ pc'[d] = "restore"
           /\ JobKept(d, {"err"}) /\ job'[d].err = "deploy"
  <2>1. JobShape(d)'
    BY <1>0, <1>1, <1>4, KeptFields DEF JobShape, JobKept
  <2>2. Progress(d)'
    BY <1>0, <1>1, <1>4, KeptFields
       DEF Progress, Untouched, OnTheWay, KernelPushed, CfgPushed, RunPushed, Locked, Step, Target
  <2>3. Clean(d)' => Undoable(d)'
    <3>1. Clean(d)' => Clean(d)
      BY <1>1, <1>2, <1>4, KeptFields DEF Clean, Locked, Step, Target
    <3>2. Clean(d) => job[d].cbak # NoPath
      BY <1>0, <1>1, <1>4 DEF Undoable, Replacing
    <3> QED BY <1>4, <3>1, <3>2
  <2> QED BY <2>1, <2>2, <2>3 DEF Sound
<1>5. CASE job[d].cbak # NoPath /\ pc'[d] = "rollback" /\ UNCHANGED job
  <2>1. JobShape(d)'
    BY <1>0, <1>1, <1>5 DEF JobShape
  <2>2. Progress(d)'
    BY <1>0, <1>1, <1>5 DEF Progress, Untouched, OnTheWay, KernelPushed, CfgPushed, RunPushed, Locked, Step, Target
  <2>3. Clean(d)' => Undoable(d)'
    BY <1>0, <1>1, <1>2, <1>5
       DEF Undoable, Clean, Settled, Locked, Step, Replacing, Target, Progress, Untouched,
           OnTheWay, KernelPushed, CfgPushed, RunPushed
  <2> QED BY <2>1, <2>2, <2>3 DEF Sound
<1> QED BY <1>1, <1>3, <1>4, <1>5 DEF Recovers

LEMMA ProbeStep ==
    ASSUME IInv, NEW d \in Deployer, Probe(d)
    PROVE  Sound(d)'
<1>0. /\ Shapes /\ IsNode(node) /\ FaultsCounted /\ JobShape(d)
      /\ Progress(d) /\ (Clean(d) => Undoable(d))
  BY DEF IInv, Shapes
<1>1. /\ pc[d] = "probe" /\ UNCHANGED <<node, lock, before, overwritten>> /\ Moves(d)
      /\ \/ pc'[d] = "return" /\ UNCHANGED job /\ node.run # Down
         \/ Recovers(d)
  BY <1>0, ProbeFacts
<1>2. faults' = 0 => faults = 0
  BY FaultsStep DEF Next, Push, IInv
<1>3. CASE pc'[d] = "return" /\ UNCHANGED job /\ node.run # Down
  <2>1. JobShape(d)'
    BY <1>0, <1>1, <1>3 DEF JobShape
  <2>2. Progress(d)'
    BY <1>0, <1>1, <1>3, Started
       DEF Progress, Untouched, OnTheWay, KernelPushed, CfgPushed, RunPushed, Locked, Step, Target
  <2>3. Clean(d)' => Undoable(d)'
    BY <1>0, <1>1, <1>2, <1>3, Started
       DEF Undoable, Clean, Settled, Locked, Step, Replacing, Target, Progress, Untouched,
           OnTheWay, KernelPushed, CfgPushed, RunPushed
  <2> QED BY <2>1, <2>2, <2>3 DEF Sound
<1>4. CASE /\ job[d].cbak = NoPath /\ pc'[d] = "restore"
           /\ JobKept(d, {"err"}) /\ job'[d].err = "deploy"
  <2>1. JobShape(d)'
    BY <1>0, <1>1, <1>4, KeptFields DEF JobShape, JobKept
  <2>2. Progress(d)'
    BY <1>0, <1>1, <1>4, KeptFields
       DEF Progress, Untouched, OnTheWay, KernelPushed, CfgPushed, RunPushed, Locked, Step, Target
  <2>3. Clean(d)' => Undoable(d)'
    <3>1. Clean(d)' => Clean(d)
      BY <1>1, <1>2, <1>4, KeptFields DEF Clean, Locked, Step, Target
    <3>2. Clean(d) => job[d].cbak # NoPath
      BY <1>0, <1>1, <1>4 DEF Undoable, Replacing
    <3> QED BY <1>4, <3>1, <3>2
  <2> QED BY <2>1, <2>2, <2>3 DEF Sound
<1>5. CASE job[d].cbak # NoPath /\ pc'[d] = "rollback" /\ UNCHANGED job
  <2>1. JobShape(d)'
    BY <1>0, <1>1, <1>5 DEF JobShape
  <2>2. Progress(d)'
    BY <1>0, <1>1, <1>5 DEF Progress, Untouched, OnTheWay, KernelPushed, CfgPushed, RunPushed, Locked, Step, Target
  <2>3. Clean(d)' => Undoable(d)'
    BY <1>0, <1>1, <1>2, <1>5
       DEF Undoable, Clean, Settled, Locked, Step, Replacing, Target, Progress, Untouched,
           OnTheWay, KernelPushed, CfgPushed, RunPushed
  <2> QED BY <2>1, <2>2, <2>3 DEF Sound
<1> QED BY <1>1, <1>3, <1>4, <1>5 DEF Recovers

LEMMA RollbackStep ==
    ASSUME IInv, NEW d \in Deployer, Rollback(d)
    PROVE  Sound(d)'
<1>0. /\ Shapes /\ IsNode(node) /\ FaultsCounted /\ JobShape(d)
      /\ Progress(d) /\ (Clean(d) => Undoable(d))
  BY DEF IInv, Shapes
<1>1. /\ pc[d] = "rollback" /\ pc'[d] = "restore" /\ UNCHANGED <<lock, before, overwritten>> /\ Moves(d)
      /\ JobKept(d, {"err"}) /\ job'[d].err # "none"
      /\ IsNode(node)' /\ node'.conf = node.conf /\ node'.live = node.live
      /\ \/ faults' # 0
         \/ /\ node'.cfg = Restored(node.cfg, job[d].cbak)
            /\ node'.run = StartSingBox(node'.cfg)
  BY <1>0, RollbackFacts
<1>2. faults' = 0 => faults = 0
  BY FaultsStep DEF Next, Push, IInv
<1>4. JobShape(d)'
  BY <1>0, <1>1, KeptFields DEF JobShape, JobKept
<1>5. Progress(d)'
  BY <1>0, <1>1, KeptFields DEF Progress, Untouched, OnTheWay, KernelPushed, CfgPushed, RunPushed, Locked, Step, Target
<1>6. Clean(d)' => Undoable(d)'
  <2>1. SUFFICES ASSUME Clean(d)'
                 PROVE  Undoable(d)'
    OBVIOUS
  <2>2. /\ job'[d].target = job[d].target /\ job'[d].cur = job[d].cur /\ job'[d].bak = job[d].bak
        /\ job'[d].records = job[d].records /\ job'[d].restore = job[d].restore
    BY <1>1, KeptFields
  <2>3. Undoable(d) /\ Settled(before, Target(d))
    BY <1>0, <1>1, <1>2, <2>1, <2>2 DEF Clean, Locked, Step, Target
  <2>4. /\ job[d].cbak = before.cfg \/ overwritten
        /\ before.cfg # NoFile /\ before.run = StartSingBox(before.cfg)
    BY <1>1, <2>3 DEF Undoable, Settled, Replacing
  <2>5. (node'.cfg = before.cfg /\ node'.run = before.run) \/ overwritten'
    BY <1>1, <2>1, <2>4 DEF Clean, Restored
  <2> QED BY <1>1, <2>2, <2>3, <2>5 DEF Undoable, Replacing
<1> QED BY <1>4, <1>5, <1>6 DEF Sound

LEMMA RestoreInterfaceStep ==
    ASSUME IInv, NEW d \in Deployer, RestoreInterface(d)
    PROVE  Sound(d)'
<1>0. /\ Shapes /\ IsNode(node) /\ FaultsCounted /\ JobShape(d)
      /\ Progress(d) /\ (Clean(d) => Undoable(d))
  BY DEF IInv, Shapes
<1>1. /\ pc[d] = "restore" /\ UNCHANGED <<lock, before, overwritten>> /\ Moves(d)
      /\ IsNode(node)' /\ node'.cfg = node.cfg /\ node'.run = node.run /\ node'.conf = node.conf
      /\ \/ job[d].restore = {} /\ pc'[d] = "unconf" /\ UNCHANGED <<node, job>>
         \/ \E i \in job[d].restore :
              /\ pc'[d] = "restore"
              /\ JobKept(d, {"restore"}) /\ job'[d].restore = job[d].restore \ {i}
              /\ \A j \in Iface : j # i => node'.live[j] = node.live[j]
              /\ faults' # 0 \/ node'.live[i] = StartAwg(node.conf[i])
  BY <1>0, RestoreInterfaceFacts
<1>2. faults' = 0 => faults = 0
  BY FaultsStep DEF Next, Push, IInv
<1>3. CASE job[d].restore = {} /\ pc'[d] = "unconf" /\ UNCHANGED <<node, job>>
  <2>1. JobShape(d)'
    BY <1>0, <1>1, <1>3 DEF JobShape
  <2>2. Progress(d)'
    BY <1>0, <1>1, <1>3 DEF Progress, Untouched, OnTheWay, KernelPushed, CfgPushed, RunPushed, Locked, Step, Target
  <2>3. Clean(d)' => Undoable(d)'
    BY <1>0, <1>1, <1>2, <1>3
       DEF Undoable, Clean, Settled, Locked, Step, Replacing, Target, Progress, Untouched,
           OnTheWay, KernelPushed, CfgPushed, RunPushed
  <2> QED BY <2>1, <2>2, <2>3 DEF Sound
<1>4. CASE \E i \in job[d].restore :
              /\ pc'[d] = "restore"
              /\ JobKept(d, {"restore"}) /\ job'[d].restore = job[d].restore \ {i}
              /\ \A j \in Iface : j # i => node'.live[j] = node.live[j]
              /\ faults' # 0 \/ node'.live[i] = StartAwg(node.conf[i])
  <2>1. JobShape(d)'
    BY <1>0, <1>1, <1>4, KeptFields DEF JobShape, JobKept
  <2>2. Progress(d)'
    BY <1>0, <1>1, <1>4, KeptFields
       DEF Progress, Untouched, OnTheWay, KernelPushed, CfgPushed, RunPushed, Locked, Step, Target
  <2>3. Clean(d)' => Undoable(d)'
    BY <1>0, <1>1, <1>2, <1>4, KeptFields
       DEF Undoable, Clean, Settled, Locked, Step, Replacing, Target, Progress, Untouched,
           OnTheWay, KernelPushed, CfgPushed, RunPushed
  <2> QED BY <2>1, <2>2, <2>3 DEF Sound
<1> QED BY <1>1, <1>3, <1>4

LEMMA RollbackConfStep ==
    ASSUME IInv, NEW d \in Deployer, RollbackConf(d)
    PROVE  Sound(d)'
<1>0. /\ Shapes /\ IsNode(node) /\ FaultsCounted /\ JobShape(d)
      /\ Progress(d) /\ (Clean(d) => Undoable(d))
  BY DEF IInv, Shapes
<1>1. /\ pc[d] = "unconf" /\ UNCHANGED <<lock, before, overwritten>> /\ Moves(d)
      /\ IsNode(node)' /\ node'.cfg = node.cfg /\ node'.run = node.run
      /\ \/ job[d].records = {} /\ pc'[d] = "return" /\ UNCHANGED <<node, job>>
         \/ \E i \in job[d].records :
              /\ pc'[d] = "unconf"
              /\ JobKept(d, {"records"}) /\ job'[d].records = job[d].records \ {i}
              /\ \A j \in Iface : j # i => node'.conf[j] = node.conf[j] /\ node'.live[j] = node.live[j]
              /\ \/ faults' # 0 \/ job[d].bak[i] = NoPath
                 \/ /\ node'.conf[i] = Restored(node.conf[i], job[d].bak[i])
                    /\ node'.live[i] = StartAwg(node'.conf[i])
  BY <1>0, RollbackConfFacts
<1>2. faults' = 0 => faults = 0
  BY FaultsStep DEF Next, Push, IInv
<1>3. CASE job[d].records = {} /\ pc'[d] = "return" /\ UNCHANGED <<node, job>>
  <2>1. JobShape(d)'
    BY <1>0, <1>1, <1>3 DEF JobShape
  <2>2. Progress(d)'
    BY <1>0, <1>1, <1>3 DEF Progress, Untouched, OnTheWay, KernelPushed, CfgPushed, RunPushed, Locked, Step, Target
  <2>3. Clean(d)' => Undoable(d)'
    BY <1>0, <1>1, <1>2, <1>3
       DEF Undoable, Clean, Settled, Locked, Step, Replacing, Target, Progress, Untouched,
           OnTheWay, KernelPushed, CfgPushed, RunPushed
  <2> QED BY <2>1, <2>2, <2>3 DEF Sound
<1>4. CASE \E i \in job[d].records :
              /\ pc'[d] = "unconf"
              /\ JobKept(d, {"records"}) /\ job'[d].records = job[d].records \ {i}
              /\ \A j \in Iface : j # i => node'.conf[j] = node.conf[j] /\ node'.live[j] = node.live[j]
              /\ \/ faults' # 0 \/ job[d].bak[i] = NoPath
                 \/ /\ node'.conf[i] = Restored(node.conf[i], job[d].bak[i])
                    /\ node'.live[i] = StartAwg(node'.conf[i])
  <2>1. JobShape(d)'
    BY <1>0, <1>1, <1>4, VersionAssumption, KeptFields DEF JobShape, JobKept
  <2>2. Progress(d)'
    BY <1>0, <1>1, <1>4, VersionAssumption, KeptFields
       DEF Progress, Untouched, OnTheWay, KernelPushed, CfgPushed, RunPushed, Locked, Step, Target
  <2>3. Clean(d)' => Undoable(d)'
    <3>1. SUFFICES ASSUME Clean(d)'
                   PROVE  Undoable(d)'
      OBVIOUS
    <3>2. PICK i \in job[d].records :
             /\ pc'[d] = "unconf"
             /\ JobKept(d, {"records"}) /\ job'[d].records = job[d].records \ {i}
             /\ \A j \in Iface : j # i => node'.conf[j] = node.conf[j] /\ node'.live[j] = node.live[j]
             /\ \/ faults' # 0 \/ job[d].bak[i] = NoPath
                \/ /\ node'.conf[i] = Restored(node.conf[i], job[d].bak[i])
                   /\ node'.live[i] = StartAwg(node'.conf[i])
      BY <1>4
    <3>3. /\ job'[d].target = job[d].target /\ job'[d].cur = job[d].cur /\ job'[d].bak = job[d].bak
          /\ job'[d].restore = job[d].restore
      BY <3>2, KeptFields
    <3>4. Undoable(d) /\ Settled(before, Target(d)) /\ job[d].cur = {} /\ job[d].restore = {}
      BY <1>0, <1>1, <1>2, <3>1, <3>3 DEF Clean, Undoable, Locked, Step, Target
    <3>5. i \in Iface /\ i \in Rendered[Target(d)] /\ job[d].records \subseteq Iface
      BY <1>0, <1>1 DEF Progress, JobShape, Locked, Step
    <3>6. before.conf[i] # NoPath
      BY <1>1, <3>5, IsBefore, ConstantAssumption DEF IsNode, FileContent, Locked, Step
    <3>7. /\ job[d].bak[i] = before.conf[i] /\ before.conf[i] # NoFile
          /\ before.live[i] = StartAwg(before.conf[i])
      BY <3>4, <3>5 DEF Undoable, Settled
    <3>8. node'.conf[i] = before.conf[i] /\ node'.live[i] = before.live[i]
      BY <3>1, <3>2, <3>6, <3>7 DEF Clean, Restored
    <3> QED BY <1>1, <3>2, <3>3, <3>4, <3>5, <3>8 DEF Undoable, Replacing
  <2> QED BY <2>1, <2>2, <2>3 DEF Sound
<1> QED BY <1>1, <1>3, <1>4

\* A deployer that is not in a push has nothing to undo.
LEMMA NewJobSound ==
    ASSUME NEW d \in Deployer, NewShape(d), pc'[d] \in {"idle", "start", "ready"}
    PROVE  Sound(d)'
<1>1. job'[d].target \in Version /\ Rendered[job'[d].target] \subseteq Iface
  BY VersionAssumption DEF NewShape
<1>2. JobShape(d)'
  BY <1>1 DEF NewShape, JobShape
<1>3. Progress(d)'
  BY DEF NewShape, Progress, Untouched, Locked, Target
<1> QED BY <1>2, <1>3 DEF Sound, Clean, Locked

LEMMA StartUnitStep ==
    ASSUME IInv, NEW d \in Deployer, StartUnit(d)
    PROVE  Sound(d)'
<1>1. JobShape(d) /\ Progress(d) /\ Shapes
  BY DEF IInv, Shapes
<1>2. pc[d] = "start"
  BY DEF StartUnit
<1>3. CASE pc'[d] = "ready" /\ UNCHANGED job
  BY <1>1, <1>2, <1>3 DEF Sound, JobShape, Progress, Untouched, Clean, Locked, Target
<1>4. CASE pc'[d] = "idle" /\ NewShape(d)
  BY <1>4, NewJobSound
<1> QED BY <1>1, <1>3, <1>4, StartUnitFacts

LEMMA LockStep ==
    ASSUME IInv, NEW d \in Deployer, Lock(d)
    PROVE  Sound(d)'
<1>1. JobShape(d) /\ Progress(d) /\ Shapes
  BY DEF IInv, Shapes
<1>2. /\ pc[d] = "ready" /\ before' = node /\ UNCHANGED <<node, job>>
      /\ pc'[d] = IF Rendered[Target(d)] = {} THEN "teardown" ELSE "prepare"
  BY <1>1, LockFacts
<1>3. Untouched(d)
  BY <1>1, <1>2 DEF Progress
<1>4. JobShape(d)'
  BY <1>1, <1>2 DEF JobShape
<1>5. Progress(d)'
  BY <1>1, <1>2, <1>3 DEF Progress, Untouched, KernelPushed, CfgPushed, RunPushed, Locked, Step, Target
<1>6. Undoable(d)'
  BY <1>2, <1>3 DEF Undoable, Untouched, Replacing
<1> QED BY <1>4, <1>5, <1>6 DEF Sound

-----------------------------------------------------------------------------
(* Every step keeps the invariant *)

\* A step that the other pushes do not see, but for a restart of sing-box and for the
\* config that an installation writes.
Harmless ==
    /\ node'.conf = node.conf /\ node'.live = node.live
    /\ \/ /\ node'.cfg = node.cfg /\ node'.run \in {node.run, StartSingBox(node.cfg)}
          /\ UNCHANGED overwritten
       \/ node'.cfg \in {node.cfg, Torn, Minimal} /\ node'.run = node.run /\ overwritten'
    /\ UNCHANGED <<lock, before>>

\* A deployer that does not move keeps its invariant when no push is disturbed.
LEMMA OthersSound ==
    ASSUME IInv, FaultsCounted', faults' = 0 => faults = 0,
           NEW q \in Deployer, pc'[q] = pc[q], job'[q] = job[q],
           pc[q] \in Locked => Harmless
    PROVE  Sound(q)'
<1>1. JobShape(q) /\ Progress(q) /\ (Clean(q) => Undoable(q))
  BY DEF IInv, Shapes
<1>2. JobShape(q)'
  BY <1>1 DEF JobShape
<1>3. CASE pc[q] \notin Locked
  <2>1. Progress(q)'
    BY <1>1, <1>3 DEF Progress, Untouched, Locked, Step, Target
  <2> QED BY <1>2, <1>3, <2>1 DEF Sound, Clean
<1>4. CASE pc[q] \in Locked
  <2>1. Progress(q)'
    <3>1. CfgPushed(q) => CfgPushed(q)'
      BY <1>4 DEF Harmless, CfgPushed, Target
    <3>2. CfgPushed(q) /\ RunPushed(q) => RunPushed(q)'
      BY <1>4, Started, InstalledRuns DEF Harmless, CfgPushed, RunPushed, Target
    <3>3. overwritten => overwritten'
      BY <1>4 DEF Harmless
    <3> QED BY <1>1, <1>4, <3>1, <3>2, <3>3
            DEF Harmless, Progress, Untouched, OnTheWay, KernelPushed, Target
  <2>2. Clean(q)' => Clean(q)
    BY <1>4 DEF Harmless, Clean, Target
  <2>3. Clean(q)' => Undoable(q)'
    BY <1>1, <1>4, <2>2 DEF Harmless, Undoable, Clean, Settled
  <2> QED BY <1>2, <2>1, <2>3 DEF Sound
<1> QED BY <1>3, <1>4

\* The steps that belong to a push.
LockedStep(d) ==
    \/ Prepare(d) \/ PeerSync(d) \/ BackupConf(d) \/ PushConf(d) \/ EnableService(d) \/ Teardown(d)
    \/ BackupConfig(d) \/ PushAssets(d) \/ Upload(d) \/ Check(d) \/ Restart(d) \/ Probe(d)
    \/ Rollback(d) \/ RestoreInterface(d) \/ RollbackConf(d)

LEMMA LockedStepFacts ==
    ASSUME IInv, NEW d \in Deployer, LockedStep(d)
    PROVE  /\ pc[d] \in Locked /\ UNCHANGED <<lock, before, overwritten>> /\ Moves(d) /\ IsNode(node)'
           /\ Sound(d)'
<1>1. Shapes /\ FaultsCounted /\ IsNode(node)
  BY DEF IInv, Shapes
<1>2. UNCHANGED node => IsNode(node)'
  BY <1>1 DEF IsNode
<1> USE <1>1, <1>2 DEF Locked, Step
<1>3. CASE Prepare(d)
  BY <1>3, PrepareFacts, PrepareStep
<1>4. CASE PeerSync(d)
  BY <1>4, PeerSyncFacts, PeerSyncStep
<1>5. CASE BackupConf(d)
  BY <1>5, BackupConfFacts, BackupConfStep
<1>6. CASE PushConf(d)
  BY <1>6, PushConfFacts, PushConfStep
<1>7. CASE EnableService(d)
  BY <1>7, EnableServiceFacts, EnableServiceStep
<1>8. CASE Teardown(d)
  BY <1>8, TeardownFacts, TeardownStep
<1>9. CASE BackupConfig(d)
  BY <1>9, BackupConfigFacts, BackupConfigStep
<1>10. CASE PushAssets(d)
  BY <1>10, PushAssetsFacts, PushAssetsStep
<1>11. CASE Upload(d)
  BY <1>11, UploadFacts, UploadStep
<1>12. CASE Check(d)
  BY <1>12, CheckFacts, CheckStep
<1>13. CASE Restart(d)
  BY <1>13, RestartFacts, RestartStep
<1>14. CASE Probe(d)
  BY <1>14, ProbeFacts, ProbeStep
<1>15. CASE Rollback(d)
  BY <1>15, RollbackFacts, RollbackStep
<1>16. CASE RestoreInterface(d)
  BY <1>16, RestoreInterfaceFacts, RestoreInterfaceStep
<1>17. CASE RollbackConf(d)
  BY <1>17, RollbackConfFacts, RollbackConfStep
<1> QED BY <1>3, <1>4, <1>5, <1>6, <1>7, <1>8, <1>9, <1>10, <1>11, <1>12, <1>13, <1>14, <1>15,
           <1>16, <1>17 DEF LockedStep

\* The invariant after a step, put together from what the step does to the deployer
\* that takes it and to the others.
LEMMA Together ==
    ASSUME IInv, Next, NEW d \in Deployer, Moves(d), IsNode(node)', Sound(d)',
           pc'[d] \in Locked => lock' = d /\ IsNode(before)',
           \A q \in Deployer : q # d /\ pc[q] \in Locked => Harmless
    PROVE  IInv'
<1>1. FaultsCounted' /\ (faults' = 0 => faults = 0)
  BY FaultsStep DEF IInv
<1>2. \A q \in Deployer : Sound(q)'
  BY <1>1, OthersSound DEF Moves
<1>3. Shapes'
  BY <1>2 DEF Shapes, Moves, Sound
<1>4. Exclusive'
  <2>1. SUFFICES ASSUME NEW q \in Deployer, pc'[q] \in Locked, q # d
                 PROVE  lock' = q /\ IsNode(before)'
    BY DEF Exclusive
  <2>2. pc[q] \in Locked /\ Harmless
    BY <2>1 DEF Moves
  <2> QED BY <2>2 DEF Harmless, IInv, Exclusive, IsNode
<1> QED BY <1>1, <1>2, <1>3, <1>4 DEF IInv, Sound

LEMMA StepInv == ASSUME IInv, Next PROVE IInv'
<1>0. Shapes /\ Exclusive /\ IsNode(node)
  BY DEF IInv, Shapes
<1>1. PICK d \in Deployer : (\E v \in Goals : Install(d, v)) \/ Lock(d) \/ Push(d) \/ Cancel(d)
  BY DEF Next
<1>2. \A q \in Deployer : q # d /\ pc[q] \in Locked => lock = q /\ lock # d /\ lock # Nobody
  BY <1>0, ConstantAssumption DEF Exclusive
<1>3. CASE \E v \in Goals : Install(d, v)
  <2>1. PICK v \in Goals : Install(d, v)
    BY <1>3
  <2>2. /\ Moves(d) /\ NewShape(d) /\ pc'[d] \in {"start", "idle"} /\ IsNode(node)'
        /\ lock # Nobody => Harmless
    BY <1>0, <2>1, InstallFacts DEF Harmless
  <2>3. Sound(d)' /\ pc'[d] \notin Locked
    BY <2>2, NewJobSound DEF Locked
  <2> QED BY <1>2, <2>2, <2>3, Together
<1>4. CASE StartUnit(d)
  <2>1. /\ Moves(d) /\ pc'[d] \in {"ready", "idle"} /\ IsNode(node)' /\ Harmless
    BY <1>0, <1>4, StartUnitFacts DEF Harmless
  <2>2. Sound(d)' /\ pc'[d] \notin Locked
    BY <1>4, <2>1, StartUnitStep DEF Locked
  <2> QED BY <2>1, <2>2, Together
<1>5. CASE Lock(d)
  <2>1. lock = Nobody /\ lock' = d /\ before' = node /\ Moves(d) /\ UNCHANGED node
    BY <1>0, <1>5, LockFacts
  <2>2. IsNode(node)' /\ IsNode(before)' /\ Sound(d)'
    BY <1>0, <1>5, <2>1, LockStep DEF IsNode
  <2> QED BY <1>2, <2>1, <2>2, Together
<1>6. CASE LockedStep(d)
  <2>1. /\ pc[d] \in Locked /\ UNCHANGED <<lock, before, overwritten>> /\ Moves(d) /\ IsNode(node)'
        /\ Sound(d)'
    BY <1>6, LockedStepFacts
  <2>2. lock = d /\ lock' = d /\ IsNode(before)'
    BY <1>0, <2>1 DEF Exclusive, IsNode
  <2> QED BY <1>2, <2>1, <2>2, Together
<1>7. CASE Return(d)
  <2>1. /\ pc[d] = "return" /\ UNCHANGED node /\ Moves(d) /\ pc'[d] = "idle" /\ NewShape(d)
    BY <1>0, <1>7, ReturnFacts
  <2>2. Sound(d)' /\ pc'[d] \notin Locked /\ IsNode(node)'
    BY <1>0, <2>1, NewJobSound DEF Locked, IsNode
  <2>3. lock = d
    BY <1>0, <2>1 DEF Exclusive, Locked, Step
  <2> QED BY <1>2, <2>1, <2>2, <2>3, Together
<1>8. CASE Cancel(d)
  <2>1. UNCHANGED <<node, lock, pc, job, before, overwritten>>
    BY <1>8, CancelFacts
  <2>2. Harmless
    BY <2>1 DEF Harmless
  <2>3. Moves(d) /\ IsNode(node)'
    BY <1>0, <2>1 DEF Moves, Shapes, IsNode
  <2>4. Sound(d)'
    BY <2>1, <2>2, FaultsStep, OthersSound DEF IInv
  <2>5. pc'[d] \in Locked => lock' = d /\ IsNode(before)'
    BY <1>0, <2>1 DEF Exclusive, IsNode
  <2> QED BY <2>2, <2>3, <2>4, <2>5, Together
<1> QED BY <1>1, <1>3, <1>4, <1>5, <1>6, <1>7, <1>8 DEF Push, LockedStep

LEMMA InitInv == ASSUME Init PROVE IInv
<1>1. IsNode(node)
  BY ConstantAssumption DEF Init, Node, IsNode, NodeFields
<1>2. /\ DOMAIN NewJob(Minimal) = JobFields /\ NewJob(Minimal).target = Minimal
      /\ NewJob(Minimal).todo = Rendered[Minimal] /\ NewJob(Minimal).records = {}
      /\ NewJob(Minimal).cur = {} /\ NewJob(Minimal).restart = {} /\ NewJob(Minimal).restore = {}
      /\ NewJob(Minimal).err = "none" /\ NewJob(Minimal).cbak = NoPath
      /\ NewJob(Minimal).bak = [i \in Iface |-> NoPath]
  BY DEF NewJob, JobFields
<1>3. Rendered[Minimal] \subseteq Iface /\ Minimal \in Version
  BY VersionAssumption
<1>4. \A d \in Deployer : pc[d] = "idle" /\ job[d] = NewJob(Minimal)
  BY DEF Init
<1>5. \A d \in Deployer : JobShape(d) /\ Progress(d) /\ ~Clean(d)
  <2> SUFFICES ASSUME NEW d \in Deployer
               PROVE  JobShape(d) /\ Progress(d) /\ ~Clean(d)
    OBVIOUS
  <2>1. JobShape(d)
    BY <1>2, <1>3, <1>4 DEF JobShape, Backup
  <2>2. Target(d) = Minimal /\ Untouched(d)
    BY <1>2, <1>4 DEF Target, Untouched
  <2>3. Progress(d)
    BY <1>2, <1>4, <2>2 DEF Progress, Locked
  <2> QED BY <1>4, <2>1, <2>3 DEF Clean, Locked
<1>6. Shapes
  BY <1>1, <1>5 DEF Shapes, Init, Step
<1>7. Exclusive /\ FaultsCounted
  BY <1>4 DEF Exclusive, FaultsCounted, Init, Locked
<1> QED BY <1>5, <1>6, <1>7 DEF IInv

LEMMA StutterInv == ASSUME IInv, UNCHANGED vars PROVE IInv'
BY DEF IInv, Shapes, IsNode, JobShape, Exclusive, FaultsCounted, Progress, Untouched, OnTheWay,
       KernelPushed, CfgPushed, RunPushed, Clean, Settled, Undoable, Target, vars

\* Every reachable state of the push satisfies the inductive invariant: one holder of the
\* host lock, both layers on the way to the target, and a way back from every step.
THEOREM Invariance == Spec => []IInv
<1>1. IInv /\ [Next]_vars => IInv'
  BY StepInv, StutterInv
<1> QED BY <1>1, InitInv, PTL DEF Spec

-----------------------------------------------------------------------------
(* Theorems *)

\* A push that reports success has left its version in both layers of the node
\* (pushConfigWithAWGTeardown): the config, the kernel confs and the services, for any
\* number of deployers and failed commands. If an installation, which takes no host lock,
\* wrote the sing-box config meanwhile, that layer may have its minimal config instead.
THEOREM SuccessRunsTargetThm == Spec => []SuccessRunsTarget
<1>1. IInv => SuccessRunsTarget
  <2>1. SUFFICES ASSUME IInv, NEW d \in Deployer, pc[d] = "return", job[d].err = "none"
                 PROVE  /\ KernelPushed(d)
                        /\ \/ node.cfg = Target(d) /\ node.run = Target(d)
                           \/ /\ overwritten
                              /\ node.cfg \in {Target(d), Minimal, Torn}
                              /\ node.run \in {Target(d), Minimal, Down}
    BY DEF SuccessRunsTarget, KernelPushed
  <2>2. KernelPushed(d) /\ CfgPushed(d) /\ RunPushed(d) /\ (overwritten \/ Target(d) \in ServiceOK)
    BY <2>1 DEF IInv, Progress
  <2> QED BY <2>2 DEF CfgPushed, RunPushed, StartSingBox
<1> QED BY <1>1, Invariance, PTL

\* A push that fails without a failed command puts a settled node back as it found it
\* (performRollback, restoreAWGInterfaces, rollbackAWGConfs): file by file and service by
\* service, whichever step of the push gave up. Of the sing-box layer nothing is said if
\* an installation wrote its config meanwhile.
THEOREM CleanFailureRestoresNodeThm == Spec => []CleanFailureRestoresNode
<1>1. IInv => CleanFailureRestoresNode
  <2>1. SUFFICES ASSUME IInv, NEW d \in Deployer, pc[d] = "return", job[d].err # "none",
                        faults = 0, Settled(before, Target(d))
                 PROVE  /\ node.conf = before.conf /\ node.live = before.live
                        /\ node = before \/ overwritten
    BY DEF CleanFailureRestoresNode
  <2>2. Undoable(d) /\ IsNode(node) /\ IsNode(before)
    BY <2>1, IsBefore DEF IInv, Shapes, Clean, Locked, Step
  <2>3. (node.cfg = before.cfg /\ node.run = before.run) \/ overwritten
    BY <2>1, <2>2 DEF Undoable, Replacing
  <2>4. \A i \in Iface : node.conf[i] = before.conf[i] /\ node.live[i] = before.live[i]
    BY <2>1, <2>2 DEF Undoable
  <2>5. node.conf = before.conf /\ node.live = before.live
    BY <2>2, <2>4 DEF IsNode
  <2> QED BY <2>2, <2>3, <2>4, <2>5, SameNode
<1> QED BY <1>1, Invariance, PTL
=============================================================================
