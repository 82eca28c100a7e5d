--------------------------- MODULE Deploys_proofs ---------------------------
(***************************************************************************)
(* Theorems about deploys.  The first part is about Deploys: the tasks of  *)
(* the panel, for every fleet, every number of concurrent deploys and      *)
(* handlers, every capacity of the semaphore and every bound on the        *)
(* operator's actions.  The second part is about Cascade: what deploys     *)
(* make of the chains, for every fleet, every set of forms, users, pins    *)
(* and deploys, one deploy at a time.                                      *)
(***************************************************************************)
EXTENDS Deploys, Cascade, FiniteSetTheorems, WellFoundedInduction, NaturalsInduction, TLAPS

USE BoundAssumption

-----------------------------------------------------------------------------
(* The inductive invariant *)

\* A NodeInfo, whatever its list of outbounds.
IsInfo(i) == DOMAIN i = {"outs", "auto", "hash"}

IsTask(x) ==
    /\ DOMAIN x = {"pc", "node", "bg", "copy", "cfg", "fresh"}
    /\ x.pc \in Step
    /\ x.bg \in BOOLEAN

IsReq(x) ==
    /\ DOMAIN x = {"pc", "node", "copy"}
    /\ x.pc \in {"idle", "edit"}

Shapes ==
    /\ info = [n \in Node |-> info[n]]
    /\ applied = [n \in Node |-> applied[n]]
    /\ lock = [n \in Node |-> lock[n]]
    /\ task = [t \in Task |-> task[t]]
    /\ req = [r \in Request |-> req[r]]
    /\ \A t \in Task : IsTask(task[t])
    /\ \A r \in Request : IsReq(req[r])

\* A task that is not there is empty, one that is has a node.
TasksPlaced ==
    /\ \A t \in Task : task[t].pc = "free" => ~task[t].bg
    /\ \A t \in Task : task[t].pc # "free" => task[t].node \in Node
    /\ \A t \in Task : task[t].pc = "queued" => task[t].bg
    /\ \A r \in Request : req[r].pc = "edit" => req[r].node \in Node

\* What a copy of the NodeInfo of a node may say, given what was applied there.
Honest(i, done) == i # NoInfo => IsInfo(i) /\ i.hash \in done \cup {NoConfig}

\* Every copy anybody holds is honest, not only the stored one: each of them is
\* saved again some time.
CopiesHonest ==
    /\ \A n \in Node : Honest(info[n], applied[n])
    /\ \A t \in Task : task[t].pc # "free" =>
          /\ Honest(task[t].copy, applied[task[t].node])
          /\ Honest(task[t].fresh, applied[task[t].node])
    /\ \A r \in Request : req[r].pc = "edit" =>
          req[r].copy # NoInfo /\ Honest(req[r].copy, applied[req[r].node])

\* A deploy records a hash only after its push succeeded.
StampEarned ==
    \A t \in Task :
        /\ task[t].pc \in {"stampread", "stamp"} => task[t].cfg \in applied[task[t].node]
        /\ task[t].pc = "stamp" => IsInfo(task[t].fresh)

\* A push holds the mutex of its host, and nobody else does.
HolderPushes ==
    /\ \A t \in Task : task[t].pc = "pushing" => lock[task[t].node] = t
    /\ \A n \in Node : \A t \in Task :
          lock[n] = t => task[t].pc = "pushing" /\ task[t].node = n

\* The background deploys past the semaphore.
Running == {t \in Task : task[t].bg /\ task[t].pc # "queued"}

SlotInv == slots = Cardinality(Running) /\ slots \in 0 .. MaxConcurrent

Core == Shapes /\ TasksPlaced

IInv == Core /\ CopiesHonest /\ StampEarned /\ HolderPushes /\ SlotInv

-----------------------------------------------------------------------------
(* What a step does to a task, and which steps there are *)

\* The records of a task and a handler that are not there.
LEMMA EmptyRecords ==
    /\ IsTask(NoTask) /\ NoTask.pc = "free" /\ ~NoTask.bg
    /\ IsReq(NoReq) /\ NoReq.pc = "idle"
BY DEF IsTask, NoTask, NewTask, Step, IsReq, NoReq

\* A save of an edited NodeInfo changes its list and schedules a deploy.
LEMMA SaveFacts ==
    ASSUME Core, CopiesHonest, NEW r \in Request, Save(r)
    PROVE  \E n \in Node, t \in Task : \E i :
              /\ phase # "exited"
              /\ IsInfo(i) /\ Honest(i, applied[n])
              /\ info' = [info EXCEPT ![n] = i]
              /\ task[t].pc = "free"
              /\ task' = [task EXCEPT ![t] = NewTask("queued", n, TRUE, NoInfo)]
              /\ req' = [req EXCEPT ![r] = NoReq]
              /\ UNCHANGED <<remote, lock, slots, phase, ops, applied>>
<1> DEFINE n == req[r].node
           c == req[r].copy
<1>1. req[r].pc = "edit" /\ phase # "exited"
  BY DEF Save, SaveAddedOutbound, SaveDeletedOutbound, Alive
<1>2. n \in Node /\ IsInfo(c) /\ c.hash \in applied[n] \cup {NoConfig}
  BY <1>1 DEF Core, TasksPlaced, CopiesHonest, Honest
<1>3. \A o : IsInfo([c EXCEPT !.outs = o]) /\ Honest([c EXCEPT !.outs = o], applied[n])
  <2> SUFFICES ASSUME NEW o
               PROVE  IsInfo([c EXCEPT !.outs = o]) /\ Honest([c EXCEPT !.outs = o], applied[n])
    OBVIOUS
  <2> DEFINE i == [c EXCEPT !.outs = o]
  <2>1. IsInfo(i) /\ i.hash = c.hash
    BY <1>2 DEF IsInfo
  <2> QED BY <1>2, <2>1 DEF Honest
<1>4. \E o : info' = [info EXCEPT ![n] = [c EXCEPT !.outs = o]]
  BY DEF Save, SaveAddedOutbound, SaveDeletedOutbound, SaveNodeInfo
<1>5. PICK t \in Task : /\ task[t].pc = "free"
                        /\ task' = [task EXCEPT ![t] = NewTask("queued", n, TRUE, NoInfo)]
  BY DEF Save, SaveAddedOutbound, SaveDeletedOutbound, ScheduleAutoApply, SetTask
<1>6. /\ req' = [req EXCEPT ![r] = NoReq]
      /\ UNCHANGED <<remote, lock, slots, phase, ops, applied>>
  BY DEF Save, SaveAddedOutbound, SaveDeletedOutbound
<1> QED BY <1>1, <1>2, <1>3, <1>4, <1>5, <1>6

\* Task t, and no other, goes from one step to another; it keeps its node and who
\* started it, and copy, cfg and fresh become those given.
Move(t, from, to, copy, cfg, fresh) ==
    /\ phase # "exited"
    /\ task[t].pc = from
    /\ task' = [u \in Task |-> task'[u]]
    /\ \A u \in Task : u # t => task'[u] = task[u]
    /\ IsTask(task'[t])
    /\ task'[t].pc = to
    /\ task'[t].node = task[t].node /\ task'[t].bg = task[t].bg
    /\ task'[t].copy = copy /\ task'[t].cfg = cfg /\ task'[t].fresh = fresh

LEMMA SetTaskFacts ==
    ASSUME Core, NEW t \in Task, NEW x, SetTask(t, x)
    PROVE  /\ task'[t] = x
           /\ task' = [u \in Task |-> task'[u]]
           /\ \A u \in Task : u # t => task'[u] = task[u]
BY DEF Core, Shapes, SetTask

LEMMA GotoMoves ==
    ASSUME Core, NEW t \in Task, phase # "exited", NEW s \in Step
    PROVE  /\ Goto(t, s) =>
                 Move(t, task[t].pc, s, task[t].copy, task[t].cfg, task[t].fresh)
           /\ \A v : SetTask(t, [task[t] EXCEPT !.pc = s, !.copy = v]) =>
                 Move(t, task[t].pc, s, v, task[t].cfg, task[t].fresh)
           /\ \A v : SetTask(t, [task[t] EXCEPT !.pc = s, !.cfg = v]) =>
                 Move(t, task[t].pc, s, task[t].copy, v, task[t].fresh)
           /\ \A v : SetTask(t, [task[t] EXCEPT !.pc = s, !.fresh = v]) =>
                 Move(t, task[t].pc, s, task[t].copy, task[t].cfg, v)
<1>1. IsTask(task[t])
  BY DEF Core, Shapes
<1>2. ASSUME Goto(t, s)
      PROVE  Move(t, task[t].pc, s, task[t].copy, task[t].cfg, task[t].fresh)
  <2> DEFINE y == [task[t] EXCEPT !.pc = s]
  <2>1. /\ IsTask(y) /\ y.pc = s /\ y.node = task[t].node /\ y.bg = task[t].bg
        /\ y.copy = task[t].copy /\ y.cfg = task[t].cfg /\ y.fresh = task[t].fresh
    BY <1>1 DEF IsTask
  <2>2. SetTask(t, y)
    BY <1>2 DEF Goto
  <2> HIDE DEF y
  <2> QED BY <2>1, <2>2, SetTaskFacts DEF Move
<1>3. ASSUME NEW v, SetTask(t, [task[t] EXCEPT !.pc = s, !.copy = v])
      PROVE  Move(t, task[t].pc, s, v, task[t].cfg, task[t].fresh)
  <2> DEFINE y == [task[t] EXCEPT !.pc = s, !.copy = v]
  <2>1. /\ IsTask(y) /\ y.pc = s /\ y.node = task[t].node /\ y.bg = task[t].bg
        /\ y.copy = v /\ y.cfg = task[t].cfg /\ y.fresh = task[t].fresh
    BY <1>1 DEF IsTask
  <2>2. SetTask(t, y)
    BY <1>3
  <2> HIDE DEF y
  <2> QED BY <2>1, <2>2, SetTaskFacts DEF Move
<1>4. ASSUME NEW v, SetTask(t, [task[t] EXCEPT !.pc = s, !.cfg = v])
      PROVE  Move(t, task[t].pc, s, task[t].copy, v, task[t].fresh)
  <2> DEFINE y == [task[t] EXCEPT !.pc = s, !.cfg = v]
  <2>1. /\ IsTask(y) /\ y.pc = s /\ y.node = task[t].node /\ y.bg = task[t].bg
        /\ y.copy = task[t].copy /\ y.cfg = v /\ y.fresh = task[t].fresh
    BY <1>1 DEF IsTask
  <2>2. SetTask(t, y)
    BY <1>4
  <2> HIDE DEF y
  <2> QED BY <2>1, <2>2, SetTaskFacts DEF Move
<1>5. ASSUME NEW v, SetTask(t, [task[t] EXCEPT !.pc = s, !.fresh = v])
      PROVE  Move(t, task[t].pc, s, task[t].copy, task[t].cfg, v)
  <2> DEFINE y == [task[t] EXCEPT !.pc = s, !.fresh = v]
  <2>1. /\ IsTask(y) /\ y.pc = s /\ y.node = task[t].node /\ y.bg = task[t].bg
        /\ y.copy = task[t].copy /\ y.cfg = task[t].cfg /\ y.fresh = v
    BY <1>1 DEF IsTask
  <2>2. SetTask(t, y)
    BY <1>5
  <2> HIDE DEF y
  <2> QED BY <2>1, <2>2, SetTaskFacts DEF Move
<1> QED BY <1>2, <1>3, <1>4, <1>5

\* The steps of a deploy, each with what it does to the task and the NodeInfo.
Stay(t, from, to) == Move(t, from, to, task[t].copy, task[t].cfg, task[t].fresh)

LEMMA StepNames ==
    {"free", "queued", "load", "persist", "connect", "push", "pushing",
     "stampread", "stamp", "end"} \subseteq Step
BY DEF Step

LEMMA AcquireSlotFacts ==
    ASSUME Core, NEW t \in Task, AcquireSlot(t)
    PROVE  Stay(t, "queued", "load")
BY StepNames, GotoMoves DEF AcquireSlot, Alive, Stay

LEMMA LoadNodeFacts ==
    ASSUME Core, NEW t \in Task, LoadNode(t)
    PROVE  \/ Stay(t, "load", "end")
           \/ Move(t, "load", "persist", info[task[t].node], task[t].cfg, task[t].fresh)
BY StepNames, GotoMoves DEF LoadNode, Alive, Stay

LEMMA PersistFacts ==
    ASSUME Core, NEW t \in Task, PersistMaterial(t)
    PROVE  \/ Stay(t, "persist", "end") /\ UNCHANGED info
           \/ Stay(t, "persist", "connect") /\ SaveNodeInfo(task[t].node, task[t].copy)
BY StepNames, GotoMoves DEF PersistMaterial, Alive, Stay

LEMMA ConnectFacts ==
    ASSUME Core, NEW t \in Task, ConnectAndRender(t)
    PROVE  /\ \/ Stay(t, "connect", "end")
              \/ Move(t, "connect", "push", task[t].copy, task[t].copy.outs, task[t].fresh)
           /\ UNCHANGED info \/ SaveNodeInfo(task[t].node, task[t].copy)
<1> DEFINE v == task[t].copy.outs
<1>1. /\ task[t].pc = "connect" /\ phase # "exited"
      /\ UNCHANGED info \/ SaveNodeInfo(task[t].node, task[t].copy)
      /\ Goto(t, "end") \/ SetTask(t, [task[t] EXCEPT !.pc = "push", !.cfg = v])
  BY DEF ConnectAndRender, Alive
<1> HIDE DEF v
<1>2. \/ Stay(t, "connect", "end")
      \/ Move(t, "connect", "push", task[t].copy, v, task[t].fresh)
  BY <1>1, StepNames, GotoMoves DEF Stay
<1> QED BY <1>1, <1>2 DEF v

LEMMA LockHostFacts ==
    ASSUME Core, NEW t \in Task, LockHost(t)
    PROVE  Stay(t, "push", "pushing")
BY StepNames, GotoMoves DEF LockHost, Alive, Stay

LEMMA PushFacts ==
    ASSUME Core, NEW t \in Task, PushConfig(t)
    PROVE  \/ Stay(t, "pushing", "end") /\ UNCHANGED applied
           \/ /\ Stay(t, "pushing", "stampread")
              /\ applied' = [applied EXCEPT ![task[t].node] = @ \cup {task[t].cfg}]
<1>1. /\ phase # "exited" /\ task[t].pc = "pushing"
      /\ UNCHANGED <<hosts, info, slots, req, phase, ops>>
      /\ \/ Goto(t, "end") /\ UNCHANGED applied
         \/ /\ Goto(t, "stampread")
            /\ applied' = [applied EXCEPT ![task[t].node] = @ \cup {task[t].cfg}]
  BY DEF PushConfig, Alive
<1>2. CASE Goto(t, "end")
  BY <1>1, <1>2, StepNames, GotoMoves DEF Stay
<1>3. CASE Goto(t, "stampread")
  BY <1>1, <1>3, StepNames, GotoMoves DEF Stay
<1> QED BY <1>1, <1>2, <1>3

LEMMA StampReadFacts ==
    ASSUME Core, NEW t \in Task, StampRead(t)
    PROVE  Move(t, "stampread", "stamp", task[t].copy, task[t].cfg,
                IF info[task[t].node] = NoInfo THEN EmptyInfo ELSE info[task[t].node])
<1> DEFINE v == IF info[task[t].node] = NoInfo THEN EmptyInfo ELSE info[task[t].node]
<1>1. /\ task[t].pc = "stampread" /\ phase # "exited"
      /\ SetTask(t, [task[t] EXCEPT !.pc = "stamp", !.fresh = v])
  BY DEF StampRead, Alive, EmptyInfo
<1> HIDE DEF v
<1>2. Move(t, "stampread", "stamp", task[t].copy, task[t].cfg, v)
  BY <1>1, StepNames, GotoMoves
<1> QED BY <1>2 DEF v

LEMMA StampFacts ==
    ASSUME Core, NEW t \in Task, Stamp(t)
    PROVE  /\ Stay(t, "stamp", "end")
           /\ SaveNodeInfo(task[t].node, [task[t].fresh EXCEPT !.hash = task[t].cfg])
BY StepNames, GotoMoves DEF Stamp, Alive, Stay

LEMMA EndFacts ==
    ASSUME Core, NEW t \in Task, End(t)
    PROVE  /\ phase # "exited" /\ task[t].pc = "end"
           /\ task' = [u \in Task |-> task'[u]]
           /\ task'[t] = NoTask
           /\ \A u \in Task : u # t => task'[u] = task[u]
           /\ UNCHANGED info \/ SaveNodeInfo(task[t].node, task[t].copy)
BY SetTaskFacts DEF End, Alive

-----------------------------------------------------------------------------
(* The invariant holds initially and every step keeps it *)

LEMMA InitIInv == Init => IInv
<1> SUFFICES ASSUME Init PROVE IInv
  OBVIOUS
<1> USE EmptyRecords DEF Init
<1>1. Core
  <2>1. Shapes
    BY DEF Shapes
  <2>2. TasksPlaced
    BY DEF TasksPlaced
  <2> QED BY <2>1, <2>2 DEF Core
<1>2. ASSUME NEW n \in Node PROVE Honest(info[n], applied[n])
  <2>1. IsInfo(info[n])
    BY DEF IsInfo
  <2>2. info[n].hash \in applied[n] \cup {NoConfig}
    OBVIOUS
  <2> QED BY <2>1, <2>2 DEF Honest
<1>3. CopiesHonest
  BY <1>2 DEF CopiesHonest
<1>4. StampEarned
  BY DEF StampEarned
<1>5. HolderPushes
  BY DEF HolderPushes
<1>6. SlotInv
  <2>1. Running = {}
    BY DEF Running
  <2> QED BY <2>1, FS_EmptySet DEF SlotInv
<1> QED BY <1>1, <1>3, <1>4, <1>5, <1>6 DEF IInv

\* A step within a deploy.
Within(t) ==
    \E from, to \in Step \ {"free"} : \E c, g, f :
        to # "queued" /\ Move(t, from, to, c, g, f)

LEMMA WithinSteps ==
    ASSUME Core, NEW t \in Task,
           \/ AcquireSlot(t) \/ LoadNode(t) \/ PersistMaterial(t) \/ ConnectAndRender(t)
           \/ LockHost(t) \/ PushConfig(t) \/ StampRead(t) \/ Stamp(t)
    PROVE  Within(t)
<1>1. ASSUME NEW from \in Step \ {"free"}, NEW to \in Step \ {"free", "queued"},
             Stay(t, from, to)
      PROVE  Within(t)
  BY <1>1 DEF Within, Stay
<1>2. ASSUME NEW from \in Step \ {"free"}, NEW to \in Step \ {"free", "queued"},
             NEW c, NEW g, NEW f, Move(t, from, to, c, g, f)
      PROVE  Within(t)
  BY <1>2 DEF Within
<1> USE StepNames
<1>3. CASE AcquireSlot(t)
  BY <1>1, <1>3, AcquireSlotFacts
<1>4. CASE LoadNode(t)
  BY <1>1, <1>2, <1>4, LoadNodeFacts
<1>5. CASE PersistMaterial(t)
  BY <1>1, <1>5, PersistFacts
<1>6. CASE ConnectAndRender(t)
  BY <1>1, <1>2, <1>6, ConnectFacts
<1>7. CASE LockHost(t)
  BY <1>1, <1>7, LockHostFacts
<1>8. CASE PushConfig(t)
  BY <1>1, <1>8, PushFacts
<1>9. CASE StampRead(t)
  BY <1>2, <1>9, StampReadFacts
<1>10. CASE Stamp(t)
  BY <1>1, <1>10, StampFacts
<1> QED BY <1>3, <1>4, <1>5, <1>6, <1>7, <1>8, <1>9, <1>10

\* The maps of the module keep their domains.
Maps ==
    /\ info = [n \in Node |-> info[n]]
    /\ applied = [n \in Node |-> applied[n]]
    /\ lock = [n \in Node |-> lock[n]]

LEMMA MapsStep == ASSUME Maps, Next PROVE Maps'
<1> USE DEF Maps, SaveNodeInfo
<1>1. CASE UNCHANGED <<info, applied, lock>>
  BY <1>1
<1>2. ASSUME NEW t \in Task, PersistMaterial(t) \/ ConnectAndRender(t) \/ Stamp(t) \/ End(t)
      PROVE  Maps'
  <2>1. UNCHANGED <<applied, lock>>
    BY <1>2 DEF PersistMaterial, ConnectAndRender, Stamp, End
  <2>2. UNCHANGED info \/ \E n, i : info' = [info EXCEPT ![n] = i]
    BY <1>2, Zenon DEF PersistMaterial, ConnectAndRender, Stamp, End
  <2> QED BY <2>1, <2>2
<1>3. ASSUME NEW t \in Task, LockHost(t) PROVE Maps'
  BY <1>3 DEF LockHost
<1>4. ASSUME NEW t \in Task, PushConfig(t) PROVE Maps'
  BY <1>4 DEF PushConfig
<1>5. ASSUME NEW r \in Request, Save(r) PROVE Maps'
  <2>1. UNCHANGED <<applied, lock>>
    BY <1>5 DEF Save, SaveAddedOutbound, SaveDeletedOutbound
  <2>2. \E n, i : info' = [info EXCEPT ![n] = i]
    BY <1>5, Zenon DEF Save, SaveAddedOutbound, SaveDeletedOutbound
  <2> QED BY <2>1, <2>2
<1>6. ASSUME NEW n \in Node, DeleteNode(n) \/ CaptureNode(n) PROVE Maps'
  BY <1>6 DEF DeleteNode, CaptureNode
<1>7. ASSUME NEW t \in Task, AcquireSlot(t) \/ LoadNode(t) \/ StampRead(t) PROVE Maps'
  BY <1>1, <1>7 DEF AcquireSlot, LoadNode, StampRead
<1>8. ASSUME NEW n \in Node, \/ PostCaptureInstall(n)
                             \/ \E r \in Request : EditNode(r, n)
                             \/ \E t \in Task : ApplyNode(t, n)
      PROVE  Maps'
  BY <1>1, <1>8 DEF PostCaptureInstall, EditNode, ApplyNode
<1>9. CASE Signal \/ Drain \/ Exit \/ Exited
  BY <1>1, <1>9 DEF Signal, Drain, Exit, Exited, vars
<1> QED BY <1>2, <1>3, <1>4, <1>5, <1>6, <1>7, <1>8, <1>9 DEF Next, Deploy

LEMMA CoreStep == ASSUME Core, CopiesHonest, Next PROVE Core'
<1>0. Maps'
  BY MapsStep DEF Core, Shapes, Maps
<1>1. ASSUME NEW t \in Task, Within(t), UNCHANGED req
      PROVE  Core'
  BY <1>0, <1>1 DEF Core, Shapes, Maps, TasksPlaced, Within, Move
<1>2. ASSUME NEW t \in Task, End(t) PROVE Core'
  <2>1. UNCHANGED req
    BY <1>2 DEF End
  <2> QED BY <1>0, <1>2, <2>1, EndFacts, EmptyRecords DEF Core, Shapes, Maps, TasksPlaced
<1>3. ASSUME NEW r \in Request, Save(r) PROVE Core'
  <2>1. PICK n \in Node, t \in Task :
              /\ task' = [task EXCEPT ![t] = NewTask("queued", n, TRUE, NoInfo)]
              /\ req' = [req EXCEPT ![r] = NoReq]
    BY <1>3, SaveFacts
  <2> DEFINE x == NewTask("queued", n, TRUE, NoInfo)
  <2>2. IsTask(x) /\ x.pc = "queued" /\ x.node = n /\ x.bg
    BY DEF NewTask, IsTask, Step
  <2> HIDE DEF x
  <2>3. /\ task' = [u \in Task |-> task'[u]]
        /\ \A u \in Task : task'[u] = IF u = t THEN x ELSE task[u]
        /\ req' = [q \in Request |-> req'[q]]
        /\ \A q \in Request : req'[q] = IF q = r THEN NoReq ELSE req[q]
    BY <2>1 DEF Core, Shapes, x
  <2> QED BY <1>0, <2>2, <2>3, EmptyRecords DEF Core, Shapes, Maps, TasksPlaced
<1>4. ASSUME NEW n \in Node, NEW r \in Request, EditNode(r, n) PROVE Core'
  <2> DEFINE x == [pc |-> "edit", node |-> n, copy |-> info[n]]
  <2>1. IsReq(x) /\ x.pc = "edit" /\ x.node = n
    BY DEF IsReq
  <2> HIDE DEF x
  <2>2. /\ UNCHANGED task
        /\ req' = [q \in Request |-> req'[q]]
        /\ \A q \in Request : req'[q] = IF q = r THEN x ELSE req[q]
    BY <1>4 DEF Core, Shapes, EditNode, x
  <2> QED BY <1>0, <2>1, <2>2 DEF Core, Shapes, Maps, TasksPlaced
<1>5. ASSUME NEW n \in Node, NEW t \in Task, ApplyNode(t, n) PROVE Core'
  <2> DEFINE x == NewTask("persist", n, FALSE, info[n])
  <2>1. IsTask(x) /\ x.pc = "persist" /\ x.node = n
    BY DEF NewTask, IsTask, Step
  <2>2. SetTask(t, x) /\ UNCHANGED req
    BY <1>5 DEF ApplyNode
  <2> HIDE DEF x
  <2> QED BY <1>0, <2>1, <2>2, SetTaskFacts DEF Core, Shapes, Maps, TasksPlaced
<1>6. ASSUME UNCHANGED <<task, req>> PROVE Core'
  BY <1>0, <1>6 DEF Core, Shapes, Maps, TasksPlaced
<1>7. ASSUME NEW t \in Task, AcquireSlot(t) \/ LockHost(t) \/ Deploy(t) PROVE Core'
  <2>1. CASE End(t)
    BY <1>2, <2>1
  <2>2. CASE ~End(t)
    <3>1. Within(t)
      BY <1>7, <2>2, WithinSteps DEF Deploy
    <3>2. UNCHANGED req
      BY <1>7 DEF Deploy, AcquireSlot, LockHost, LoadNode, PersistMaterial,
                  ConnectAndRender, PushConfig, StampRead, Stamp, End
    <3> QED BY <1>1, <3>1, <3>2
  <2> QED BY <2>1, <2>2
<1>8. ASSUME NEW n \in Node, DeleteNode(n) \/ CaptureNode(n) \/ PostCaptureInstall(n) PROVE Core'
  BY <1>6, <1>8 DEF DeleteNode, CaptureNode, PostCaptureInstall
<1>9. CASE Signal \/ Drain \/ Exit \/ Exited
  BY <1>6, <1>9 DEF Signal, Drain, Exit, Exited, vars
<1> QED BY <1>3, <1>4, <1>5, <1>7, <1>8, <1>9 DEF Next

\* A config that was applied once counts for ever.
LEMMA AppliedGrows == ASSUME Core, Next PROVE \A n \in Node : applied[n] \subseteq applied'[n]
<1>1. CASE UNCHANGED applied
  BY <1>1
<1>2. ASSUME NEW t \in Task, PushConfig(t) PROVE \A n \in Node : applied[n] \subseteq applied'[n]
  BY <1>2, PushFacts DEF Core, Shapes
<1>3. UNCHANGED applied \/ \E t \in Task : PushConfig(t)
  BY DEF Next, Deploy, Save, AcquireSlot, LockHost, LoadNode, PersistMaterial, ConnectAndRender,
         StampRead, Stamp, End, SaveAddedOutbound, SaveDeletedOutbound, DeleteNode, CaptureNode,
         PostCaptureInstall, EditNode, ApplyNode, Signal, Drain, Exit, Exited, vars
<1> QED BY <1>1, <1>2, <1>3

LEMMA HonestMonotone ==
    ASSUME NEW i, NEW A, NEW B, A \subseteq B, Honest(i, A)
    PROVE  Honest(i, B)
BY DEF Honest

\* Saving an honest copy keeps the stored ones honest.
StoreHonest == \A n \in Node : Honest(info[n], applied[n])

LEMMA SaveHonest ==
    ASSUME Core, StoreHonest, NEW n \in Node, NEW i, Honest(i, applied'[n]),
           SaveNodeInfo(n, i), \A m \in Node : applied[m] \subseteq applied'[m]
    PROVE  StoreHonest'
<1> SUFFICES ASSUME NEW m \in Node PROVE Honest(info'[m], applied'[m])
  BY DEF StoreHonest
<1>1. info'[m] = IF m = n THEN i ELSE info[m]
  BY DEF SaveNodeInfo, Core, Shapes
<1>2. Honest(info[m], applied'[m])
  BY HonestMonotone DEF StoreHonest
<1> QED BY <1>1, <1>2

LEMMA KeepHonest ==
    ASSUME StoreHonest, UNCHANGED info, \A m \in Node : applied[m] \subseteq applied'[m]
    PROVE  StoreHonest'
<1> SUFFICES ASSUME NEW m \in Node PROVE Honest(info'[m], applied'[m])
  BY DEF StoreHonest
<1> QED BY HonestMonotone DEF StoreHonest

\* A step within a deploy whose new copies are honest.
LEMMA MoveHonest ==
    ASSUME Core, CopiesHonest, NEW t \in Task, NEW from \in Step \ {"free"}, NEW to,
           NEW c, NEW g, NEW f, Move(t, from, to, c, g, f), UNCHANGED req,
           \A n \in Node : applied[n] \subseteq applied'[n],
           Honest(c, applied[task[t].node]), Honest(f, applied[task[t].node]),
           StoreHonest'
    PROVE  CopiesHonest'
<1>1. task[t].node \in Node
  BY DEF Core, TasksPlaced, Move
<1>2. ASSUME NEW u \in Task, task'[u].pc # "free"
      PROVE  Honest(task'[u].copy, applied'[task'[u].node])
             /\ Honest(task'[u].fresh, applied'[task'[u].node])
  <2>1. CASE u = t
    <3>1. task'[u].copy = c /\ task'[u].fresh = f /\ task'[u].node = task[t].node
      BY <2>1 DEF Move
    <3>2. Honest(c, applied'[task[t].node]) /\ Honest(f, applied'[task[t].node])
      BY <1>1, HonestMonotone
    <3> QED BY <3>1, <3>2
  <2>2. CASE u # t
    <3>1. task'[u] = task[u]
      BY <2>2 DEF Move
    <3>2. task[u].node \in Node
      BY <1>2, <3>1 DEF Core, TasksPlaced
    <3>3. Honest(task[u].copy, applied[task[u].node]) /\ Honest(task[u].fresh, applied[task[u].node])
      BY <1>2, <3>1 DEF CopiesHonest
    <3> QED BY <3>1, <3>2, <3>3, HonestMonotone
  <2> QED BY <2>1, <2>2
<1>3. ASSUME NEW r \in Request, req'[r].pc = "edit"
      PROVE  req'[r].copy # NoInfo /\ Honest(req'[r].copy, applied'[req'[r].node])
  <2>1. req[r].copy # NoInfo /\ Honest(req[r].copy, applied[req[r].node]) /\ req[r].node \in Node
    BY <1>3 DEF CopiesHonest, Core, TasksPlaced
  <2> QED BY <2>1, HonestMonotone
<1> QED BY <1>2, <1>3 DEF CopiesHonest, StoreHonest

\* No step of a deploy makes up a hash: Stamp records the one it pushed.
LEMMA DeployHonest ==
    ASSUME IInv, NEW t \in Task, AcquireSlot(t) \/ LockHost(t) \/ Deploy(t), ~End(t),
           \A n \in Node : applied[n] \subseteq applied'[n]
    PROVE  CopiesHonest'
<1> DEFINE x == task[t]
           n == task[t].node
<1>0. Core /\ CopiesHonest /\ StampEarned /\ StoreHonest
  BY DEF IInv, CopiesHonest, StoreHonest
<1>1. ASSUME x.pc # "free"
      PROVE  /\ n \in Node
             /\ Honest(x.copy, applied[n]) /\ Honest(x.fresh, applied[n])
             /\ Honest(x.copy, applied'[n])
             /\ Honest(info[n], applied[n])
  <2>1. n \in Node /\ Honest(x.copy, applied[n]) /\ Honest(x.fresh, applied[n])
    BY <1>0, <1>1 DEF Core, TasksPlaced, CopiesHonest
  <2> QED BY <1>0, <2>1, HonestMonotone DEF StoreHonest
<1>2. ASSUME NEW from \in Step \ {"free"}, NEW to, Stay(t, from, to), UNCHANGED req, StoreHonest'
      PROVE  CopiesHonest'
  BY <1>0, <1>1, <1>2, MoveHonest DEF Stay, Move
<1>3. ASSUME SaveNodeInfo(n, x.copy), x.pc # "free" PROVE StoreHonest'
  BY <1>0, <1>1, <1>3, SaveHonest
<1>4. ASSUME UNCHANGED info PROVE StoreHonest'
  BY <1>0, <1>4, KeepHonest
<1> USE StepNames
<1>5. CASE AcquireSlot(t)
  BY <1>0, <1>2, <1>4, <1>5, AcquireSlotFacts DEF AcquireSlot
<1>6. CASE LockHost(t)
  BY <1>0, <1>2, <1>4, <1>6, LockHostFacts DEF LockHost
<1>7. CASE LoadNode(t)
  <2>1. UNCHANGED <<req, info>> /\ x.pc = "load"
    BY <1>7 DEF LoadNode
  <2>2. CASE Stay(t, "load", "end")
    BY <1>2, <1>4, <2>1, <2>2
  <2>3. CASE Move(t, "load", "persist", info[n], x.cfg, x.fresh)
    BY <1>0, <1>1, <1>4, <2>1, <2>3, MoveHonest
  <2> QED BY <1>0, <1>7, <2>2, <2>3, LoadNodeFacts
<1>8. CASE PersistMaterial(t)
  <2>1. UNCHANGED req /\ x.pc = "persist"
    BY <1>8 DEF PersistMaterial
  <2> QED BY <1>0, <1>2, <1>3, <1>4, <1>8, <2>1, PersistFacts
<1>9. CASE ConnectAndRender(t)
  <2>1. UNCHANGED req /\ x.pc = "connect"
    BY <1>9 DEF ConnectAndRender
  <2>2. StoreHonest'
    BY <1>0, <1>3, <1>4, <1>9, <2>1, ConnectFacts
  <2>3. CASE Stay(t, "connect", "end")
    BY <1>2, <2>1, <2>2, <2>3
  <2>4. CASE Move(t, "connect", "push", x.copy, x.copy.outs, x.fresh)
    BY <1>0, <1>1, <2>1, <2>2, <2>4, MoveHonest
  <2> QED BY <1>0, <1>9, <2>3, <2>4, ConnectFacts
<1>10. CASE PushConfig(t)
  <2>1. UNCHANGED <<req, info>> /\ x.pc = "pushing"
    BY <1>10 DEF PushConfig
  <2> QED BY <1>0, <1>2, <1>4, <1>10, <2>1, PushFacts
<1>11. CASE StampRead(t)
  <2> DEFINE f == IF info[n] = NoInfo THEN EmptyInfo ELSE info[n]
  <2>1. UNCHANGED <<req, info>> /\ x.pc = "stampread"
    BY <1>11 DEF StampRead
  <2>2. Honest(EmptyInfo, applied[n])
    BY DEF Honest, EmptyInfo, IsInfo
  <2>3. Honest(f, applied[n])
    BY <1>1, <2>1, <2>2
  <2>4. Move(t, "stampread", "stamp", x.copy, x.cfg, f)
    BY <1>0, <1>11, StampReadFacts
  <2> HIDE DEF f
  <2> QED BY <1>0, <1>1, <1>4, <2>1, <2>3, <2>4, MoveHonest
<1>12. CASE Stamp(t)
  <2> DEFINE i == [x.fresh EXCEPT !.hash = x.cfg]
  <2>1. UNCHANGED <<req, applied>> /\ x.pc = "stamp"
    BY <1>12 DEF Stamp
  <2>2. IsInfo(x.fresh) /\ x.cfg \in applied[n]
    BY <1>0, <2>1 DEF StampEarned
  <2>3. Honest(i, applied'[n])
    BY <2>1, <2>2 DEF Honest, IsInfo
  <2>4. Stay(t, "stamp", "end") /\ SaveNodeInfo(n, i)
    BY <1>0, <1>12, StampFacts
  <2> HIDE DEF i
  <2>5. StoreHonest'
    BY <1>0, <1>1, <2>1, <2>3, <2>4, SaveHonest
  <2> QED BY <1>2, <2>1, <2>4, <2>5
<1> QED BY <1>5, <1>6, <1>7, <1>8, <1>9, <1>10, <1>11, <1>12 DEF Deploy

\* A task or a handler that starts with an honest copy.
LEMMA StartHonest ==
    ASSUME Core, CopiesHonest, UNCHANGED applied, StoreHonest',
           \A t \in Task : task'[t].pc # "free" =>
               \/ task'[t] = task[t]
               \/ /\ Honest(task'[t].copy, applied[task'[t].node])
                  /\ Honest(task'[t].fresh, applied[task'[t].node]),
           \A r \in Request : req'[r].pc = "edit" =>
               \/ req'[r] = req[r]
               \/ req'[r].copy # NoInfo /\ Honest(req'[r].copy, applied[req'[r].node])
    PROVE  CopiesHonest'
BY DEF CopiesHonest, StoreHonest

LEMMA CopiesHonestStep == ASSUME IInv, Next PROVE CopiesHonest'
<1>0. Core /\ CopiesHonest /\ StoreHonest
  BY DEF IInv, CopiesHonest, StoreHonest
<1>1. \A n \in Node : applied[n] \subseteq applied'[n]
  BY <1>0, AppliedGrows
<1>2. ASSUME NEW t \in Task, End(t) PROVE CopiesHonest'
  <2>1. UNCHANGED <<req, applied>> /\ task[t].pc = "end"
    BY <1>2 DEF End
  <2>2. task[t].node \in Node /\ Honest(task[t].copy, applied'[task[t].node])
    BY <1>0, <2>1 DEF Core, TasksPlaced, CopiesHonest
  <2>3. StoreHonest'
    BY <1>0, <1>1, <1>2, <2>2, EndFacts, SaveHonest, KeepHonest
  <2> QED BY <1>0, <1>2, <2>1, <2>3, EndFacts, EmptyRecords, StartHonest
<1>3. ASSUME NEW r \in Request, Save(r) PROVE CopiesHonest'
  <2>1. PICK n \in Node, t \in Task : \E i :
              /\ Honest(i, applied[n])
              /\ info' = [info EXCEPT ![n] = i]
              /\ task' = [task EXCEPT ![t] = NewTask("queued", n, TRUE, NoInfo)]
              /\ req' = [req EXCEPT ![r] = NoReq]
              /\ UNCHANGED applied
    BY <1>0, <1>3, SaveFacts
  <2>2. StoreHonest'
    BY <1>0, <1>1, <2>1, SaveHonest DEF SaveNodeInfo
  <2> DEFINE x == NewTask("queued", n, TRUE, NoInfo)
  <2>3. x.copy = NoInfo /\ x.fresh = NoInfo
    BY DEF NewTask
  <2> HIDE DEF x
  <2>4. /\ \A u \in Task : task'[u] = IF u = t THEN x ELSE task[u]
        /\ \A q \in Request : req'[q] = IF q = r THEN NoReq ELSE req[q]
    BY <1>0, <2>1 DEF Core, Shapes, x
  <2>5. \A A : Honest(x.copy, A) /\ Honest(x.fresh, A)
    BY <2>3 DEF Honest
  <2> QED BY <1>0, <2>1, <2>2, <2>4, <2>5, EmptyRecords, StartHonest
<1>4. ASSUME NEW n \in Node, NEW r \in Request, EditNode(r, n) PROVE CopiesHonest'
  <2>1. UNCHANGED <<info, task, applied>> /\ info[n] # NoInfo
    BY <1>4 DEF EditNode
  <2> DEFINE x == [pc |-> "edit", node |-> n, copy |-> info[n]]
  <2>2. \A q \in Request : req'[q] = IF q = r THEN x ELSE req[q]
    BY <1>0, <1>4 DEF EditNode, Core, Shapes
  <2>3. x.copy # NoInfo /\ Honest(x.copy, applied[x.node])
    BY <1>0, <2>1 DEF StoreHonest
  <2> HIDE DEF x
  <2>4. StoreHonest'
    BY <1>0, <1>1, <2>1, KeepHonest
  <2> QED BY <1>0, <2>1, <2>2, <2>3, <2>4, StartHonest
<1>5. ASSUME NEW n \in Node, NEW t \in Task, ApplyNode(t, n) PROVE CopiesHonest'
  <2>1. UNCHANGED <<info, req, applied>>
    BY <1>5 DEF ApplyNode
  <2> DEFINE x == NewTask("persist", n, FALSE, info[n])
  <2>2. \A u \in Task : task'[u] = IF u = t THEN x ELSE task[u]
    BY <1>0, <1>5, SetTaskFacts DEF ApplyNode
  <2>3. x.copy = info[n] /\ x.node = n /\ x.fresh = NoInfo
    BY DEF NewTask
  <2> HIDE DEF x
  <2>4. Honest(x.copy, applied[x.node]) /\ Honest(x.fresh, applied[x.node])
    BY <1>0, <2>3 DEF StoreHonest, Honest
  <2>5. StoreHonest'
    BY <1>0, <1>1, <2>1, KeepHonest
  <2> QED BY <1>0, <2>1, <2>2, <2>4, <2>5, StartHonest
<1>6. ASSUME NEW n \in Node, DeleteNode(n) PROVE CopiesHonest'
  <2>1. UNCHANGED <<task, req, applied>> /\ SaveNodeInfo(n, NoInfo)
    BY <1>6 DEF DeleteNode
  <2>2. Honest(NoInfo, applied'[n])
    BY DEF Honest
  <2> QED BY <1>0, <1>1, <2>1, <2>2, SaveHonest, StartHonest
<1>7. CASE Signal \/ Drain \/ Exit \/ Exited \/ \E n \in Node : PostCaptureInstall(n)
  <2>1. UNCHANGED <<info, task, req, applied>>
    BY <1>7 DEF Signal, Drain, Exit, Exited, PostCaptureInstall, vars
  <2> QED BY <1>0, <1>1, <2>1, KeepHonest, StartHonest
<1>8. ASSUME NEW t \in Task, AcquireSlot(t) \/ LockHost(t) \/ Deploy(t) PROVE CopiesHonest'
  BY <1>1, <1>2, <1>8, DeployHonest
<1>9. ASSUME NEW n \in Node, CaptureNode(n) PROVE CopiesHonest'
  <2>1. UNCHANGED <<task, req, applied>> /\ SaveNodeInfo(n, EmptyInfo)
    BY <1>9 DEF CaptureNode
  <2>2. Honest(EmptyInfo, applied'[n])
    BY DEF Honest, EmptyInfo, IsInfo
  <2> QED BY <1>0, <1>1, <2>1, <2>2, SaveHonest, StartHonest
<1> QED BY <1>3, <1>4, <1>5, <1>6, <1>7, <1>8, <1>9 DEF Next

\* A deploy starts: scheduled by an edit, or as the explicit Apply.
Started(t) ==
    /\ phase # "exited" /\ task[t].pc = "free"
    /\ \/ task'[t].pc = "queued" /\ task'[t].bg
       \/ task'[t].pc = "persist" /\ ~task'[t].bg
    /\ \A u \in Task : u # t => task'[u] = task[u]
    /\ UNCHANGED <<lock, slots, applied, phase>>

\* The steps outside a deploy: one starts, or no task changes.
LEMMA OtherSteps ==
    ASSUME Core, CopiesHonest, Next
    PROVE  \/ \E t \in Task : AcquireSlot(t) \/ LockHost(t) \/ Deploy(t)
           \/ \E t \in Task : Started(t)
           \/ UNCHANGED <<task, lock, slots, applied>>
<1>1. ASSUME NEW r \in Request, Save(r) PROVE \E t \in Task : Started(t)
  <2>1. PICK n \in Node, t \in Task :
              /\ phase # "exited" /\ task[t].pc = "free"
              /\ task' = [task EXCEPT ![t] = NewTask("queued", n, TRUE, NoInfo)]
              /\ UNCHANGED <<lock, slots, applied, phase>>
    BY <1>1, SaveFacts
  <2> DEFINE x == NewTask("queued", n, TRUE, NoInfo)
  <2>2. x.pc = "queued" /\ x.bg
    BY DEF NewTask
  <2>3. SetTask(t, x)
    BY <2>1 DEF SetTask
  <2> HIDE DEF x
  <2>4. task'[t] = x /\ \A u \in Task : u # t => task'[u] = task[u]
    BY <2>3, SetTaskFacts
  <2> QED BY <2>1, <2>2, <2>4 DEF Started
<1>2. ASSUME NEW n \in Node, NEW t \in Task, ApplyNode(t, n) PROVE Started(t)
  <2> DEFINE x == NewTask("persist", n, FALSE, info[n])
  <2>1. /\ phase # "exited" /\ task[t].pc = "free" /\ SetTask(t, x)
        /\ UNCHANGED <<lock, slots, applied, phase>>
    BY <1>2 DEF ApplyNode, Accepting
  <2>2. x.pc = "persist" /\ ~x.bg
    BY DEF NewTask
  <2> HIDE DEF x
  <2>3. task'[t] = x /\ \A u \in Task : u # t => task'[u] = task[u]
    BY <2>1, SetTaskFacts
  <2> QED BY <2>1, <2>2, <2>3 DEF Started
<1>3. ASSUME NEW n \in Node, \/ DeleteNode(n) \/ CaptureNode(n) \/ PostCaptureInstall(n)
                             \/ \E r \in Request : EditNode(r, n)
      PROVE  UNCHANGED <<task, lock, slots, applied, phase>>
  BY <1>3 DEF DeleteNode, CaptureNode, PostCaptureInstall, EditNode
<1>4. CASE Signal \/ Drain \/ Exit \/ Exited
  BY <1>4 DEF Signal, Drain, Exit, Exited, vars
<1> QED BY <1>1, <1>2, <1>3, <1>4 DEF Next

LEMMA StampEarnedStep == ASSUME IInv, Next PROVE StampEarned'
<1>0. Core /\ CopiesHonest /\ StampEarned
  BY DEF IInv
<1>1. \A n \in Node : applied[n] \subseteq applied'[n]
  BY <1>0, AppliedGrows
\* A task that does not change keeps what it earned.
<1>2. ASSUME NEW u \in Task, task'[u] = task[u]
      PROVE  /\ task'[u].pc \in {"stampread", "stamp"} => task'[u].cfg \in applied'[task'[u].node]
             /\ task'[u].pc = "stamp" => IsInfo(task'[u].fresh)
  <2>1. task[u].pc # "free" => task[u].node \in Node
    BY <1>0 DEF Core, TasksPlaced
  <2> QED BY <1>0, <1>1, <1>2, <2>1 DEF StampEarned
<1>3. ASSUME NEW t \in Task, \A u \in Task : u # t => task'[u] = task[u],
             \/ task'[t].pc \notin {"stampread", "stamp"}
             \/ task'[t].pc = "stampread" /\ task'[t].cfg \in applied'[task'[t].node]
             \/ /\ task'[t].pc = "stamp" /\ task'[t].cfg \in applied'[task'[t].node]
                /\ IsInfo(task'[t].fresh)
      PROVE  StampEarned'
  BY <1>2, <1>3 DEF StampEarned
<1>4. ASSUME NEW t \in Task, PushConfig(t) PROVE StampEarned'
  <2>1. task[t].pc = "pushing"
    BY <1>4 DEF PushConfig
  <2>2. task[t].node \in Node
    BY <1>0, <2>1 DEF Core, TasksPlaced
  <2>3. CASE Stay(t, "pushing", "end")
    BY <1>3, <2>3 DEF Stay, Move
  <2>4. CASE /\ Stay(t, "pushing", "stampread")
             /\ applied' = [applied EXCEPT ![task[t].node] = @ \cup {task[t].cfg}]
    <3>1. task[t].cfg \in applied'[task[t].node]
      BY <1>0, <2>2, <2>4 DEF Core, Shapes
    <3> QED BY <1>3, <2>4, <3>1 DEF Stay, Move
  <2> QED BY <1>0, <1>4, <2>3, <2>4, PushFacts
<1>5. ASSUME NEW t \in Task, StampRead(t) PROVE StampEarned'
  <2> DEFINE f == IF info[task[t].node] = NoInfo THEN EmptyInfo ELSE info[task[t].node]
  <2>1. task[t].pc = "stampread" /\ UNCHANGED applied
    BY <1>5 DEF StampRead
  <2>2. task[t].node \in Node /\ task[t].cfg \in applied'[task[t].node]
    BY <1>0, <2>1 DEF Core, TasksPlaced, StampEarned
  <2>3. IsInfo(EmptyInfo)
    BY DEF IsInfo, EmptyInfo
  <2>4. IsInfo(f)
    BY <1>0, <2>2, <2>3 DEF CopiesHonest, Honest
  <2>5. Move(t, "stampread", "stamp", task[t].copy, task[t].cfg, f)
    BY <1>0, <1>5, StampReadFacts
  <2> HIDE DEF f
  <2> QED BY <1>3, <2>2, <2>4, <2>5 DEF Move
<1>6. ASSUME NEW t \in Task, NEW from, NEW to \in Step \ {"stampread", "stamp"},
             NEW c, NEW g, NEW f, Move(t, from, to, c, g, f)
      PROVE  StampEarned'
  BY <1>3, <1>6 DEF Move
<1>7. ASSUME NEW t \in Task, \/ AcquireSlot(t) \/ LockHost(t) \/ LoadNode(t)
                            \/ PersistMaterial(t) \/ ConnectAndRender(t) \/ Stamp(t)
      PROVE  StampEarned'
  BY <1>0, <1>6, <1>7, StepNames, AcquireSlotFacts, LockHostFacts, LoadNodeFacts,
     PersistFacts, ConnectFacts, StampFacts DEF Stay
<1>8. ASSUME NEW t \in Task, End(t) PROVE StampEarned'
  BY <1>0, <1>3, <1>8, EndFacts, EmptyRecords
<1>9. ASSUME NEW t \in Task, Started(t) PROVE StampEarned'
  BY <1>3, <1>9 DEF Started
<1>10. CASE UNCHANGED <<task, lock, slots, applied>>
  BY <1>2, <1>10 DEF StampEarned
<1> QED BY <1>0, <1>4, <1>5, <1>7, <1>8, <1>9, <1>10, OtherSteps DEF Deploy

LEMMA HolderPushesStep == ASSUME IInv, Next PROVE HolderPushes'
<1>0. Core /\ CopiesHonest /\ HolderPushes
  BY DEF IInv
\* A step that neither takes nor gives back a mutex.
<1>1. ASSUME NEW t \in Task, \A u \in Task : u # t => task'[u] = task[u],
             task[t].pc # "pushing", task'[t].pc # "pushing", UNCHANGED lock
      PROVE  HolderPushes'
  BY <1>0, <1>1 DEF HolderPushes
<1>2. ASSUME NEW t \in Task, LockHost(t) PROVE HolderPushes'
  <2>1. Stay(t, "push", "pushing")
    BY <1>0, <1>2, LockHostFacts
  <2>2. task[t].node \in Node /\ lock[task[t].node] = Nobody
    BY <1>0, <1>2 DEF LockHost, Core, TasksPlaced
  <2>3. \A n \in Node : lock'[n] = IF n = task[t].node THEN t ELSE lock[n]
    BY <1>0, <1>2 DEF LockHost, Core, Shapes
  <2>4. \A u \in Task : u # t /\ task[u].pc = "pushing" => task[u].node # task[t].node
    BY <1>0, <2>2 DEF HolderPushes
  <2>5. \A u \in Task : task[u].pc = "pushing" => task[u].node \in Node
    BY <1>0 DEF Core, TasksPlaced
  <2> QED BY <1>0, <2>1, <2>2, <2>3, <2>4, <2>5 DEF HolderPushes, Stay, Move
<1>3. ASSUME NEW t \in Task, PushConfig(t) PROVE HolderPushes'
  <2>1. task[t].pc = "pushing" /\ task'[t].pc # "pushing"
        /\ \A u \in Task : u # t => task'[u] = task[u]
    BY <1>0, <1>3, PushFacts DEF Stay, Move
  <2>2. task[t].node \in Node /\ lock[task[t].node] = t
    BY <1>0, <2>1 DEF HolderPushes, Core, TasksPlaced
  <2>3. \A n \in Node : lock'[n] = IF n = task[t].node THEN Nobody ELSE lock[n]
    BY <1>0, <1>3 DEF PushConfig, Core, Shapes
  <2>4. \A u \in Task : task[u].pc = "pushing" => task[u].node \in Node
    BY <1>0 DEF Core, TasksPlaced
  <2> QED BY <1>0, <2>1, <2>2, <2>3, <2>4 DEF HolderPushes
<1>4. ASSUME NEW t \in Task, NEW from, NEW to, from # "pushing", to # "pushing",
             NEW c, NEW g, NEW f, Move(t, from, to, c, g, f), UNCHANGED lock
      PROVE  HolderPushes'
  BY <1>1, <1>4 DEF Move
<1>5. ASSUME NEW t \in Task, \/ AcquireSlot(t) \/ LoadNode(t) \/ PersistMaterial(t)
                            \/ ConnectAndRender(t) \/ StampRead(t) \/ Stamp(t)
      PROVE  HolderPushes'
  <2>1. UNCHANGED lock
    BY <1>5 DEF AcquireSlot, LoadNode, PersistMaterial, ConnectAndRender, StampRead, Stamp
  <2> QED BY <1>0, <1>4, <1>5, <2>1, AcquireSlotFacts, LoadNodeFacts, PersistFacts,
             ConnectFacts, StampReadFacts, StampFacts DEF Stay
<1>6. ASSUME NEW t \in Task, End(t) PROVE HolderPushes'
  <2>1. UNCHANGED lock
    BY <1>6 DEF End
  <2> QED BY <1>0, <1>1, <1>6, <2>1, EndFacts, EmptyRecords
<1>7. ASSUME NEW t \in Task, Started(t) PROVE HolderPushes'
  BY <1>1, <1>7 DEF Started
<1>8. CASE UNCHANGED <<task, lock, slots, applied>>
  BY <1>0, <1>8 DEF HolderPushes
<1> QED BY <1>0, <1>2, <1>3, <1>5, <1>6, <1>7, <1>8, OtherSteps DEF Deploy

\* The set the semaphore counts is finite, so one more or one less is one slot.
LEMMA RunningFinite == IsFiniteSet(Running) /\ Cardinality(Running) \in Nat
<1>1. Running \subseteq Task
  BY DEF Running
<1> QED BY <1>1, FS_Subset, FS_CardinalityType

LEMMA SlotInvStep == ASSUME IInv, Next PROVE SlotInv'
<1>0. Core /\ CopiesHonest /\ SlotInv
  BY DEF IInv
<1>1. ASSUME Running' = Running, UNCHANGED slots PROVE SlotInv'
  BY <1>0, <1>1 DEF SlotInv
<1>2. ASSUME NEW t \in Task, AcquireSlot(t) PROVE SlotInv'
  <2>1. Stay(t, "queued", "load")
    BY <1>0, <1>2, AcquireSlotFacts
  <2>2. task[t].bg
    BY <1>0, <2>1 DEF Core, TasksPlaced, Stay, Move
  <2>3. t \notin Running /\ Running' = Running \cup {t}
    BY <2>1, <2>2 DEF Running, Stay, Move
  <2>4. Cardinality(Running') = Cardinality(Running) + 1
    BY <2>3, RunningFinite, FS_AddElement
  <2>5. slots' = slots + 1 /\ slots < MaxConcurrent
    BY <1>2 DEF AcquireSlot
  <2> QED BY <1>0, <2>4, <2>5 DEF SlotInv
<1>3. ASSUME NEW t \in Task, End(t) PROVE SlotInv'
  <2>0. task[t].pc = "end"
    BY <1>3 DEF End
  <2>1. CASE task[t].bg
    <3>1. t \in Running /\ Running' = Running \ {t}
      BY <1>0, <1>3, <2>0, <2>1, EndFacts, EmptyRecords DEF Running
    <3>2. Cardinality(Running') = Cardinality(Running) - 1
      BY <3>1, RunningFinite, FS_RemoveElement
    <3>3. Cardinality(Running) # 0
      BY <3>1, RunningFinite, FS_EmptySet
    <3>4. slots' = slots - 1
      BY <1>3, <2>1 DEF End
    <3> QED BY <1>0, <3>2, <3>3, <3>4, RunningFinite DEF SlotInv
  <2>2. CASE ~task[t].bg
    <3>1. Running' = Running
      BY <1>0, <1>3, <2>2, EndFacts, EmptyRecords DEF Running
    <3>2. UNCHANGED slots
      BY <1>3, <2>2 DEF End
    <3> QED BY <1>1, <3>1, <3>2
  <2> QED BY <2>1, <2>2
<1>4. ASSUME NEW t \in Task, NEW from, NEW to, from # "queued", to # "queued",
             NEW c, NEW g, NEW f, Move(t, from, to, c, g, f), UNCHANGED slots
      PROVE  SlotInv'
  <2>1. Running' = Running
    BY <1>4 DEF Running, Move
  <2> QED BY <1>1, <1>4, <2>1
<1>5. ASSUME NEW t \in Task, \/ LockHost(t) \/ LoadNode(t) \/ PersistMaterial(t) \/ PushConfig(t)
                            \/ ConnectAndRender(t) \/ StampRead(t) \/ Stamp(t)
      PROVE  SlotInv'
  <2>1. UNCHANGED slots
    BY <1>5 DEF LockHost, LoadNode, PersistMaterial, PushConfig, ConnectAndRender, StampRead, Stamp
  <2> QED BY <1>0, <1>4, <1>5, <2>1, LockHostFacts, LoadNodeFacts, PersistFacts, PushFacts,
             ConnectFacts, StampReadFacts, StampFacts DEF Stay
<1>6. ASSUME NEW t \in Task, Started(t) PROVE SlotInv'
  <2>1. ~task[t].bg
    BY <1>0, <1>6 DEF Core, TasksPlaced, Started
  <2>2. Running' = Running
    BY <1>6, <2>1 DEF Running, Started
  <2> QED BY <1>1, <1>6, <2>2 DEF Started
<1>7. CASE UNCHANGED <<task, lock, slots, applied>>
  BY <1>1, <1>7 DEF Running
<1> QED BY <1>0, <1>2, <1>3, <1>5, <1>6, <1>7, OtherSteps DEF Deploy

LEMMA IInvStep == ASSUME IInv, [Next]_vars PROVE IInv'
<1>1. CASE Next
  BY <1>1, CoreStep, CopiesHonestStep, StampEarnedStep, HolderPushesStep,
     SlotInvStep DEF IInv
<1>2. CASE UNCHANGED vars
  BY <1>2 DEF vars, IInv, Core, Shapes, TasksPlaced, CopiesHonest, StampEarned,
              HolderPushes, SlotInv, Running
<1> QED BY <1>1, <1>2

-----------------------------------------------------------------------------
(* The theorems *)

LEMMA IInvHolds == Spec => []IInv
BY InitIInv, IInvStep, PTL DEF Spec

\* autoApplyCtx.deploySem counts exactly the background deploys that are past
\* it (runAutoDeploy's deferred release runs on every path).
THEOREM SlotsCountedThm == Spec => []SlotsCounted
<1>1. IInv => SlotsCounted
  BY DEF IInv, SlotInv, Running, SlotsCounted
<1> QED BY <1>1, IInvHolds, PTL

\* autoApplyMaxConcurrent: never more background deploys than the capacity of
\* the semaphore are past it.
WithinCapacity == Cardinality(Running) <= MaxConcurrent

\* The semaphore of ScheduleAutoApply bounds the background deploys that run.
THEOREM CapacityThm == Spec => []WithinCapacity
<1>1. IInv => WithinCapacity
  BY DEF IInv, SlotInv, WithinCapacity
<1> QED BY <1>1, IInvHolds, PTL

\* recordDeploySuccess: whatever copies handlers and deploys save over each
\* other, a stored LastDeployedHash names a config the node accepted.
THEOREM HashWasAppliedThm == Spec => []HashWasApplied
<1>1. IInv => HashWasApplied
  BY DEF IInv, CopiesHonest, Honest, HashWasApplied
<1> QED BY <1>1, IInvHolds, PTL

\* withHostLock: two deploys never push to one node at the same time.
OnePushPerHost ==
    \A t, u \in Task :
        task[t].pc = "pushing" /\ task[u].pc = "pushing" /\ task[t].node = task[u].node => t = u

\* The host mutex of the deploys excludes a second push to the node.
THEOREM OnePushPerHostThm == Spec => []OnePushPerHost
<1>1. IInv => OnePushPerHost
  BY DEF IInv, HolderPushes, OnePushPerHost
<1> QED BY <1>1, IInvHolds, PTL

-----------------------------------------------------------------------------
(* Cascade.  KInv, about chains and keys, is inductive by itself; GInv,    *)
(* about what the nodes run, is inductive relative to it.                  *)

HIDE BoundAssumption

(* The inductive invariant: chains and keys *)

Keys == [tr : Nat, srv : Nat, cli : Nat]

\* A chain as a form describes it, with any keys.
ChainOf(f, k) ==
    [name |-> f.name, proto |-> f.proto, transport |-> f.transport, port |-> f.port, levels |-> f.levels, key |-> k]

AllChains == {ChainOf(f, k) : f \in Forms, k \in [Nodes -> Keys]}

\* Every key is there that ApplyChain would make.
Keyed(c) ==
    \A n \in ChainNodes(c) :
        /\ c.key[n].tr # 0
        /\ c.transport = "awg" /\ NodeIndex(c, n) > 1 => c.key[n].srv # 0
        /\ c.transport = "awg" /\ NodeIndex(c, n) < Len(AllNodes(c)) => c.key[n].cli # 0

NamesUnique == \A x, y \in DOMAIN chains : chains[x].name = chains[y].name => x = y

ApplyFields == {"step", "chain", "clean", "ok", "hop", "cfg"}

JobShape(j) ==
    \/ jobs[j] = Idle
    \/ /\ Applying(j) /\ DOMAIN jobs[j] = ApplyFields /\ jobs[j].chain \in AllChains
       /\ jobs[j].clean \in BOOLEAN /\ jobs[j].ok \in BOOLEAN
       /\ jobs[j].hop \in 1..Len(AllNodes(jobs[j].chain))
    \/ /\ jobs[j].step = "connect" /\ DOMAIN jobs[j] = {"step", "node", "chains"}
       /\ jobs[j].node \in Nodes /\ jobs[j].chains \in Seq(AllChains)
    \/ /\ jobs[j].step \in {"installnode", "pushnode"} /\ DOMAIN jobs[j] = {"step", "node", "cfg"}
       /\ jobs[j].node \in Nodes

StateShapes ==
    /\ routeDNS \in BOOLEAN
    /\ chains \in Seq(AllChains) /\ NamesUnique
    /\ pins \in [Users -> [Names -> Nodes \cup {NoNode}]]
    /\ DOMAIN jobs = Jobs /\ \A j \in Jobs : JobShape(j)
    /\ DOMAIN running = Nodes
    /\ gen \in Nat

\* The copy of an apply is the stored chain, unless that was edited.
CopyCurrent(j) == Applying(j) /\ jobs[j].clean => jobs[j].chain \in ToSet(chains)

KInv == StateShapes /\ \A j \in Jobs : CopyCurrent(j)

-----------------------------------------------------------------------------
(* The inductive invariant: what the nodes run *)

\* The outbounds for connections of user u of chain c at node n.
Onward(c, n) == IF HasOutbound(c, n) THEN ToSet(RoleHops(c, n)) ELSE {DirectOut}

\* A pin on node n itself takes effect on the inbound of chain c at n.
Heeds(c, n, kept) == IF IsAWG(c) THEN PinInbound(c, n)[1] \in kept ELSE IsEntry(c, n)

Sends(c, n, pin, u, kept) ==
    IF pin[u] = n /\ Heeds(c, n, kept) THEN {DirectOut} ELSE Onward(c, n)

\* The part of DefaultModeServes about one node and its config.
Alone(cfg, n, c) ==
    /\ \A i \in cfg.ins : i.tag \in {UserIn(c), TransportIn(c)}
    /\ n \in AWGNodes => c.proto = "awg" /\ IsEntry(c, n)
    /\ c.transport = "awg" => c.proto = "awg" /\ Len(c.levels) <= 2

Admits(cfg, n, c) ==
    IF ~IsEntry(c, n) THEN {i \in cfg.ins : i.tag[1] = "transport-in"} = RoleInbounds(c, n)
    ELSE IF IsAWG(c) THEN cfg.awg0 = c.name /\ \E r \in ToSet(cfg.rules) : r.in = TunIn
    ELSE \E i \in cfg.ins : i.tag = UserIn(c)

RoutesOf(cfg, n, c, u, kept) == Targets(cfg, Routed(cfg, PinInbound(c, n), u, c, kept))

\* Under config cfg node n does its part in chain c, whatever other chains are in it.
Carries(cfg, n, c, pin, mode) ==
    /\ Admits(cfg, n, c)
    /\ \A u \in Users, kept \in Survivals :
          /\ mode => RoutesOf(cfg, n, c, u, kept) = Sends(c, n, pin, u, kept)
          /\ ~mode /\ Alone(cfg, n, c) =>
                RoutesOf(cfg, n, c, u, kept) # {} /\ RoutesOf(cfg, n, c, u, kept) \subseteq Onward(c, n)

PinsOf(c) == [u \in Users |-> pins[u][c.name]]

CarriesNow(cfg, n, c) == Carries(cfg, n, c, PinsOf(c), routeDNS)

\* The chains of a node, one of each name.
ChainList(cs, n) ==
    /\ cs \in Seq(AllChains)
    /\ \A c \in ToSet(cs) : n \in ChainNodes(c)
    /\ \A c, d \in ToSet(cs) : c.name = d.name => c = d

GoodStored == {c \in ToSet(chains) : c.name \in good}

\* The chains that a config rendered by job j has to carry.
Covered(j) == GoodStored \cup {c \in ToSet(chains) : Applying(j) /\ jobs[j].clean /\ c = jobs[j].chain}

Pending(j) ==
    /\ jobs[j].step \in {"install", "push"} =>
          \A c \in Covered(j) : HopNode(j) \in ChainNodes(c) => CarriesNow(jobs[j].cfg, HopNode(j), c)
    /\ jobs[j].step = "connect" =>
          /\ ChainList(jobs[j].chains, jobs[j].node)
          /\ \A c \in GoodStored : jobs[j].node \in ChainNodes(c) => c \in ToSet(jobs[j].chains)
    /\ jobs[j].step \in {"installnode", "pushnode"} =>
          \A c \in GoodStored : jobs[j].node \in ChainNodes(c) => CarriesNow(jobs[j].cfg, jobs[j].node, c)

Progress(j) ==
    /\ jobs[j].step = "preflight" => jobs[j].hop = 1
    /\ jobs[j].step \in {"hop", "install", "push"} =>
          /\ Keyed(jobs[j].chain)
          /\ jobs[j].ok /\ jobs[j].clean =>
                \A x \in DOMAIN AllNodes(jobs[j].chain) : x < jobs[j].hop =>
                    LET n == AllNodes(jobs[j].chain)[x] IN CarriesNow(running[n], n, jobs[j].chain)

\* An apply of a chain that is good applies it as it is.
GoodClean(j) == Applying(j) /\ jobs[j].chain.name \in good => jobs[j].clean

\* The nodes of a good chain do their part, or have the minimal config.
GoodCarried == \A c \in GoodStored : Keyed(c) /\ \A n \in ChainNodes(c) : Bare(n) \/ CarriesNow(running[n], n, c)

GInv ==
    /\ GoodCarried
    /\ \A j \in Jobs : Pending(j) /\ Progress(j) /\ GoodClean(j)

-----------------------------------------------------------------------------
(* Induction and sequences *)

LEMMA Least ==
    ASSUME NEW T, T \subseteq Nat, T # {}
    PROVE  \E x \in T : \A y \in T : x <= y
<1> DEFINE R == OpToRel(<, Nat)
<1>1. IsWellFoundedOn(R, Nat)
  BY NatLessThanWellFounded, Zenon
<1>2. \A x, y \in Nat : x < y => <<x, y>> \in R
  BY DEF OpToRel
<1> HIDE DEF R
<1>3. PICK x \in T : \A y \in T : ~(<<y, x>> \in R)
  BY <1>1, WFMin, Zenon
<1>4. ASSUME NEW y \in T PROVE x <= y
  <2>1. ~(y < x)
    BY <1>2, <1>3, Zenon
  <2> QED BY <2>1
<1> QED BY <1>4

\* Induction up to a bound, for a property given as the set of numbers that have it.
LEMMA UpTo ==
    ASSUME NEW N \in Nat, NEW S, 0 \in S, \A k \in 0..N : k < N /\ k \in S => k + 1 \in S
    PROVE  \A k \in 0..N : k \in S
<1> DEFINE T == {k \in 0..N : k \notin S}
<1>1. SUFFICES ASSUME T # {} PROVE FALSE
  OBVIOUS
<1>2. PICK x \in T : \A y \in T : x <= y
  <2>1. T \subseteq Nat
    OBVIOUS
  <2> HIDE DEF T
  <2> QED BY <1>1, <2>1, Least
<1>3. x \in 0..N /\ x \notin S /\ x # 0
  BY <1>2
<1>4. x - 1 \in 0..N /\ x - 1 < N /\ ~(x <= x - 1) /\ (x - 1) + 1 = x
  BY <1>3
<1>5. x - 1 \in S
  BY <1>2, <1>4
<1> QED BY <1>3, <1>4, <1>5

\* The defining equation of FlattenSeq has a solution.
LEMMA FlattenDefined ==
    ASSUME NEW s, Len(s) \in Nat
    PROVE  \E f : f = [x \in 1..Len(s) |-> IF x = 1 THEN s[x] ELSE f[x - 1] \o s[x]]
<1> DEFINE Sol(f, k) == f = [x \in 1..k |-> IF x = 1 THEN s[x] ELSE f[x - 1] \o s[x]]
           S == {k \in Nat : \E f : Sol(f, k)}
<1>1. 0 \in S
  <2>1. Sol([x \in 1..0 |-> x], 0)
    OBVIOUS
  <2> QED BY <2>1
<1>2. ASSUME NEW k \in Nat, k \in S PROVE k + 1 \in S
  <2>1. PICK f : Sol(f, k)
    BY <1>2
  <2> DEFINE g == [x \in 1..(k + 1) |-> IF x = k + 1 THEN IF x = 1 THEN s[x] ELSE f[k] \o s[x] ELSE f[x]]
  <2>2. ASSUME NEW x \in 1..(k + 1) PROVE g[x] = IF x = 1 THEN s[x] ELSE g[x - 1] \o s[x]
    <3>1. CASE x = k + 1
      <4>1. CASE x = 1
        BY <3>1, <4>1
      <4>2. CASE x # 1
        <5>1. x - 1 = k /\ k \in 1..(k + 1) /\ k # k + 1
          BY <3>1, <4>2
        <5>2. g[x - 1] = f[k]
          BY <5>1
        <5>3. g[x] = f[k] \o s[x]
          BY <3>1, <4>2
        <5> QED BY <4>2, <5>2, <5>3
      <4> QED BY <4>1, <4>2
    <3>2. CASE x # k + 1
      <4>1. x \in 1..k /\ g[x] = f[x]
        BY <3>2
      <4>2. f[x] = IF x = 1 THEN s[x] ELSE f[x - 1] \o s[x]
        BY <2>1, <4>1
      <4>3. x # 1 => x - 1 \in 1..(k + 1) /\ x - 1 # k + 1
        BY <4>1
      <4>4. x # 1 => g[x - 1] = f[x - 1]
        BY <4>3
      <4> QED BY <4>1, <4>2, <4>4
    <3> QED BY <3>1, <3>2
  <2>3. DOMAIN g = 1..(k + 1) /\ g = [x \in 1..(k + 1) |-> g[x]]
    OBVIOUS
  <2> HIDE DEF g
  <2>4. Sol(g, k + 1)
    BY <2>2, <2>3
  <2> HIDE DEF Sol
  <2>5. \E h : Sol(h, k + 1)
    BY <2>4
  <2> QED BY <2>5
<1> HIDE DEF S
<1>3. Len(s) \in S
  <2>1. S \subseteq Nat
    BY DEF S
  <2>2. \A k \in 0..Len(s) : k < Len(s) /\ k \in S => k + 1 \in S
    BY <1>2
  <2>3. \A k \in 0..Len(s) : k \in S
    BY <1>1, <2>2, UpTo
  <2> QED BY <2>3
<1> QED BY <1>3 DEF S

\* FlattenSeq by its prefixes.
LEMMA FlattenPrefixes ==
    ASSUME NEW T, NEW s \in Seq(Seq(T))
    PROVE  \E f \in [0..Len(s) -> Seq(T)] :
              /\ f[0] = <<>> /\ FlattenSeq(s) = f[Len(s)]
              /\ \A x \in 1..Len(s) : f[x] = f[x - 1] \o s[x]
<1>1. CASE Len(s) = 0
  <2>1. FlattenSeq(s) = s /\ s = <<>>
    BY <1>1 DEF FlattenSeq
  <2> DEFINE f == [x \in 0..Len(s) |-> <<>>]
  <2>2. f \in [0..Len(s) -> Seq(T)] /\ f[0] = <<>> /\ f[Len(s)] = <<>> /\ 1..Len(s) = {}
    BY <1>1
  <2> QED BY <2>1, <2>2
<1>2. CASE Len(s) # 0
  <2> DEFINE Sol(g) == g = [x \in 1..Len(s) |-> IF x = 1 THEN s[x] ELSE g[x - 1] \o s[x]]
             h == CHOOSE g : Sol(g)
  <2>1. FlattenSeq(s) = h[Len(s)]
    BY <1>2 DEF FlattenSeq
  <2>2. \E g : Sol(g)
    <3>1. Len(s) \in Nat
      OBVIOUS
    <3> QED BY <3>1, FlattenDefined
  <2>3. Sol(h)
    BY <2>2, Zenon
  <2> HIDE DEF h
  <2>4. \A x \in 1..Len(s) : h[x] = IF x = 1 THEN s[x] ELSE h[x - 1] \o s[x]
    BY <2>3
  <2> DEFINE f == [x \in 0..Len(s) |-> IF x = 0 THEN <<>> ELSE h[x]]
             S == {k \in Nat : k \in 1..Len(s) => h[k] \in Seq(T)}
  <2>5. \A x \in 1..Len(s) : s[x] \in Seq(T)
    OBVIOUS
  <2>6. ASSUME NEW k \in 0..Len(s), k < Len(s), k \in S PROVE k + 1 \in S
    <3>1. k + 1 \in 1..Len(s) /\ (k + 1) - 1 = k /\ s[k + 1] \in Seq(T)
      BY <2>5, <2>6
    <3>2. CASE k = 0
      BY <2>4, <3>1, <3>2
    <3>3. CASE k # 0
      <4>1. h[k] \in Seq(T) /\ k + 1 # 1
        BY <2>6, <3>3
      <4>2. h[k + 1] = h[k] \o s[k + 1]
        BY <2>4, <3>1, <4>1
      <4>3. h[k + 1] \in Seq(T)
        BY <3>1, <4>1, <4>2
      <4> QED BY <4>3
    <3> QED BY <3>2, <3>3
  <2>7. 0 \in S
    OBVIOUS
  <2>8. \A k \in 0..Len(s) : k \in S
    <3>1. Len(s) \in Nat
      OBVIOUS
    <3> HIDE DEF S
    <3> QED BY <2>6, <2>7, <3>1, UpTo
  <2>9. \A k \in 1..Len(s) : h[k] \in Seq(T)
    BY <2>8
  <2>10. f \in [0..Len(s) -> Seq(T)] /\ f[0] = <<>> /\ f[Len(s)] = h[Len(s)]
    BY <1>2, <2>9
  <2>11. ASSUME NEW x \in 1..Len(s) PROVE f[x] = f[x - 1] \o s[x]
    <3>1. f[x] = h[x] /\ x - 1 \in 0..Len(s)
      OBVIOUS
    <3>2. CASE x = 1
      <4>1. f[x - 1] = <<>> /\ h[x] = s[x] /\ s[x] \in Seq(T)
        BY <2>4, <2>5, <3>2
      <4>2. <<>> \o s[x] = s[x]
        BY <4>1
      <4> QED BY <3>1, <4>1, <4>2
    <3>3. CASE x # 1
      <4>1. f[x - 1] = h[x - 1]
        BY <3>1, <3>3
      <4> QED BY <2>4, <3>1, <3>3, <4>1
    <3> QED BY <3>2, <3>3
  <2> HIDE DEF f
  <2> QED BY <2>1, <2>10, <2>11
<1> QED BY <1>1, <1>2

LEMMA ConcatSet ==
    ASSUME NEW T, NEW a \in Seq(T), NEW b \in Seq(T)
    PROVE  a \o b \in Seq(T) /\ ToSet(a \o b) = ToSet(a) \cup ToSet(b)
<1>1. a \o b \in Seq(T) /\ Len(a \o b) = Len(a) + Len(b) /\ Len(a) \in Nat /\ Len(b) \in Nat
      /\ DOMAIN a = 1..Len(a) /\ DOMAIN b = 1..Len(b) /\ DOMAIN (a \o b) = 1..(Len(a) + Len(b))
  OBVIOUS
<1>2. /\ \A x \in 1..Len(a) : (a \o b)[x] = a[x]
      /\ \A x \in 1..Len(b) : (a \o b)[Len(a) + x] = b[x]
  OBVIOUS
<1>3. ASSUME NEW y \in ToSet(a \o b) PROVE y \in ToSet(a) \cup ToSet(b)
  <2>1. PICK x \in 1..(Len(a) + Len(b)) : y = (a \o b)[x]
    BY <1>1 DEF ToSet
  <2>2. CASE x <= Len(a)
    BY <1>1, <1>2, <2>1, <2>2 DEF ToSet
  <2>3. CASE ~(x <= Len(a))
    <3>1. x - Len(a) \in 1..Len(b) /\ Len(a) + (x - Len(a)) = x
      BY <1>1, <2>3
    <3>2. y = b[x - Len(a)]
      BY <1>2, <2>1, <3>1
    <3> QED BY <1>1, <3>1, <3>2 DEF ToSet
  <2> QED BY <2>2, <2>3
<1>4. ASSUME NEW y \in ToSet(a) PROVE y \in ToSet(a \o b)
  <2>1. PICK x \in 1..Len(a) : y = a[x]
    BY <1>1 DEF ToSet
  <2>2. x \in 1..(Len(a) + Len(b)) /\ y = (a \o b)[x]
    BY <1>1, <1>2, <2>1
  <2> QED BY <1>1, <2>2 DEF ToSet
<1>5. ASSUME NEW y \in ToSet(b) PROVE y \in ToSet(a \o b)
  <2>1. PICK x \in 1..Len(b) : y = b[x]
    BY <1>1 DEF ToSet
  <2>2. Len(a) + x \in 1..(Len(a) + Len(b)) /\ y = (a \o b)[Len(a) + x]
    BY <1>1, <1>2, <2>1
  <2> QED BY <1>1, <2>2 DEF ToSet
<1> QED BY <1>1, <1>3, <1>4, <1>5

\* A flattened sequence has the elements of all its parts.
LEMMA FlattenElements ==
    ASSUME NEW T, NEW s \in Seq(Seq(T))
    PROVE  /\ FlattenSeq(s) \in Seq(T)
           /\ \A y : y \in ToSet(FlattenSeq(s)) <=> \E x \in DOMAIN s : y \in ToSet(s[x])
<1>0. Len(s) \in Nat /\ DOMAIN s = 1..Len(s) /\ \A x \in 1..Len(s) : s[x] \in Seq(T)
  OBVIOUS
<1>1. PICK f \in [0..Len(s) -> Seq(T)] :
              /\ f[0] = <<>> /\ FlattenSeq(s) = f[Len(s)]
              /\ \A x \in 1..Len(s) : f[x] = f[x - 1] \o s[x]
  BY FlattenPrefixes
<1> DEFINE S == {k \in 0..Len(s) : \A y : y \in ToSet(f[k]) <=> \E x \in 1..k : y \in ToSet(s[x])}
<1>2. 0 \in S
  <2>1. ToSet(f[0]) = {} /\ 1..0 = {}
    BY <1>1 DEF ToSet
  <2> QED BY <1>0, <2>1
<1>3. ASSUME NEW k \in 0..Len(s), k < Len(s), k \in S PROVE k + 1 \in S
  <2>1. k + 1 \in 1..Len(s) /\ k + 1 \in 0..Len(s) /\ (k + 1) - 1 = k /\ 1..(k + 1) = 1..k \cup {k + 1}
    BY <1>0, <1>3
  <2>2. f[k + 1] = f[k] \o s[k + 1] /\ f[k] \in Seq(T) /\ s[k + 1] \in Seq(T)
    BY <1>0, <1>1, <2>1
  <2>3. ToSet(f[k + 1]) = ToSet(f[k]) \cup ToSet(s[k + 1])
    BY <2>2, ConcatSet
  <2>4. \A y : y \in ToSet(f[k]) <=> \E x \in 1..k : y \in ToSet(s[x])
    BY <1>3
  <2>5. \A y : y \in ToSet(f[k + 1]) <=> \E x \in 1..(k + 1) : y \in ToSet(s[x])
    BY <2>1, <2>3, <2>4, Zenon
  <2> QED BY <2>1, <2>5
<1>4. Len(s) \in S
  <2> HIDE DEF S
  <2>1. \A k \in 0..Len(s) : k \in S
    BY <1>0, <1>2, <1>3, UpTo
  <2> QED BY <1>0, <2>1
<1>5. f[Len(s)] \in Seq(T)
  BY <1>0, <1>1
<1> QED BY <1>0, <1>1, <1>4, <1>5

LEMMA ConcatInjective ==
    ASSUME NEW T, NEW a \in Seq(T), NEW b \in Seq(T), IsInjective(a), IsInjective(b),
           ToSet(a) \cap ToSet(b) = {}
    PROVE  IsInjective(a \o b)
<1>1. Len(a \o b) = Len(a) + Len(b) /\ Len(a) \in Nat /\ Len(b) \in Nat
      /\ DOMAIN a = 1..Len(a) /\ DOMAIN b = 1..Len(b) /\ DOMAIN (a \o b) = 1..(Len(a) + Len(b))
  OBVIOUS
<1>2. /\ \A x \in 1..Len(a) : (a \o b)[x] = a[x] /\ a[x] \in ToSet(a)
      /\ \A x \in 1..Len(b) : (a \o b)[Len(a) + x] = b[x] /\ b[x] \in ToSet(b)
  BY DEF ToSet
<1> SUFFICES ASSUME NEW x \in 1..(Len(a) + Len(b)), NEW y \in 1..(Len(a) + Len(b)), (a \o b)[x] = (a \o b)[y]
             PROVE  x = y
  BY <1>1 DEF IsInjective
<1>3. \A z \in 1..(Len(a) + Len(b)) :
         z \in 1..Len(a) \/ (z - Len(a) \in 1..Len(b) /\ Len(a) + (z - Len(a)) = z)
  BY <1>1
<1>4. CASE x \in 1..Len(a) /\ y \in 1..Len(a)
  BY <1>1, <1>2, <1>4 DEF IsInjective
<1>5. CASE x \notin 1..Len(a) /\ y \notin 1..Len(a)
  <2>1. b[x - Len(a)] = b[y - Len(a)]
    BY <1>2, <1>3, <1>5
  <2>2. x - Len(a) = y - Len(a)
    BY <1>1, <1>3, <1>5, <2>1 DEF IsInjective
  <2> QED BY <1>1, <2>2
<1>6. CASE x \in 1..Len(a) /\ y \notin 1..Len(a)
  <2>1. (a \o b)[x] \in ToSet(a) /\ (a \o b)[y] \in ToSet(b)
    BY <1>2, <1>3, <1>6
  <2> QED BY <2>1
<1>7. CASE x \notin 1..Len(a) /\ y \in 1..Len(a)
  <2>1. (a \o b)[y] \in ToSet(a) /\ (a \o b)[x] \in ToSet(b)
    BY <1>2, <1>3, <1>7
  <2> QED BY <2>1
<1> QED BY <1>4, <1>5, <1>6, <1>7

\* A flattened sequence has no element twice if the parts have none in common.
\* Its last part is at its end.
LEMMA FlattenInjective ==
    ASSUME NEW T, NEW s \in Seq(Seq(T)), \A x \in DOMAIN s : IsInjective(s[x]),
           \A x, y \in DOMAIN s : x # y => ToSet(s[x]) \cap ToSet(s[y]) = {}
    PROVE  /\ IsInjective(FlattenSeq(s))
           /\ s # <<>> => \E p \in Seq(T) :
                 /\ FlattenSeq(s) = p \o s[Len(s)]
                 /\ \A y : y \in ToSet(p) <=> \E x \in DOMAIN s : x < Len(s) /\ y \in ToSet(s[x])
<1>0. Len(s) \in Nat /\ DOMAIN s = 1..Len(s) /\ \A x \in 1..Len(s) : s[x] \in Seq(T)
  OBVIOUS
<1>1. PICK f \in [0..Len(s) -> Seq(T)] :
              /\ f[0] = <<>> /\ FlattenSeq(s) = f[Len(s)]
              /\ \A x \in 1..Len(s) : f[x] = f[x - 1] \o s[x]
  BY FlattenPrefixes
<1> DEFINE S == {k \in 0..Len(s) : /\ IsInjective(f[k])
                                   /\ \A y : y \in ToSet(f[k]) <=> \E x \in 1..k : y \in ToSet(s[x])}
<1>2. 0 \in S
  <2>1. ToSet(f[0]) = {} /\ 1..0 = {}
    BY <1>1 DEF ToSet
  <2>2. IsInjective(f[0])
    BY <1>1 DEF IsInjective
  <2> QED BY <1>0, <2>1, <2>2
<1>3. ASSUME NEW k \in 0..Len(s), k < Len(s), k \in S PROVE k + 1 \in S
  <2>1. k + 1 \in 1..Len(s) /\ k + 1 \in 0..Len(s) /\ (k + 1) - 1 = k /\ 1..(k + 1) = 1..k \cup {k + 1}
        /\ \A x \in 1..k : x \in 1..Len(s) /\ x # k + 1
    BY <1>0, <1>3
  <2>2. f[k + 1] = f[k] \o s[k + 1] /\ f[k] \in Seq(T) /\ s[k + 1] \in Seq(T)
    BY <1>0, <1>1, <2>1
  <2>3. ToSet(f[k + 1]) = ToSet(f[k]) \cup ToSet(s[k + 1])
    BY <2>2, ConcatSet
  <2>4. IsInjective(f[k]) /\ \A y : y \in ToSet(f[k]) <=> \E x \in 1..k : y \in ToSet(s[x])
    BY <1>3
  <2>5. \A y : y \in ToSet(f[k + 1]) <=> \E x \in 1..(k + 1) : y \in ToSet(s[x])
    BY <2>1, <2>3, <2>4, Zenon
  <2>6. ToSet(f[k]) \cap ToSet(s[k + 1]) = {}
    BY <1>0, <2>1, <2>4
  <2>7. IsInjective(s[k + 1])
    BY <1>0, <2>1
  <2>8. IsInjective(f[k + 1])
    BY <2>2, <2>4, <2>6, <2>7, ConcatInjective
  <2> QED BY <2>1, <2>5, <2>8
<1>4. \A k \in 0..Len(s) : k \in S
  <2> HIDE DEF S
  <2> QED BY <1>0, <1>2, <1>3, UpTo
<1>5. IsInjective(f[Len(s)])
  <2>1. Len(s) \in S
    BY <1>0, <1>4
  <2> QED BY <2>1
<1>6. ASSUME s # <<>>
      PROVE  \E p \in Seq(T) :
                 /\ FlattenSeq(s) = p \o s[Len(s)]
                 /\ \A y : y \in ToSet(p) <=> \E x \in DOMAIN s : x < Len(s) /\ y \in ToSet(s[x])
  <2>1. Len(s) \in 1..Len(s) /\ Len(s) - 1 \in 0..Len(s)
        /\ \A x : x \in 1..(Len(s) - 1) <=> x \in DOMAIN s /\ x < Len(s)
    BY <1>0, <1>6
  <2>2. Len(s) - 1 \in S
    BY <1>4, <2>1
  <2>3. f[Len(s) - 1] \in Seq(T) /\ FlattenSeq(s) = f[Len(s) - 1] \o s[Len(s)]
    BY <1>1, <2>1
  <2>4. \A y : y \in ToSet(f[Len(s) - 1]) <=> \E x \in 1..(Len(s) - 1) : y \in ToSet(s[x])
    BY <2>2
  <2>5. \A y : y \in ToSet(f[Len(s) - 1]) <=> \E x \in DOMAIN s : x < Len(s) /\ y \in ToSet(s[x])
    BY <2>1, <2>4, Zenon
  <2> QED BY <2>3, <2>5
<1> QED BY <1>1, <1>5, <1>6

\* Sequences are equal that have the same elements at the same places.
LEMMA SameSequence ==
    ASSUME NEW T, NEW a \in Seq(T), NEW b \in Seq(T), Len(a) = Len(b), \A x \in 1..Len(a) : a[x] = b[x]
    PROVE  a = b
<1>1. a = [x \in 1..Len(a) |-> a[x]] /\ b = [x \in 1..Len(b) |-> b[x]]
  OBVIOUS
<1> QED BY <1>1

LEMMA ConcatLen ==
    ASSUME NEW T, NEW a \in Seq(T), NEW b \in Seq(T)
    PROVE  Len(a \o b) = Len(a) + Len(b)
OBVIOUS

LEMMA FlattenSingles ==
    ASSUME NEW T, NEW s \in Seq(Seq(T)), \A x \in DOMAIN s : Len(s[x]) = 1
    PROVE  Len(FlattenSeq(s)) = Len(s) /\ \A x \in DOMAIN s : FlattenSeq(s)[x] = s[x][1]
<1>0. Len(s) \in Nat /\ DOMAIN s = 1..Len(s) /\ \A x \in 1..Len(s) : s[x] \in Seq(T)
  OBVIOUS
<1>1. PICK f \in [0..Len(s) -> Seq(T)] :
              /\ f[0] = <<>> /\ FlattenSeq(s) = f[Len(s)]
              /\ \A x \in 1..Len(s) : f[x] = f[x - 1] \o s[x]
  BY FlattenPrefixes
<1> DEFINE S == {k \in 0..Len(s) : Len(f[k]) = k /\ \A x \in 1..k : f[k][x] = s[x][1]}
<1>2. 0 \in S
  BY <1>0, <1>1
<1>3. ASSUME NEW k \in 0..Len(s), k < Len(s), k \in S PROVE k + 1 \in S
  <2>1. k + 1 \in 1..Len(s) /\ k + 1 \in 0..Len(s) /\ (k + 1) - 1 = k
    BY <1>0, <1>3
  <2>2. f[k + 1] = f[k] \o s[k + 1] /\ f[k] \in Seq(T) /\ s[k + 1] \in Seq(T) /\ Len(s[k + 1]) = 1
    BY <1>0, <1>1, <2>1
  <2>3. Len(f[k]) = k /\ \A x \in 1..k : f[k][x] = s[x][1]
    BY <1>3
  <2>4. Len(f[k + 1]) = k + 1
    <3>1. Len(f[k] \o s[k + 1]) = Len(f[k]) + Len(s[k + 1])
      BY <2>2, ConcatLen, Zenon
    <3> QED BY <2>2, <2>3, <3>1
  <2>5. ASSUME NEW x \in 1..(k + 1) PROVE f[k + 1][x] = s[x][1]
    <3>1. CASE x = k + 1
      BY <2>2, <2>3, <3>1
    <3>2. CASE x # k + 1
      BY <2>2, <2>3, <3>2
    <3> QED BY <3>1, <3>2
  <2> QED BY <2>1, <2>4, <2>5
<1>4. Len(s) \in S
  <2> HIDE DEF S
  <2>1. \A k \in 0..Len(s) : k \in S
    BY <1>0, <1>2, <1>3, UpTo
  <2> QED BY <1>0, <2>1
<1> QED BY <1>0, <1>1, <1>4

LEMMA SmallSets ==
    ToSet(<<>>) = {} /\ \A a : ToSet(<<a>>) = {a}
<1>1. DOMAIN <<>> = {} /\ \A a : DOMAIN <<a>> = {1} /\ <<a>>[1] = a
  OBVIOUS
<1>2. ToSet(<<>>) = {}
  BY <1>1 DEF ToSet
<1>3. ASSUME NEW a PROVE ToSet(<<a>>) = {a}
  <2>1. DOMAIN <<a>> = {1} /\ <<a>>[1] = a
    BY <1>1, Zenon
  <2> DEFINE t == <<a>>
  <2> HIDE DEF t
  <2>2. DOMAIN t = {1} /\ t[1] = a
    BY <2>1 DEF t
  <2>3. ToSet(t) = {a}
    BY <2>2 DEF ToSet
  <2> QED BY <2>3 DEF t
<1> QED BY <1>2, <1>3

\* InOrder keeps what is in the set, in the order it was in.
LEMMA InOrderIs ==
    ASSUME NEW T, NEW s \in Seq(T), NEW S
    PROVE  /\ InOrder(s, S) \in Seq(T)
           /\ ToSet(InOrder(s, S)) = ToSet(s) \cap S
           /\ IsInjective(s) => IsInjective(InOrder(s, S))
           /\ (\A x \in DOMAIN s : s[x] \in S) => InOrder(s, S) = s
<1> DEFINE p == [i \in DOMAIN s |-> IF s[i] \in S THEN << s[i] >> ELSE <<>>]
<1>1. InOrder(s, S) = FlattenSeq(p)
  BY DEF InOrder
<1>2. DOMAIN s = 1..Len(s) /\ Len(s) \in Nat /\ \A x \in DOMAIN s : s[x] \in T
  OBVIOUS
<1>3. \A x \in DOMAIN s : p[x] = IF s[x] \in S THEN << s[x] >> ELSE <<>>
  OBVIOUS
<1>4. p \in Seq(Seq(T)) /\ DOMAIN p = DOMAIN s /\ Len(p) = Len(s)
  <2>1. \A x \in DOMAIN s : p[x] \in Seq(T)
    BY <1>2, <1>3
  <2> QED BY <1>2, <2>1
<1> HIDE DEF p
<1>5. \A x \in DOMAIN s : ToSet(p[x]) = IF s[x] \in S THEN {s[x]} ELSE {}
  BY <1>3, SmallSets
<1>6. FlattenSeq(p) \in Seq(T) /\ \A y : y \in ToSet(FlattenSeq(p)) <=> \E x \in DOMAIN p : y \in ToSet(p[x])
  BY <1>4, FlattenElements
<1>7. ToSet(FlattenSeq(p)) = ToSet(s) \cap S
  <2>1. \A y : y \in ToSet(s) <=> \E x \in DOMAIN s : y = s[x]
    BY DEF ToSet
  <2>2. ASSUME NEW y PROVE y \in ToSet(FlattenSeq(p)) <=> y \in ToSet(s) /\ y \in S
    <3>1. ASSUME y \in ToSet(FlattenSeq(p)) PROVE y \in ToSet(s) /\ y \in S
      <4>1. PICK x \in DOMAIN s : y \in ToSet(p[x])
        BY <1>4, <1>6, <3>1
      <4>2. s[x] \in S /\ y = s[x]
        BY <1>5, <4>1
      <4> QED BY <2>1, <4>2
    <3>2. ASSUME y \in ToSet(s), y \in S PROVE y \in ToSet(FlattenSeq(p))
      <4>1. PICK x \in DOMAIN s : y = s[x]
        BY <2>1, <3>2
      <4>2. y \in ToSet(p[x])
        BY <1>5, <3>2, <4>1
      <4> QED BY <1>4, <1>6, <4>2
    <3> QED BY <3>1, <3>2
  <2> QED BY <2>2
<1>8. ASSUME IsInjective(s) PROVE IsInjective(FlattenSeq(p))
  <2>1. ASSUME NEW x \in DOMAIN p PROVE IsInjective(p[x])
    BY <1>3, <1>4 DEF IsInjective
  <2>2. ASSUME NEW x \in DOMAIN p, NEW y \in DOMAIN p, x # y PROVE ToSet(p[x]) \cap ToSet(p[y]) = {}
    <3>1. s[x] # s[y]
      BY <1>4, <1>8, <2>2 DEF IsInjective
    <3> QED BY <1>4, <1>5, <3>1
  <2> QED BY <1>4, <2>1, <2>2, FlattenInjective
<1>9. ASSUME \A x \in DOMAIN s : s[x] \in S PROVE FlattenSeq(p) = s
  <2>1. \A x \in DOMAIN p : p[x] = << s[x] >>
    BY <1>3, <1>4, <1>9
  <2>2. \A x \in DOMAIN p : Len(p[x]) = 1 /\ p[x][1] = s[x]
    BY <2>1
  <2>3. Len(FlattenSeq(p)) = Len(p) /\ \A x \in DOMAIN p : FlattenSeq(p)[x] = p[x][1]
    BY <1>4, <2>2, FlattenSingles
  <2>4. Len(FlattenSeq(p)) = Len(s) /\ \A x \in 1..Len(FlattenSeq(p)) : FlattenSeq(p)[x] = s[x]
    BY <1>2, <1>4, <2>2, <2>3
  <2> QED BY <1>6, <2>4, SameSequence
<1> QED BY <1>1, <1>6, <1>7, <1>8, <1>9

-----------------------------------------------------------------------------
(* Positions in a chain *)

LEMMA ChainShape ==
    ASSUME NEW c \in AllChains
    PROVE  /\ c.name \in Names /\ c.port \in Nat /\ c.key \in [Nodes -> Keys]
           /\ DOMAIN c = {"name", "proto", "transport", "port", "levels", "key"}
           /\ c.levels \in Seq(Seq(Nodes)) /\ Len(c.levels) \in Nat /\ Len(c.levels) >= 1
           /\ DOMAIN c.levels = 1..Len(c.levels)
           /\ \A l \in DOMAIN c.levels : c.levels[l] \in Seq(Nodes) /\ Len(c.levels[l]) >= 1 /\ Len(c.levels[l]) \in Nat
           /\ c.transport = "awg" => \A l \in DOMAIN c.levels : Len(c.levels[l]) = 1
           /\ \A k, l \in DOMAIN c.levels : \A x \in DOMAIN c.levels[k], y \in DOMAIN c.levels[l] :
                 c.levels[k][x] = c.levels[l][y] => k = l /\ x = y
           /\ c.proto = "awg" => ToSet(c.levels[1]) \subseteq AWGNodes
<1>1. PICK f \in Forms, k \in [Nodes -> Keys] : c = ChainOf(f, k)
  BY DEF AllChains
<1>2. /\ c.name = f.name /\ c.port = f.port /\ c.levels = f.levels /\ c.key = k /\ c.proto = f.proto
      /\ c.transport = f.transport /\ DOMAIN c = {"name", "proto", "transport", "port", "levels", "key"}
  BY <1>1 DEF ChainOf
<1>3. /\ f.port \in Nat /\ f.levels \in Seq(Seq(Nodes)) /\ f.levels # <<>> /\ ValidateChainTopology(f)
      /\ \A m, l \in DOMAIN f.levels : \A x \in DOMAIN f.levels[m], y \in DOMAIN f.levels[l] :
            f.levels[m][x] = f.levels[l][y] => m = l /\ x = y
      /\ f.proto = "awg" => ToSet(f.levels[1]) \subseteq AWGNodes
  BY CascadeAssumption, Zenon
<1>4. f.name \in Names
  BY DEF Names
<1>5. Len(f.levels) \in Nat /\ Len(f.levels) >= 1 /\ DOMAIN f.levels = 1..Len(f.levels)
  BY <1>3
<1>6. \A l \in DOMAIN f.levels : f.levels[l] \in Seq(Nodes) /\ f.levels[l] # <<>>
  BY <1>3 DEF ValidateChainTopology
<1>7. \A l \in DOMAIN f.levels : Len(f.levels[l]) >= 1 /\ Len(f.levels[l]) \in Nat
  BY <1>6
<1>8. f.transport = "awg" => \A l \in DOMAIN f.levels : Len(f.levels[l]) = 1
  BY <1>3 DEF ValidateChainTopology
<1>9. \A m, l \in DOMAIN c.levels : \A x \in DOMAIN c.levels[m], y \in DOMAIN c.levels[l] :
                 c.levels[m][x] = c.levels[l][y] => m = l /\ x = y
  <2>1. c.levels = f.levels
    BY <1>2
  <2> QED BY <1>3, <2>1
<1> QED BY <1>2, <1>3, <1>4, <1>5, <1>6, <1>7, <1>8, <1>9, Zenon

\* A kernel AWG interface belongs to one chain.
LEMMA OneAWGEntry ==
    ASSUME NEW c \in AllChains, NEW d \in AllChains, IsAWG(c), IsAWG(d), c.name # d.name
    PROVE  ToSet(c.levels[1]) \cap ToSet(d.levels[1]) = {}
<1>1. PICK f \in Forms, k \in [Nodes -> Keys] : c = ChainOf(f, k)
  BY DEF AllChains
<1>2. PICK g \in Forms, l \in [Nodes -> Keys] : d = ChainOf(g, l)
  BY DEF AllChains
<1>3. c.name = f.name /\ c.levels = f.levels /\ c.proto = f.proto
  BY <1>1 DEF ChainOf
<1>4. d.name = g.name /\ d.levels = g.levels /\ d.proto = g.proto
  BY <1>2 DEF ChainOf
<1>5. f.name # g.name /\ IsAWG(f) /\ IsAWG(g) => ToSet(f.levels[1]) \cap ToSet(g.levels[1]) = {}
  BY CascadeAssumption, Zenon
<1> QED BY <1>3, <1>4, <1>5 DEF IsAWG

LEMMA NodesOfChain ==
    ASSUME NEW c \in AllChains
    PROVE  /\ AllNodes(c) \in Seq(Nodes) /\ IsInjective(AllNodes(c)) /\ ChainNodes(c) \subseteq Nodes
           /\ Len(AllNodes(c)) \in Nat /\ Len(AllNodes(c)) >= 1 /\ DOMAIN AllNodes(c) = 1..Len(AllNodes(c))
           /\ \A n : n \in ChainNodes(c) <=> \E l \in DOMAIN c.levels : n \in ToSet(c.levels[l])
           /\ \A k, l \in DOMAIN c.levels : k # l => ToSet(c.levels[k]) \cap ToSet(c.levels[l]) = {}
           /\ \E p \in Seq(Nodes) :
                 /\ AllNodes(c) = p \o c.levels[Len(c.levels)]
                 /\ \A n : n \in ToSet(p) <=> \E l \in DOMAIN c.levels : l < Len(c.levels) /\ n \in ToSet(c.levels[l])
<1>1. c.levels \in Seq(Seq(Nodes)) /\ c.levels # <<>> /\ 1 \in DOMAIN c.levels
  BY ChainShape
<1>2. \A k, l \in DOMAIN c.levels : \A x \in DOMAIN c.levels[k], y \in DOMAIN c.levels[l] :
                 c.levels[k][x] = c.levels[l][y] => k = l /\ x = y
  BY ChainShape, Zenon
<1>3. \A l \in DOMAIN c.levels : IsInjective(c.levels[l])
  BY <1>2, Zenon DEF IsInjective
<1>4. ASSUME NEW k \in DOMAIN c.levels, NEW l \in DOMAIN c.levels, k # l
      PROVE  ToSet(c.levels[k]) \cap ToSet(c.levels[l]) = {}
  <2>1. SUFFICES ASSUME NEW n \in ToSet(c.levels[k]), n \in ToSet(c.levels[l]) PROVE FALSE
    OBVIOUS
  <2>2. PICK x \in DOMAIN c.levels[k] : n = c.levels[k][x]
    BY <2>1 DEF ToSet
  <2>3. PICK y \in DOMAIN c.levels[l] : n = c.levels[l][y]
    BY <2>1 DEF ToSet
  <2> QED BY <1>2, <1>4, <2>2, <2>3, Zenon
<1>5. AllNodes(c) \in Seq(Nodes) /\ \A n : n \in ChainNodes(c) <=> \E l \in DOMAIN c.levels : n \in ToSet(c.levels[l])
  BY <1>1, FlattenElements DEF AllNodes, ChainNodes
<1>6. /\ IsInjective(AllNodes(c))
      /\ \E p \in Seq(Nodes) :
            /\ AllNodes(c) = p \o c.levels[Len(c.levels)]
            /\ \A n : n \in ToSet(p) <=> \E l \in DOMAIN c.levels : l < Len(c.levels) /\ n \in ToSet(c.levels[l])
  BY <1>1, <1>3, <1>4, FlattenInjective, Zenon DEF AllNodes
<1>7. Len(AllNodes(c)) \in Nat /\ DOMAIN AllNodes(c) = 1..Len(AllNodes(c)) /\ ChainNodes(c) \subseteq Nodes
  BY <1>5 DEF ChainNodes, ToSet
<1>8. Len(AllNodes(c)) >= 1
  <2>1. c.levels[1] \in Seq(Nodes) /\ Len(c.levels[1]) >= 1
    BY <1>1, ChainShape
  <2>2. c.levels[1][1] \in ToSet(c.levels[1])
    BY <2>1 DEF ToSet
  <2>3. c.levels[1][1] \in ChainNodes(c)
    BY <1>1, <1>5, <2>2
  <2>4. DOMAIN AllNodes(c) # {}
    BY <2>3 DEF ChainNodes, ToSet
  <2> QED BY <1>7, <2>4
<1> QED BY <1>4, <1>5, <1>6, <1>7, <1>8

LEMMA LevelIs ==
    ASSUME NEW c \in AllChains, NEW l \in DOMAIN c.levels, NEW n \in ToSet(c.levels[l])
    PROVE  LevelIndexOf(c, n) = l /\ n \in ChainNodes(c)
<1>1. \A k \in DOMAIN c.levels : n \in ToSet(c.levels[k]) => k = l
  BY NodesOfChain
<1>2. n \in ChainNodes(c)
  BY NodesOfChain
<1> QED BY <1>1, <1>2 DEF LevelIndexOf

LEMMA LevelOf ==
    ASSUME NEW c \in AllChains, NEW n \in ChainNodes(c)
    PROVE  /\ LevelIndexOf(c, n) \in DOMAIN c.levels /\ n \in ToSet(c.levels[LevelIndexOf(c, n)]) /\ n \in Nodes
           /\ LevelIndexOf(c, n) \in 1..Len(c.levels) /\ Len(c.levels) \in Nat
<1>1. PICK l \in DOMAIN c.levels : n \in ToSet(c.levels[l])
  BY NodesOfChain
<1>2. LevelIndexOf(c, n) = l
  BY <1>1, LevelIs
<1>3. n \in Nodes /\ Len(c.levels) \in Nat /\ DOMAIN c.levels = 1..Len(c.levels)
  BY NodesOfChain, ChainShape
<1> QED BY <1>1, <1>2, <1>3

LEMMA NextOf ==
    ASSUME NEW c \in AllChains, NEW n \in ChainNodes(c), HasOutbound(c, n)
    PROVE  /\ LevelIndexOf(c, n) + 1 \in DOMAIN c.levels /\ NextNodes(c, n) = c.levels[LevelIndexOf(c, n) + 1]
           /\ NextNodes(c, n) \in Seq(Nodes) /\ Len(NextNodes(c, n)) \in Nat /\ Len(NextNodes(c, n)) >= 1
           /\ c.transport = "awg" => Len(NextNodes(c, n)) = 1
           /\ IsInjective(NextNodes(c, n))
           /\ \A m \in ToSet(NextNodes(c, n)) : m \in ChainNodes(c) /\ LevelIndexOf(c, m) = LevelIndexOf(c, n) + 1
<1>1. LevelIndexOf(c, n) \in 1..Len(c.levels) /\ Len(c.levels) \in Nat /\ LevelIndexOf(c, n) < Len(c.levels)
  BY LevelOf DEF HasOutbound
<1>2. DOMAIN c.levels = 1..Len(c.levels)
  BY ChainShape
<1>3. LevelIndexOf(c, n) + 1 \in DOMAIN c.levels
  BY <1>1, <1>2
<1>4. NextNodes(c, n) = c.levels[LevelIndexOf(c, n) + 1]
  BY DEF NextNodes
<1> DEFINE l == LevelIndexOf(c, n) + 1
<1> HIDE DEF l
<1>5. c.levels[l] \in Seq(Nodes) /\ Len(c.levels[l]) \in Nat /\ Len(c.levels[l]) >= 1
      /\ (c.transport = "awg" => Len(c.levels[l]) = 1)
  BY <1>3, ChainShape DEF l
<1>6. IsInjective(c.levels[l])
  <2>1. l \in DOMAIN c.levels
    BY <1>3 DEF l
  <2>2. \A x, y \in DOMAIN c.levels[l] : c.levels[l][x] = c.levels[l][y] => x = y
    <3>1. \A i, k \in DOMAIN c.levels : \A x \in DOMAIN c.levels[i], y \in DOMAIN c.levels[k] :
              c.levels[i][x] = c.levels[k][y] => i = k /\ x = y
      BY ChainShape
    <3> QED BY <2>1, <3>1, Zenon
  <2> QED BY <2>2, Zenon DEF IsInjective
<1>7. \A m \in ToSet(c.levels[l]) : m \in ChainNodes(c) /\ LevelIndexOf(c, m) = l
  BY <1>3, LevelIs DEF l
<1> QED BY <1>3, <1>4, <1>5, <1>6, <1>7 DEF l

LEMMA NodeIndexOf ==
    ASSUME NEW c \in AllChains, NEW n \in ChainNodes(c)
    PROVE  NodeIndex(c, n) \in 1..Len(AllNodes(c)) /\ AllNodes(c)[NodeIndex(c, n)] = n
<1>1. \E x \in DOMAIN AllNodes(c) : AllNodes(c)[x] = n
  BY DEF ChainNodes, ToSet
<1> QED BY <1>1, NodesOfChain DEF NodeIndex

LEMMA NodeIndexIs ==
    ASSUME NEW c \in AllChains, NEW x \in 1..Len(AllNodes(c))
    PROVE  NodeIndex(c, AllNodes(c)[x]) = x /\ AllNodes(c)[x] \in ChainNodes(c) /\ AllNodes(c)[x] \in Nodes
<1>1. IsInjective(AllNodes(c)) /\ x \in DOMAIN AllNodes(c) /\ ChainNodes(c) \subseteq Nodes
  BY NodesOfChain
<1>2. AllNodes(c)[x] \in ChainNodes(c)
  BY <1>1 DEF ChainNodes, ToSet
<1>3. \A y \in DOMAIN AllNodes(c) : AllNodes(c)[y] = AllNodes(c)[x] => y = x
  BY <1>1, Zenon DEF IsInjective
<1> QED BY <1>1, <1>2, <1>3 DEF NodeIndex

\* The node after one that is not on the last level is another one.
LEMMA NotLast ==
    ASSUME NEW c \in AllChains, NEW n \in ChainNodes(c), HasOutbound(c, n)
    PROVE  NodeIndex(c, n) + 1 \in 1..Len(AllNodes(c)) /\ AllNodes(c)[NodeIndex(c, n) + 1] # n
<1>1. PICK p \in Seq(Nodes) :
         /\ AllNodes(c) = p \o c.levels[Len(c.levels)]
         /\ \A m : m \in ToSet(p) <=> \E l \in DOMAIN c.levels : l < Len(c.levels) /\ m \in ToSet(c.levels[l])
  BY NodesOfChain, Zenon
<1>2. /\ LevelIndexOf(c, n) \in DOMAIN c.levels /\ n \in ToSet(c.levels[LevelIndexOf(c, n)])
      /\ LevelIndexOf(c, n) < Len(c.levels)
  BY LevelOf DEF HasOutbound
<1>3. n \in ToSet(p)
  BY <1>1, <1>2, Zenon
<1>4. Len(c.levels) \in DOMAIN c.levels
  BY ChainShape
<1>5. c.levels[Len(c.levels)] \in Seq(Nodes) /\ Len(c.levels[Len(c.levels)]) >= 1
  BY <1>4, ChainShape
<1>6. Len(AllNodes(c)) = Len(p) + Len(c.levels[Len(c.levels)])
  BY <1>1, <1>5, ConcatLen
<1>7. PICK x \in 1..Len(p) : n = p[x]
  BY <1>3 DEF ToSet
<1>8. x + 1 \in 1..Len(AllNodes(c)) /\ x \in 1..Len(AllNodes(c))
  BY <1>5, <1>6
<1>9. AllNodes(c)[x] = n
  BY <1>1, <1>5, <1>7
<1>10. NodeIndex(c, n) = x
  BY <1>8, <1>9, NodeIndexIs
<1>11. NodeIndex(c, AllNodes(c)[x + 1]) = x + 1
  BY <1>8, NodeIndexIs
<1> QED BY <1>8, <1>10, <1>11

\* With one node per level, a node's place in the chain is its level.
LEMMA SinglePlaces ==
    ASSUME NEW c \in AllChains, \A l \in DOMAIN c.levels : Len(c.levels[l]) = 1
    PROVE  /\ Len(AllNodes(c)) = Len(c.levels)
           /\ \A l \in DOMAIN c.levels : AllNodes(c)[l] = c.levels[l][1] /\ ToSet(c.levels[l]) = {c.levels[l][1]}
           /\ \A n \in ChainNodes(c) : NodeIndex(c, n) = LevelIndexOf(c, n) /\ n = c.levels[LevelIndexOf(c, n)][1]
<1>1. c.levels \in Seq(Seq(Nodes)) /\ DOMAIN c.levels = 1..Len(c.levels)
  BY ChainShape
<1>2. Len(AllNodes(c)) = Len(c.levels) /\ \A l \in DOMAIN c.levels : AllNodes(c)[l] = c.levels[l][1]
  BY <1>1, FlattenSingles DEF AllNodes
<1>3. ASSUME NEW l \in DOMAIN c.levels PROVE ToSet(c.levels[l]) = {c.levels[l][1]}
  <2>1. DOMAIN c.levels[l] = {1}
    <3>1. c.levels[l] \in Seq(Nodes) /\ Len(c.levels[l]) = 1
      BY ChainShape
    <3> QED BY <3>1
  <2> QED BY <2>1 DEF ToSet
<1>4. ASSUME NEW n \in ChainNodes(c)
      PROVE  NodeIndex(c, n) = LevelIndexOf(c, n) /\ n = c.levels[LevelIndexOf(c, n)][1]
  <2>1. LevelIndexOf(c, n) \in DOMAIN c.levels /\ n \in ToSet(c.levels[LevelIndexOf(c, n)])
    BY LevelOf
  <2>2. n = c.levels[LevelIndexOf(c, n)][1]
    BY <1>3, <2>1
  <2>3. NodeIndex(c, AllNodes(c)[LevelIndexOf(c, n)]) = LevelIndexOf(c, n)
    BY <1>1, <1>2, <2>1, NodeIndexIs
  <2> QED BY <1>2, <2>1, <2>2, <2>3
<1> QED BY <1>2, <1>3, <1>4

-----------------------------------------------------------------------------
(* What a role adds to the outbounds *)

HopTo(c, n, m) ==
    [tag |-> TransportOut(c, n, m), to |-> m, cred |-> LinkCred(c, n, m), members |-> {}]

LEMMA OutTags ==
    ASSUME NEW c, NEW n
    PROVE  /\ \A m : TransportOut(c, n, m)[1] = "out" /\ TransportOut(c, n, m)[2] = c.name
           /\ InterNodeOutboundTag(c, n)[1] \in {"out", "group"} /\ InterNodeOutboundTag(c, n)[2] = c.name
           /\ Len(NextNodes(c, n)) > 1 => InterNodeOutboundTag(c, n)[1] = "group"
<1>1. ASSUME NEW m PROVE TransportOut(c, n, m)[1] = "out" /\ TransportOut(c, n, m)[2] = c.name
  <2>1. <<"out", c.name, m>>[1] = "out" /\ <<"out", c.name, m>>[2] = c.name
    OBVIOUS
  <2>2. <<"out", c.name>>[1] = "out" /\ <<"out", c.name>>[2] = c.name
    OBVIOUS
  <2> QED BY <2>1, <2>2 DEF TransportOut
<1>2. <<"group", c.name, LevelIndexOf(c, n) + 1>>[1] = "group" /\ <<"group", c.name, LevelIndexOf(c, n) + 1>>[2] = c.name
  OBVIOUS
<1>3. CASE Len(NextNodes(c, n)) > 1
  BY <1>1, <1>2, <1>3 DEF InterNodeOutboundTag
<1>4. CASE ~(Len(NextNodes(c, n)) > 1)
  BY <1>1, <1>4 DEF InterNodeOutboundTag
<1> QED BY <1>1, <1>3, <1>4

LEMMA HopsOf ==
    ASSUME NEW c \in AllChains, NEW n \in ChainNodes(c)
    PROVE  /\ RoleHops(c, n) \in Seq(ToSet(RoleHops(c, n))) /\ Len(RoleHops(c, n)) \in Nat
           /\ ~HasOutbound(c, n) => RoleHops(c, n) = <<>>
           /\ \A o \in ToSet(RoleHops(c, n)) : \E m \in ToSet(NextNodes(c, n)) : HasOutbound(c, n) /\ o = HopTo(c, n, m)
           /\ Keyed(c) /\ HasOutbound(c, n) =>
                 /\ Len(RoleHops(c, n)) = Len(NextNodes(c, n))
                 /\ \A m \in ToSet(NextNodes(c, n)) : HopTo(c, n, m) \in ToSet(RoleHops(c, n))
<1>1. CASE ~HasOutbound(c, n)
  <2>1. RoleHops(c, n) = <<>>
    BY <1>1 DEF RoleHops
  <2>2. <<>> \in Seq(ToSet(<<>>)) /\ Len(<<>>) = 0
    OBVIOUS
  <2> QED BY <1>1, <2>1, <2>2, SmallSets
<1>2. CASE HasOutbound(c, n)
  <2> DEFINE S == {m \in Nodes : c.transport = "awg" \/ c.key[m].tr # 0}
             t == InOrder(NextNodes(c, n), S)
             h == [i \in DOMAIN t |-> HopTo(c, n, t[i])]
  <2>1. RoleHops(c, n) = h
    BY <1>2 DEF RoleHops, HopTo
  <2>2. NextNodes(c, n) \in Seq(Nodes) /\ \A m \in ToSet(NextNodes(c, n)) : m \in ChainNodes(c)
    BY <1>2, NextOf
  <2>3. /\ t \in Seq(Nodes) /\ ToSet(t) = ToSet(NextNodes(c, n)) \cap S
        /\ (\A x \in DOMAIN NextNodes(c, n) : NextNodes(c, n)[x] \in S) => t = NextNodes(c, n)
    BY <2>2, InOrderIs
  <2>4. Keyed(c) => \A x \in DOMAIN NextNodes(c, n) : NextNodes(c, n)[x] \in S
    BY <2>2 DEF Keyed, ToSet
  <2> HIDE DEF t, S
  <2>5. DOMAIN h = 1..Len(t) /\ Len(t) \in Nat /\ \A i \in 1..Len(t) : h[i] = HopTo(c, n, t[i])
    BY <2>3
  <2>6. h \in Seq(ToSet(h)) /\ Len(h) = Len(t)
    <3>1. h \in [1..Len(t) -> ToSet(h)]
      BY <2>5 DEF ToSet
    <3>2. h \in Seq(ToSet(h))
      BY <2>5, <3>1
    <3> QED BY <2>5, <3>2
  <2> HIDE DEF h
  <2>7. ASSUME NEW o \in ToSet(h) PROVE \E m \in ToSet(NextNodes(c, n)) : HasOutbound(c, n) /\ o = HopTo(c, n, m)
    <3>1. PICK i \in 1..Len(t) : o = HopTo(c, n, t[i])
      BY <2>5 DEF ToSet
    <3>2. t[i] \in ToSet(t)
      BY <2>3 DEF ToSet
    <3> QED BY <1>2, <2>3, <3>1, <3>2
  <2>8. ASSUME Keyed(c) PROVE Len(h) = Len(NextNodes(c, n)) /\ \A m \in ToSet(NextNodes(c, n)) : HopTo(c, n, m) \in ToSet(h)
    <3>1. t = NextNodes(c, n)
      BY <2>3, <2>4, <2>8
    <3>2. ASSUME NEW m \in ToSet(t) PROVE HopTo(c, n, m) \in ToSet(h)
      <4>1. PICK i \in 1..Len(t) : m = t[i]
        BY <2>3 DEF ToSet
      <4>2. h[i] \in ToSet(h)
        BY <2>5, <4>1 DEF ToSet
      <4> QED BY <2>5, <4>1, <4>2
    <3> QED BY <2>6, <3>1, <3>2
  <2> QED BY <1>2, <2>1, <2>5, <2>6, <2>7, <2>8
<1> QED BY <1>1, <1>2

PartOuts(c, n) == ToSet(RoleOutbounds(c, n)) \cup RoleEndpoints(c, n)

\* An outbound of another chain.
Foreign(o, c) == o.tag[1] \in {"out", "group"} /\ o.tag[2] # c.name

GroupOut(c, n) ==
    [tag |-> InterNodeOutboundTag(c, n), to |-> NoNode, cred |-> <<>>, members |-> {h.tag : h \in ToSet(RoleHops(c, n))}]

LEMMA PartOf ==
    ASSUME NEW c \in AllChains, NEW n \in ChainNodes(c)
    PROVE  /\ RoleOutbounds(c, n) \in Seq(PartOuts(c, n))
           /\ PartOuts(c, n) =
                 ToSet(RoleHops(c, n)) \cup IF c.transport # "awg" /\ Len(RoleHops(c, n)) > 1 THEN {GroupOut(c, n)} ELSE {}
           /\ c.transport # "awg" => ToSet(RoleOutbounds(c, n)) = PartOuts(c, n)
           /\ c.transport = "awg" => RoleOutbounds(c, n) = <<>>
           /\ \A o \in PartOuts(c, n) : o.tag[1] \in {"out", "group"} /\ o.tag[2] = c.name
<1> DEFINE h == RoleHops(c, n)
           g == RoleGroup(c, n)
           G == IF c.transport # "awg" /\ Len(RoleHops(c, n)) > 1 THEN {GroupOut(c, n)} ELSE {}
<1>1. h \in Seq(ToSet(h)) /\ Len(h) \in Nat
  BY HopsOf
<1>2. g = IF Len(h) > 1 THEN << GroupOut(c, n) >> ELSE <<>>
  <2>1. Len(h) <= 1 <=> ~(Len(h) > 1)
    BY <1>1
  <2> QED BY <2>1 DEF RoleGroup, GroupOut
<1>3. CASE c.transport = "awg"
  <2>1. RoleOutbounds(c, n) = <<>> /\ RoleEndpoints(c, n) = ToSet(h) /\ G = {}
    BY <1>3 DEF RoleOutbounds, RoleEndpoints
  <2>2. PartOuts(c, n) = ToSet(h) \cup G
    BY <2>1, SmallSets DEF PartOuts
  <2>3. <<>> \in Seq(PartOuts(c, n))
    OBVIOUS
  <2>4. \A o \in PartOuts(c, n) : o.tag[1] \in {"out", "group"} /\ o.tag[2] = c.name
    BY <2>1, <2>2, HopsOf, OutTags DEF HopTo
  <2> QED BY <1>3, <2>1, <2>2, <2>3, <2>4
<1>4. CASE c.transport # "awg"
  <2>1. RoleOutbounds(c, n) = h \o g /\ RoleEndpoints(c, n) = {}
    BY <1>4 DEF RoleOutbounds, RoleEndpoints
  <2>2. ToSet(g) = G /\ g \in Seq(G)
    <3>1. CASE Len(h) > 1
      <4>1. g = << GroupOut(c, n) >> /\ G = {GroupOut(c, n)}
        BY <1>2, <1>4, <3>1
      <4> HIDE DEF g, G
      <4>2. << GroupOut(c, n) >> \in Seq({GroupOut(c, n)}) /\ ToSet(<< GroupOut(c, n) >>) = {GroupOut(c, n)}
        BY SmallSets
      <4> QED BY <4>1, <4>2
    <3>2. CASE ~(Len(h) > 1)
      <4>1. g = <<>> /\ G = {}
        BY <1>2, <1>4, <3>2
      <4> QED BY <4>1, SmallSets
    <3> QED BY <3>1, <3>2
  <2> HIDE DEF h, g, G
  <2>3. h \in Seq(ToSet(h) \cup G) /\ g \in Seq(ToSet(h) \cup G)
    BY <1>1, <2>2
  <2>4. ToSet(h \o g) = ToSet(h) \cup ToSet(g) /\ h \o g \in Seq(ToSet(h) \cup G)
    BY <2>3, ConcatSet
  <2>5. PartOuts(c, n) = ToSet(h) \cup G /\ PartOuts(c, n) = ToSet(RoleOutbounds(c, n))
    BY <2>1, <2>2, <2>4 DEF PartOuts
  <2>6. ASSUME NEW o \in PartOuts(c, n) PROVE o.tag[1] \in {"out", "group"} /\ o.tag[2] = c.name
    <3>1. CASE o \in ToSet(h)
      BY <3>1, HopsOf, OutTags DEF HopTo, h
    <3>2. CASE o \in G
      <4>1. o = GroupOut(c, n)
        BY <3>2 DEF G
      <4>2. o.tag = InterNodeOutboundTag(c, n)
        BY <4>1 DEF GroupOut
      <4> QED BY <4>2, OutTags
    <3> QED BY <2>5, <3>1, <3>2
  <2>7. RoleOutbounds(c, n) \in Seq(PartOuts(c, n))
    BY <2>1, <2>4, <2>5
  <2> QED BY <1>4, <2>5, <2>6, <2>7 DEF h, G
<1> QED BY <1>3, <1>4

\* What a config has of outbounds for chain c at node n; all others belong to other chains.
OutsFor(cfg, c, n) ==
    /\ DirectOut \in Outbounds(cfg) /\ PartOuts(c, n) \subseteq Outbounds(cfg)
    /\ \A o \in Outbounds(cfg) : o = DirectOut \/ o \in PartOuts(c, n) \/ Foreign(o, c)

LEMMA OneOrMore ==
    ~(1 > 1) /\ \A k \in Nat : k >= 1 /\ ~(k > 1) => k = 1
OBVIOUS

LEMMA HopsDiffer ==
    ASSUME NEW c \in AllChains, NEW n \in ChainNodes(c), HasOutbound(c, n),
           NEW m \in ToSet(NextNodes(c, n)), NEW k \in ToSet(NextNodes(c, n)), TransportOut(c, n, m) = TransportOut(c, n, k)
    PROVE  m = k
<1>1. CASE Len(NextNodes(c, n)) > 1 \/ c.transport = "awg"
  <2>1. <<"out", c.name, m>> = <<"out", c.name, k>>
    BY <1>1 DEF TransportOut
  <2>2. <<"out", c.name, m>>[3] = m /\ <<"out", c.name, k>>[3] = k
    OBVIOUS
  <2> QED BY <2>1, <2>2
<1>2. CASE ~(Len(NextNodes(c, n)) > 1)
  <2>1. DOMAIN NextNodes(c, n) = {1}
    <3>1. NextNodes(c, n) \in Seq(Nodes) /\ Len(NextNodes(c, n)) \in Nat /\ Len(NextNodes(c, n)) >= 1
      BY NextOf
    <3>2. Len(NextNodes(c, n)) = 1
      BY <1>2, <3>1, OneOrMore, Zenon
    <3> QED BY <3>1, <3>2
  <2> QED BY <2>1 DEF ToSet
<1> QED BY <1>1, <1>2

\* The tags of a role are distinct.
LEMMA PartDistinct ==
    ASSUME NEW c \in AllChains, NEW n \in ChainNodes(c), Keyed(c),
           NEW o \in PartOuts(c, n), NEW x \in PartOuts(c, n), o.tag = x.tag
    PROVE  o = x
<1> DEFINE H == ToSet(RoleHops(c, n))
<1>1. \A y \in PartOuts(c, n) : y \in H \/ (y = GroupOut(c, n) /\ Len(RoleHops(c, n)) > 1)
  BY PartOf
<1>2. ASSUME NEW y \in H
      PROVE  \E m \in ToSet(NextNodes(c, n)) : HasOutbound(c, n) /\ y = HopTo(c, n, m) /\ y.tag = TransportOut(c, n, m)
  BY HopsOf DEF HopTo
<1>3. \A y \in H : y.tag[1] = "out"
  BY <1>2, OutTags
<1>4. Len(RoleHops(c, n)) > 1 => GroupOut(c, n).tag[1] = "group"
  <2>1. ~HasOutbound(c, n) => Len(RoleHops(c, n)) = 0
    BY HopsOf
  <2>2. HasOutbound(c, n) => Len(RoleHops(c, n)) = Len(NextNodes(c, n))
    BY HopsOf
  <2>3. GroupOut(c, n).tag = InterNodeOutboundTag(c, n)
    BY DEF GroupOut
  <2> QED BY <2>1, <2>2, <2>3, OutTags
<1>5. CASE o \in H /\ x \in H
  <2>1. PICK m \in ToSet(NextNodes(c, n)) : HasOutbound(c, n) /\ o = HopTo(c, n, m) /\ o.tag = TransportOut(c, n, m)
    BY <1>2, <1>5
  <2>2. PICK k \in ToSet(NextNodes(c, n)) : x = HopTo(c, n, k) /\ x.tag = TransportOut(c, n, k)
    BY <1>2, <1>5
  <2>3. m = k
    BY <2>1, <2>2, HopsDiffer
  <2> QED BY <2>1, <2>2, <2>3
<1> HIDE DEF H
<1>6. CASE ~(o \in H /\ x \in H)
  BY <1>1, <1>3, <1>4, <1>6
<1> QED BY <1>5, <1>6

\* A tag of the role names one outbound of the config.
LEMMA Named ==
    ASSUME NEW c \in AllChains, NEW n \in ChainNodes(c), Keyed(c), NEW cfg, OutsFor(cfg, c, n),
           NEW o \in PartOuts(c, n) \cup {DirectOut}, NEW x \in Outbounds(cfg), x.tag = o.tag
    PROVE  x = o
<1>1. \A y \in PartOuts(c, n) : y.tag[1] \in {"out", "group"} /\ y.tag[2] = c.name
  BY PartOf
<1>2. DirectOut.tag[1] = "direct"
  BY DEF DirectOut, Direct
<1>3. x = DirectOut \/ x \in PartOuts(c, n) \/ Foreign(x, c)
  BY DEF OutsFor
<1>4. CASE o = DirectOut
  BY <1>1, <1>2, <1>3, <1>4 DEF Foreign
<1>5. CASE o \in PartOuts(c, n)
  <2>1. x \in PartOuts(c, n)
    BY <1>1, <1>2, <1>3, <1>5 DEF Foreign
  <2> QED BY <1>5, <2>1, PartDistinct
<1> QED BY <1>4, <1>5

Pick(cfg, tag) == CHOOSE o \in Outbounds(cfg) : o.tag = tag

\* Where a rule of the role leads.
LEMMA LeadsTo ==
    ASSUME NEW c \in AllChains, NEW n \in ChainNodes(c), Keyed(c), NEW cfg, OutsFor(cfg, c, n)
    PROVE  /\ Targets(cfg, Pick(cfg, Direct)) = {DirectOut}
           /\ HasOutbound(c, n) => Targets(cfg, Pick(cfg, InterNodeOutboundTag(c, n))) = ToSet(RoleHops(c, n))
           /\ \A o \in PartOuts(c, n) : /\ Targets(cfg, Pick(cfg, o.tag)) # {}
                                        /\ Targets(cfg, Pick(cfg, o.tag)) \subseteq ToSet(RoleHops(c, n))
<1> DEFINE H == ToSet(RoleHops(c, n))
<1>1. ASSUME NEW o \in PartOuts(c, n) \cup {DirectOut} PROVE Pick(cfg, o.tag) = o
  <2>1. o \in Outbounds(cfg)
    BY DEF OutsFor
  <2>2. \A x \in Outbounds(cfg) : x.tag = o.tag => x = o
    BY Named
  <2> QED BY <2>1, <2>2 DEF Pick
<1>2. Targets(cfg, Pick(cfg, Direct)) = {DirectOut}
  <2>1. DirectOut.tag = Direct /\ DirectOut.members = {}
    BY DEF DirectOut
  <2> QED BY <1>1, <2>1 DEF Targets
<1>3. ASSUME NEW o \in H PROVE o.members = {} /\ Targets(cfg, o) = {o} /\ o \in PartOuts(c, n)
  <2>1. o.members = {}
    BY HopsOf DEF HopTo
  <2>2. o \in PartOuts(c, n)
    BY PartOf
  <2> QED BY <2>1, <2>2 DEF Targets
<1>4. ASSUME Len(RoleHops(c, n)) > 1 PROVE Targets(cfg, GroupOut(c, n)) = H /\ H # {}
  <2>1. GroupOut(c, n).members = {h.tag : h \in H}
    BY DEF GroupOut
  <2>2. H # {}
    <3>1. RoleHops(c, n) \in Seq(H)
      BY HopsOf
    <3>2. 1 \in DOMAIN RoleHops(c, n)
      BY <1>4, <3>1
    <3> QED BY <3>2 DEF ToSet
  <2> HIDE DEF H
  <2>3. GroupOut(c, n).members # {}
    BY <2>1, <2>2
  <2>4. Targets(cfg, GroupOut(c, n)) = {m \in Outbounds(cfg) : \E h \in H : m.tag = h.tag}
    BY <2>1, <2>3 DEF Targets
  <2>5. ASSUME NEW m \in Outbounds(cfg), NEW h \in H, m.tag = h.tag PROVE m = h
    BY <1>3, <2>5, Named
  <2>6. \A h \in H : h \in Outbounds(cfg)
    BY <1>3 DEF OutsFor
  <2> QED BY <2>2, <2>4, <2>5, <2>6
<1>5. ASSUME NEW o \in PartOuts(c, n)
      PROVE  Targets(cfg, Pick(cfg, o.tag)) # {} /\ Targets(cfg, Pick(cfg, o.tag)) \subseteq H
  <2>1. Pick(cfg, o.tag) = o
    BY <1>1
  <2>2. CASE o \in H
    BY <1>3, <2>1, <2>2
  <2>3. CASE o \notin H
    <3>1. o = GroupOut(c, n) /\ Len(RoleHops(c, n)) > 1
      BY <2>3, PartOf
    <3> QED BY <1>4, <2>1, <3>1
  <2> QED BY <2>2, <2>3
<1>6. ASSUME HasOutbound(c, n) PROVE Targets(cfg, Pick(cfg, InterNodeOutboundTag(c, n))) = H
  <2>0. Len(RoleHops(c, n)) = Len(NextNodes(c, n)) /\ \A m \in ToSet(NextNodes(c, n)) : HopTo(c, n, m) \in H
    BY <1>6, HopsOf
  <2>1. CASE Len(NextNodes(c, n)) > 1
    <3>0. c.transport # "awg"
      <4>1. c.transport = "awg" => Len(NextNodes(c, n)) = 1
        BY <1>6, NextOf
      <4>2. Len(NextNodes(c, n)) # 1
        BY <2>1, OneOrMore, Zenon
      <4> QED BY <4>1, <4>2
    <3>1. GroupOut(c, n) \in PartOuts(c, n) /\ Len(RoleHops(c, n)) > 1
      BY <2>0, <2>1, <3>0, PartOf
    <3>2. GroupOut(c, n).tag = InterNodeOutboundTag(c, n)
      BY DEF GroupOut
    <3> QED BY <1>1, <1>4, <3>1, <3>2
  <2>2. CASE ~(Len(NextNodes(c, n)) > 1)
    <3>1. DOMAIN NextNodes(c, n) = {1}
      <4>1. NextNodes(c, n) \in Seq(Nodes) /\ Len(NextNodes(c, n)) \in Nat /\ Len(NextNodes(c, n)) >= 1
        BY <1>6, NextOf
      <4>2. Len(NextNodes(c, n)) = 1
        BY <2>2, <4>1, OneOrMore, Zenon
      <4> QED BY <4>1, <4>2
    <3> DEFINE m == NextNodes(c, n)[1]
    <3>2. ToSet(NextNodes(c, n)) = {m}
      BY <3>1 DEF ToSet
    <3>3. H = {HopTo(c, n, m)}
      <4>1. HopTo(c, n, m) \in H
        BY <2>0, <3>2
      <4>2. \A o \in H : o = HopTo(c, n, m)
        BY <3>2, HopsOf
      <4> QED BY <4>1, <4>2
    <3>4. HopTo(c, n, m).tag = InterNodeOutboundTag(c, n)
      BY <2>2 DEF HopTo, InterNodeOutboundTag
    <3> HIDE DEF m, H
    <3> QED BY <1>1, <1>3, <3>3, <3>4
  <2> QED BY <2>1, <2>2
<1> QED BY <1>2, <1>5, <1>6

-----------------------------------------------------------------------------
(* The outbounds of a merged config *)

LEMMA FlattenFamily ==
    ASSUME NEW U, NEW cs \in Seq(U), NEW T, NEW p, p = [i \in DOMAIN cs |-> p[i]], \A i \in DOMAIN cs : p[i] \in Seq(T)
    PROVE  FlattenSeq(p) \in Seq(T) /\ \A y : y \in ToSet(FlattenSeq(p)) <=> \E i \in DOMAIN cs : y \in ToSet(p[i])
<1>1. DOMAIN cs = 1..Len(cs) /\ Len(cs) \in Nat /\ DOMAIN p = DOMAIN cs
  OBVIOUS
<1>2. p \in [1..Len(cs) -> Seq(T)]
  BY <1>1
<1>3. p \in Seq(Seq(T))
  BY <1>1, <1>2
<1> QED BY <1>1, <1>3, FlattenElements

LEMMA RoleOutboundsOf ==
    ASSUME NEW n, NEW cs, ChainList(cs, n)
    PROVE  LET F == FlattenSeq([i \in DOMAIN cs |-> RoleOutbounds(cs[i], n)])
           IN  /\ F \in Seq(UNION {PartOuts(d, n) : d \in ToSet(cs)})
               /\ \A y : y \in ToSet(F) <=> \E d \in ToSet(cs) : y \in ToSet(RoleOutbounds(d, n))
<1> DEFINE T == UNION {PartOuts(d, n) : d \in ToSet(cs)}
           p == [i \in DOMAIN cs |-> RoleOutbounds(cs[i], n)]
<1>1. cs \in Seq(AllChains)
  BY DEF ChainList
<1>2. \A i \in DOMAIN cs : p[i] = RoleOutbounds(cs[i], n) /\ cs[i] \in ToSet(cs) /\ cs[i] \in AllChains
  BY <1>1 DEF ToSet
<1>3. ASSUME NEW i \in DOMAIN cs PROVE p[i] \in Seq(T)
  <2>1. cs[i] \in ToSet(cs) /\ n \in ChainNodes(cs[i]) /\ cs[i] \in AllChains
    BY <1>2 DEF ChainList
  <2>2. RoleOutbounds(cs[i], n) \in Seq(PartOuts(cs[i], n))
    BY <2>1, PartOf
  <2>3. PartOuts(cs[i], n) \subseteq T
    BY <2>1
  <2> HIDE DEF T
  <2>4. RoleOutbounds(cs[i], n) \in Seq(T)
    BY <2>2, <2>3
  <2> QED BY <2>4
<1>4. p = [i \in DOMAIN cs |-> p[i]]
  OBVIOUS
<1> HIDE DEF p, T
<1>5. FlattenSeq(p) \in Seq(T) /\ \A y : y \in ToSet(FlattenSeq(p)) <=> \E i \in DOMAIN cs : y \in ToSet(p[i])
  BY <1>1, <1>3, <1>4, FlattenFamily
<1>6. ASSUME NEW y PROVE y \in ToSet(FlattenSeq(p)) <=> \E d \in ToSet(cs) : y \in ToSet(RoleOutbounds(d, n))
  <2>1. ASSUME NEW i \in DOMAIN cs, y \in ToSet(p[i]) PROVE \E d \in ToSet(cs) : y \in ToSet(RoleOutbounds(d, n))
    BY <1>2, <2>1
  <2>2. ASSUME NEW d \in ToSet(cs), y \in ToSet(RoleOutbounds(d, n)) PROVE \E i \in DOMAIN cs : y \in ToSet(p[i])
    <3>1. PICK i \in DOMAIN cs : d = cs[i]
      BY DEF ToSet
    <3> QED BY <1>2, <2>2, <3>1
  <2> QED BY <1>5, <2>1, <2>2
<1> QED BY <1>5, <1>6 DEF p, T

LEMMA MergedOuts ==
    ASSUME NEW n, NEW cs, ChainList(cs, n), NEW c \in ToSet(cs), NEW ps, NEW mode
    PROVE  OutsFor(MergedNodeConfig(cs, n, ps, mode), c, n)
<1> DEFINE cfg == MergedNodeConfig(cs, n, ps, mode)
           F == FlattenSeq([i \in DOMAIN cs |-> RoleOutbounds(cs[i], n)])
           T == UNION {PartOuts(d, n) : d \in ToSet(cs)}
<1>1. cfg.outs = F \o <<DirectOut>> /\ cfg.eps = UNION {RoleEndpoints(d, n) : d \in ToSet(cs)}
  BY DEF MergedNodeConfig
<1>2. F \in Seq(T) /\ \A y : y \in ToSet(F) <=> \E d \in ToSet(cs) : y \in ToSet(RoleOutbounds(d, n))
  BY RoleOutboundsOf
<1>3. \A d \in ToSet(cs) : d \in AllChains /\ n \in ChainNodes(d) /\ (d # c => d.name # c.name)
  BY DEF ChainList, ToSet
<1> HIDE DEF F, cfg
<1>4. ToSet(F \o <<DirectOut>>) = ToSet(F) \cup {DirectOut}
  <2> DEFINE P == T \cup {DirectOut}
             e == <<DirectOut>>
  <2> HIDE DEF T
  <2>1. F \in Seq(P) /\ e \in Seq(P)
    BY <1>2
  <2> HIDE DEF P, e
  <2>2. ToSet(F \o e) = ToSet(F) \cup ToSet(e)
    BY <2>1, ConcatSet
  <2> USE DEF e
  <2> QED BY <2>2, SmallSets
<1>5. Outbounds(cfg) = T \cup {DirectOut}
  <2>1. \A y : y \in ToSet(F) \/ y \in cfg.eps <=> y \in T
    BY <1>1, <1>2 DEF PartOuts
  <2> QED BY <1>1, <1>4, <2>1 DEF Outbounds
<1>6. PartOuts(c, n) \subseteq Outbounds(cfg)
  BY <1>5
<1>7. ASSUME NEW o \in Outbounds(cfg), o # DirectOut, o \notin PartOuts(c, n) PROVE Foreign(o, c)
  <2>1. PICK d \in ToSet(cs) : o \in PartOuts(d, n)
    BY <1>5, <1>7
  <2>2. d # c
    BY <1>7, <2>1
  <2>3. d \in AllChains /\ n \in ChainNodes(d) /\ d.name # c.name
    BY <1>3, <2>2
  <2>4. o.tag[1] \in {"out", "group"} /\ o.tag[2] = d.name
    BY <2>1, <2>3, PartOf
  <2> QED BY <2>3, <2>4 DEF Foreign
<1>8. OutsFor(cfg, c, n)
  BY <1>5, <1>6, <1>7 DEF OutsFor
<1> QED BY <1>8 DEF cfg

-----------------------------------------------------------------------------
(* The rules of a merged config *)

PinRule(c, n, us, out) ==
    [in |-> PinInbound(c, n), by |-> IF IsAWG(c) THEN "source" ELSE "auth", users |-> us, out |-> out]

Below(c, n) ==
    IF ~HasOutbound(c, n) THEN {}
    ELSE IF IsAWG(c) THEN {m \in ChainNodes(c) : NodeIndex(c, m) > NodeIndex(c, n)}
    ELSE {AllNodes(c)[NodeIndex(c, n) + 1]}

PinnedTo(ps, c, S) == {u \in Users : ps[u][c.name] \in S}

LEMMA PinRulesOf ==
    ASSUME NEW c, NEW n, NEW ps
    PROVE  /\ PinRules(c, n, ps) \in Seq(ToSet(PinRules(c, n, ps)))
           /\ \A r : r \in ToSet(PinRules(c, n, ps)) <=>
                 \/ r = PinRule(c, n, PinnedTo(ps, c, {n}), Direct) /\ PinnedTo(ps, c, {n}) # {}
                 \/ r = PinRule(c, n, PinnedTo(ps, c, Below(c, n)), InterNodeOutboundTag(c, n)) /\ PinnedTo(ps, c, Below(c, n)) # {}
<1> DEFINE A == PinnedTo(ps, c, {n})
           B == PinnedTo(ps, c, Below(c, n))
           ra == PinRule(c, n, A, Direct)
           rb == PinRule(c, n, B, InterNodeOutboundTag(c, n))
           a == IF A = {} THEN <<>> ELSE << ra >>
           b == IF B = {} THEN <<>> ELSE << rb >>
           T == {ra, rb}
<1>1. PinRules(c, n, ps) = a \o b
  <2>1. A = {u \in Users : ps[u][c.name] = n} /\ B = {u \in Users : ps[u][c.name] \in Below(c, n)}
    BY DEF PinnedTo
  <2> HIDE DEF A, B
  <2> QED BY <2>1, Zenon DEF PinRules, PinRule, Below
<1> HIDE DEF ra, rb, A, B
<1>2. /\ a \in Seq(T) /\ \A r : r \in ToSet(a) <=> r = ra /\ A # {}
      /\ b \in Seq(T) /\ \A r : r \in ToSet(b) <=> r = rb /\ B # {}
  <2>1. <<>> \in Seq(T) /\ << ra >> \in Seq(T) /\ << rb >> \in Seq(T)
    OBVIOUS
  <2>2. ToSet(<<>>) = {} /\ ToSet(<< ra >>) = {ra} /\ ToSet(<< rb >>) = {rb}
    BY SmallSets, Zenon
  <2> HIDE DEF T
  <2> QED BY <2>1, <2>2
<1> HIDE DEF a, b, T
<1>3. a \o b \in Seq(T) /\ ToSet(a \o b) = ToSet(a) \cup ToSet(b)
  BY <1>2, ConcatSet
<1> DEFINE s == a \o b
<1>4. s \in Seq(ToSet(s))
  <2> HIDE DEF s
  <2>1. s \in Seq(T)
    BY <1>3 DEF s
  <2>2. s \in [1..Len(s) -> ToSet(s)] /\ Len(s) \in Nat
    BY <2>1 DEF ToSet
  <2> QED BY <2>2
<1>5. \A r : r \in ToSet(s) <=> (r = ra /\ A # {}) \/ (r = rb /\ B # {})
  BY <1>2, <1>3
<1> QED BY <1>1, <1>4, <1>5, Zenon DEF A, B, ra, rb

LEMMA BelowOf ==
    ASSUME NEW c \in AllChains, NEW n \in ChainNodes(c)
    PROVE  n \notin Below(c, n) /\ (Below(c, n) # {} => HasOutbound(c, n))
<1>1. CASE ~HasOutbound(c, n)
  BY <1>1 DEF Below
<1>2. CASE HasOutbound(c, n) /\ IsAWG(c)
  <2>1. NodeIndex(c, n) \in 1..Len(AllNodes(c)) /\ Len(AllNodes(c)) \in Nat
    BY NodeIndexOf, NodesOfChain
  <2>2. ~(NodeIndex(c, n) > NodeIndex(c, n))
    BY <2>1
  <2> QED BY <1>2, <2>2 DEF Below
<1>3. CASE HasOutbound(c, n) /\ ~IsAWG(c)
  BY <1>3, NotLast DEF Below
<1> QED BY <1>1, <1>2, <1>3

LEMMA InTags ==
    ASSUME NEW c, NEW d
    PROVE  /\ UserIn(c)[1] = "user-in" /\ TransportIn(c)[1] = "transport-in" /\ TunIn[1] = "tun-in"
           /\ TunIn # UserIn(c) /\ TunIn # TransportIn(c) /\ UserIn(c) # TransportIn(d) /\ TransportIn(c) # UserIn(d)
           /\ UserIn(c) = UserIn(d) => c.name = d.name
           /\ TransportIn(c) = TransportIn(d) => c.name = d.name
<1>1. \A x : /\ UserIn(x)[1] = "user-in" /\ TransportIn(x)[1] = "transport-in" /\ TunIn[1] = "tun-in"
             /\ UserIn(x)[2] = x.name /\ TransportIn(x)[2] = x.name
  BY DEF UserIn, TransportIn, TunIn
<1> QED BY <1>1

\* In a list of chains the inbound of a role belongs to one chain.
LEMMA OneInbound ==
    ASSUME NEW n, NEW cs, ChainList(cs, n), NEW c \in ToSet(cs), NEW d \in ToSet(cs), PinInbound(c, n) = PinInbound(d, n)
    PROVE  c = d
<1>1. c \in AllChains /\ d \in AllChains /\ n \in ChainNodes(c) /\ n \in ChainNodes(d) /\ (c.name = d.name => c = d)
  BY DEF ChainList, ToSet
<1>2. CASE PinInbound(c, n) # TunIn
  <2>1. c.name = d.name
    BY <1>2, InTags DEF PinInbound
  <2> QED BY <1>1, <2>1
<1>3. CASE PinInbound(c, n) = TunIn
  <2>1. IsAWG(c) /\ IsAWG(d) /\ IsEntry(c, n) /\ IsEntry(d, n)
    BY <1>3, InTags DEF PinInbound
  <2>2. n \in ToSet(c.levels[1]) /\ n \in ToSet(d.levels[1])
    BY <1>1, <2>1, LevelOf DEF IsEntry
  <2>3. c.name = d.name
    BY <1>1, <2>1, <2>2, OneAWGEntry
  <2> QED BY <1>1, <2>3
<1> QED BY <1>2, <1>3

-----------------------------------------------------------------------------
(* The first rule that matches *)

Decides(s, in, u, c, kept, t) ==
    \E i \in DOMAIN s : /\ Matches(s[i], in, u, c, kept) /\ s[i].out = t
                        /\ \A k \in DOMAIN s : k < i => ~Matches(s[k], in, u, c, kept)

LEMMA DecidesAgreed ==
    ASSUME NEW T, NEW s \in Seq(T), NEW in, NEW u, NEW c, NEW kept, NEW t, \E r \in ToSet(s) : Matches(r, in, u, c, kept),
           \A r \in ToSet(s) : Matches(r, in, u, c, kept) => r.out = t
    PROVE  Decides(s, in, u, c, kept, t)
<1> DEFINE I == {i \in DOMAIN s : Matches(s[i], in, u, c, kept)}
<1>1. I \subseteq Nat /\ I # {} /\ \A i \in I : s[i] \in ToSet(s)
  <2>1. DOMAIN s \subseteq Nat
    OBVIOUS
  <2> QED BY <2>1 DEF ToSet
<1>2. PICK i \in I : \A k \in I : i <= k
  <2> HIDE DEF I
  <2> QED BY <1>1, Least
<1>3. i \in DOMAIN s /\ Matches(s[i], in, u, c, kept) /\ s[i].out = t
  BY <1>1, <1>2
<1>4. ASSUME NEW k \in DOMAIN s, k < i PROVE ~Matches(s[k], in, u, c, kept)
  <2>1. k \in Nat /\ i \in Nat
    BY <1>1
  <2>2. ~(i <= k)
    BY <1>4, <2>1
  <2> QED BY <1>2, <2>2
<1> QED BY <1>3, <1>4 DEF Decides

LEMMA DecidesConcat ==
    ASSUME NEW T, NEW a \in Seq(T), NEW b \in Seq(T), NEW in, NEW u, NEW c, NEW kept, NEW t, Decides(a, in, u, c, kept, t)
    PROVE  Decides(a \o b, in, u, c, kept, t)
<1>1. PICK i \in DOMAIN a : /\ Matches(a[i], in, u, c, kept) /\ a[i].out = t
                            /\ \A k \in DOMAIN a : k < i => ~Matches(a[k], in, u, c, kept)
  BY DEF Decides
<1>2. DOMAIN a = 1..Len(a) /\ Len(a) \in Nat /\ DOMAIN (a \o b) = 1..(Len(a) + Len(b)) /\ Len(b) \in Nat
      /\ \A k \in 1..Len(a) : (a \o b)[k] = a[k]
  OBVIOUS
<1>3. i \in DOMAIN (a \o b) /\ (a \o b)[i] = a[i]
  BY <1>1, <1>2
<1>4. ASSUME NEW k \in DOMAIN (a \o b), k < i PROVE ~Matches((a \o b)[k], in, u, c, kept)
  <2>1. k \in DOMAIN a /\ (a \o b)[k] = a[k]
    BY <1>1, <1>2, <1>4
  <2> QED BY <1>1, <1>4, <2>1
<1> QED BY <1>1, <1>3, <1>4 DEF Decides

LEMMA DecidesRouted ==
    ASSUME NEW T, NEW cfg, cfg.rules \in Seq(T), NEW in, NEW u, NEW c, NEW kept, NEW t, Decides(cfg.rules, in, u, c, kept, t)
    PROVE  Routed(cfg, in, u, c, kept) = Pick(cfg, t)
<1> DEFINE s == cfg.rules
           I == {i \in 1..Len(s) : Matches(s[i], in, u, c, kept)}
           hit == SelectInSeq(s, LAMBDA r : Matches(r, in, u, c, kept))
<1>1. PICK i \in DOMAIN s : /\ Matches(s[i], in, u, c, kept) /\ s[i].out = t
                            /\ \A k \in DOMAIN s : k < i => ~Matches(s[k], in, u, c, kept)
  BY DEF Decides
<1>2. DOMAIN s = 1..Len(s) /\ Len(s) \in Nat
  OBVIOUS
<1>3. i \in I /\ \A k \in I : i <= k
  <2>1. ASSUME NEW k \in I PROVE i <= k
    <3>1. k \in DOMAIN s /\ ~(k < i) /\ k \in Nat /\ i \in Nat
      BY <1>1, <1>2
    <3> QED BY <3>1
  <2> QED BY <1>1, <1>2, <2>1
<1>4. hit = IF I = {} THEN 0 ELSE Min(I)
  BY DEF SelectInSeq
<1>5. Min(I) = i
  <2>1. \A k \in I : k \in Nat
    BY <1>2
  <2>2. ASSUME NEW x \in I, \A k \in I : x <= k PROVE x = i
    <3>1. x <= i /\ i <= x /\ x \in Nat /\ i \in Nat
      BY <1>3, <2>1, <2>2
    <3> QED BY <3>1
  <2> HIDE DEF I
  <2> QED BY <1>3, <2>2 DEF Min
<1>6. hit = i /\ i # 0
  BY <1>1, <1>2, <1>3, <1>4, <1>5
<1> HIDE DEF hit
<1>7. Routed(cfg, in, u, c, kept) = CHOOSE o \in Outbounds(cfg) : o.tag = IF hit # 0 THEN cfg.rules[hit].out ELSE IF cfg.routed THEN Direct ELSE cfg.outs[1].tag
  BY DEF Routed, hit
<1>8. (IF hit # 0 THEN cfg.rules[hit].out ELSE IF cfg.routed THEN Direct ELSE cfg.outs[1].tag) = t
  BY <1>1, <1>6
<1> QED BY <1>7, <1>8 DEF Pick

LEMMA UnruledRouted ==
    ASSUME NEW cfg, cfg.rules = <<>>, NEW in, NEW u, NEW c, NEW kept
    PROVE  Routed(cfg, in, u, c, kept) = Pick(cfg, IF cfg.routed THEN Direct ELSE cfg.outs[1].tag)
<1> DEFINE hit == SelectInSeq(cfg.rules, LAMBDA r : Matches(r, in, u, c, kept))
<1>1. hit = 0
  <2>1. {i \in 1..Len(cfg.rules) : Matches(cfg.rules[i], in, u, c, kept)} = {}
    <3>1. Len(cfg.rules) = 0
      OBVIOUS
    <3> QED BY <3>1
  <2> QED BY <2>1 DEF SelectInSeq
<1> HIDE DEF hit
<1>2. Routed(cfg, in, u, c, kept) = CHOOSE o \in Outbounds(cfg) : o.tag = IF hit # 0 THEN cfg.rules[hit].out ELSE IF cfg.routed THEN Direct ELSE cfg.outs[1].tag
  BY DEF Routed, hit
<1>3. (IF hit # 0 THEN cfg.rules[hit].out ELSE IF cfg.routed THEN Direct ELSE cfg.outs[1].tag)
        = IF cfg.routed THEN Direct ELSE cfg.outs[1].tag
  BY <1>1
<1> QED BY <1>2, <1>3 DEF Pick

-----------------------------------------------------------------------------
(* Rendering: a merged config carries every keyed chain in it *)

PlainTag(c, n) == IF HasOutbound(c, n) THEN InterNodeOutboundTag(c, n) ELSE Direct

\* A pin on the node itself is heeded by the rules of c at n.
PinnedHere(c, n, ps, u, kept) == ps[u][c.name] = n /\ Heeds(c, n, kept)

LEMMA PinMatches ==
    ASSUME NEW n, NEW cs, ChainList(cs, n), NEW c \in ToSet(cs), NEW d \in ToSet(cs), NEW ps, NEW u \in Users, NEW kept,
           NEW r \in ToSet(PinRules(d, n, ps)), Matches(r, PinInbound(c, n), u, c, kept)
    PROVE  r.out = IF PinnedHere(c, n, ps, u, kept) THEN Direct ELSE PlainTag(c, n)
<1>1. c \in AllChains /\ n \in ChainNodes(c)
  BY DEF ChainList, ToSet
<1> DEFINE A == PinnedTo(ps, d, {n})
           B == PinnedTo(ps, d, Below(d, n))
<1>2. \/ r = PinRule(d, n, A, Direct)
      \/ r = PinRule(d, n, B, InterNodeOutboundTag(d, n))
  BY PinRulesOf
<1> HIDE DEF A, B
<1>3. r.in = PinInbound(d, n) /\ r.by = IF IsAWG(d) THEN "source" ELSE "auth"
  BY <1>2 DEF PinRule
<1>4. c = d
  <2>1. PinInbound(c, n) = PinInbound(d, n)
    BY <1>3 DEF Matches
  <2> QED BY <2>1, OneInbound
<1>5. u \in r.users /\ Heeds(c, n, kept)
  <2>1. CASE IsAWG(c)
    <3>1. r.by = "source"
      BY <1>3, <1>4, <2>1
    <3>2. u \in r.users /\ PinInbound(c, n)[1] \in kept
      BY <3>1 DEF Matches
    <3> QED BY <2>1, <3>2 DEF Heeds
  <2>2. CASE ~IsAWG(c)
    <3>1. r.by = "auth"
      BY <1>3, <1>4, <2>2
    <3>2. u \in r.users /\ PinInbound(c, n) = UserIn(c)
      BY <3>1 DEF Matches
    <3> QED BY <2>2, <3>2, InTags DEF PinInbound, Heeds
  <2> QED BY <2>1, <2>2
<1>6. CASE r = PinRule(d, n, A, Direct)
  <2>1. r.users = A /\ r.out = Direct
    BY <1>6 DEF PinRule
  <2>2. ps[u][c.name] = n
    BY <1>4, <1>5, <2>1 DEF A, PinnedTo
  <2> QED BY <1>5, <2>1, <2>2 DEF PinnedHere
<1>7. CASE r = PinRule(d, n, B, InterNodeOutboundTag(d, n))
  <2>1. r.users = B /\ r.out = InterNodeOutboundTag(d, n)
    BY <1>7 DEF PinRule
  <2>2. ps[u][c.name] \in Below(c, n)
    BY <1>4, <1>5, <2>1 DEF B, PinnedTo
  <2>3. ps[u][c.name] # n /\ HasOutbound(c, n)
    BY <1>1, <2>2, BelowOf
  <2> QED BY <1>4, <2>1, <2>3 DEF PinnedHere, PlainTag
<1> QED BY <1>2, <1>6, <1>7

LEMMA PinnedMatch ==
    ASSUME NEW n, NEW c, NEW ps, NEW u \in Users, NEW kept, PinnedHere(c, n, ps, u, kept)
    PROVE  \E r \in ToSet(PinRules(c, n, ps)) : Matches(r, PinInbound(c, n), u, c, kept)
<1> DEFINE A == PinnedTo(ps, c, {n})
           r == PinRule(c, n, A, Direct)
<1>1. u \in A
  BY DEF PinnedTo, PinnedHere
<1> HIDE DEF A
<1>2. A # {}
  BY <1>1
<1>3. r \in ToSet(PinRules(c, n, ps))
  BY <1>2, PinRulesOf DEF A
<1>4. r.in = PinInbound(c, n) /\ r.users = A /\ r.by = IF IsAWG(c) THEN "source" ELSE "auth"
  BY DEF PinRule
<1> HIDE DEF r
<1>5. Matches(r, PinInbound(c, n), u, c, kept)
  <2>1. CASE IsAWG(c)
    <3>1. PinInbound(c, n)[1] \in kept
      BY <2>1 DEF PinnedHere, Heeds
    <3> QED BY <1>1, <1>4, <2>1, <3>1 DEF Matches
  <2>2. CASE ~IsAWG(c)
    <3>1. PinInbound(c, n) = UserIn(c)
      BY <2>2 DEF PinnedHere, Heeds, PinInbound
    <3> QED BY <1>1, <1>4, <2>2, <3>1 DEF Matches
  <2> QED BY <2>1, <2>2
<1> QED BY <1>3, <1>5

GenRule(c, n) ==
    [in |-> IF IsEntry(c, n) THEN UserIn(c) ELSE TransportIn(c), by |-> "any", users |-> Users, out |-> PlainTag(c, n)]

LEMMA GenericRuleOf ==
    ASSUME NEW c, NEW n
    PROVE  /\ GenericRule(c, n) \in Seq({GenRule(c, n)})
           /\ \A r : r \in ToSet(GenericRule(c, n)) <=> r = GenRule(c, n) /\ ~(IsEntry(c, n) /\ IsAWG(c))
<1>1. GenericRule(c, n) = IF IsEntry(c, n) /\ IsAWG(c) THEN <<>> ELSE << GenRule(c, n) >>
  BY DEF GenericRule, GenRule, PlainTag
<1>2. <<>> \in Seq({GenRule(c, n)}) /\ << GenRule(c, n) >> \in Seq({GenRule(c, n)})
  OBVIOUS
<1>3. CASE IsEntry(c, n) /\ IsAWG(c)
  BY <1>1, <1>2, <1>3, SmallSets
<1>4. CASE ~(IsEntry(c, n) /\ IsAWG(c))
  <2>1. ToSet(<< GenRule(c, n) >>) = {GenRule(c, n)}
    BY SmallSets, Zenon
  <2>2. GenericRule(c, n) = << GenRule(c, n) >>
    BY <1>1, <1>4
  <2> QED BY <1>2, <1>4, <2>1, <2>2
<1> QED BY <1>3, <1>4

LEMMA GenericMatches ==
    ASSUME NEW n, NEW cs, ChainList(cs, n), NEW c \in ToSet(cs), NEW d \in ToSet(cs), NEW u, NEW kept,
           NEW r \in ToSet(GenericRule(d, n)), Matches(r, PinInbound(c, n), u, c, kept)
    PROVE  r.out = PlainTag(c, n)
<1>1. r = GenRule(d, n) /\ ~(IsEntry(d, n) /\ IsAWG(d))
  BY GenericRuleOf
<1>2. r.in = PinInbound(d, n) /\ r.out = PlainTag(d, n)
  BY <1>1 DEF GenRule, PinInbound
<1>3. PinInbound(c, n) = PinInbound(d, n)
  BY <1>2 DEF Matches
<1>4. c = d
  BY <1>3, OneInbound
<1> QED BY <1>2, <1>4

LEMMA AWGEntryOf ==
    ASSUME NEW n, NEW cs, ChainList(cs, n)
    PROVE  /\ AWGEntries(cs, n) \in Seq(AllChains)
           /\ \A d \in ToSet(AWGEntries(cs, n)) : d \in ToSet(cs) /\ IsEntry(d, n) /\ IsAWG(d)
           /\ \A c \in ToSet(cs) : IsEntry(c, n) /\ IsAWG(c) => AWGEntries(cs, n) # <<>> /\ AWGEntries(cs, n)[1] = c
<1> DEFINE S == {c \in ToSet(cs) : IsEntry(c, n) /\ IsAWG(c)}
           es == AWGEntries(cs, n)
<1>1. es = InOrder(cs, S)
  BY DEF AWGEntries
<1>2. cs \in Seq(AllChains)
  BY DEF ChainList
<1>3. es \in Seq(AllChains) /\ ToSet(es) = ToSet(cs) \cap S
  <2> HIDE DEF S
  <2> QED BY <1>1, <1>2, InOrderIs
<1> HIDE DEF es
<1>4. ASSUME NEW c \in ToSet(cs), IsEntry(c, n) /\ IsAWG(c) PROVE es # <<>> /\ es[1] = c
  <2>1. c \in ToSet(es)
    BY <1>3, <1>4
  <2>2. PICK x \in DOMAIN es : c = es[x]
    BY <2>1 DEF ToSet
  <2>3. es # <<>> /\ 1 \in DOMAIN es
    BY <1>3, <2>2
  <2>4. es[1] \in ToSet(es)
    BY <2>3 DEF ToSet
  <2>5. es[1] \in ToSet(cs) /\ IsEntry(es[1], n) /\ IsAWG(es[1])
    BY <1>3, <2>4
  <2>6. PinInbound(es[1], n) = PinInbound(c, n)
    BY <1>4, <2>5 DEF PinInbound
  <2>7. es[1] = c
    BY <2>5, <2>6, OneInbound
  <2> QED BY <2>3, <2>7
<1> QED BY <1>3, <1>4 DEF es

TunRule(cs, n) == [in |-> TunIn, by |-> "any", users |-> Users, out |-> ForwardOutbound(cs, n)]

LEMMA CatchAllMatches ==
    ASSUME NEW n, NEW cs, ChainList(cs, n), NEW c \in ToSet(cs), NEW u, NEW kept, Matches(TunRule(cs, n), PinInbound(c, n), u, c, kept)
    PROVE  IsEntry(c, n) /\ IsAWG(c) /\ TunRule(cs, n).out = PlainTag(c, n)
<1>1. TunRule(cs, n).in = TunIn /\ TunRule(cs, n).out = ForwardOutbound(cs, n)
  BY DEF TunRule
<1>2. PinInbound(c, n) = TunIn
  BY <1>1 DEF Matches
<1>3. IsEntry(c, n) /\ IsAWG(c)
  BY <1>2, InTags DEF PinInbound
<1>4. AWGEntries(cs, n) # <<>> /\ AWGEntries(cs, n)[1] = c
  BY <1>3, AWGEntryOf
<1>5. ForwardOutbound(cs, n) = PlainTag(c, n)
  BY <1>4 DEF ForwardOutbound, PlainTag
<1> QED BY <1>1, <1>3, <1>5

LEMMA PinRulesAll ==
    ASSUME NEW n, NEW cs, ChainList(cs, n), NEW ps
    PROVE  LET F == FlattenSeq([i \in DOMAIN cs |-> PinRules(cs[i], n, ps)])
           IN  /\ F \in Seq(UNION {ToSet(PinRules(d, n, ps)) : d \in ToSet(cs)})
               /\ \A y : y \in ToSet(F) <=> \E d \in ToSet(cs) : y \in ToSet(PinRules(d, n, ps))
<1> DEFINE T == UNION {ToSet(PinRules(d, n, ps)) : d \in ToSet(cs)}
           p == [i \in DOMAIN cs |-> PinRules(cs[i], n, ps)]
<1>1. cs \in Seq(AllChains)
  BY DEF ChainList
<1>2. \A i \in DOMAIN cs : p[i] = PinRules(cs[i], n, ps) /\ cs[i] \in ToSet(cs)
  BY <1>1 DEF ToSet
<1>3. ASSUME NEW i \in DOMAIN cs PROVE p[i] \in Seq(T)
  <2> DEFINE s == PinRules(cs[i], n, ps)
  <2>1. s \in Seq(ToSet(s))
    BY PinRulesOf
  <2>2. ToSet(s) \subseteq T
    BY <1>2
  <2> HIDE DEF T, s
  <2>3. s \in Seq(T)
    BY <2>1, <2>2
  <2> QED BY <2>3 DEF s
<1>4. p = [i \in DOMAIN cs |-> p[i]]
  OBVIOUS
<1> HIDE DEF p, T
<1>5. FlattenSeq(p) \in Seq(T) /\ \A y : y \in ToSet(FlattenSeq(p)) <=> \E i \in DOMAIN cs : y \in ToSet(p[i])
  BY <1>1, <1>3, <1>4, FlattenFamily
<1>6. ASSUME NEW y PROVE y \in ToSet(FlattenSeq(p)) <=> \E d \in ToSet(cs) : y \in ToSet(PinRules(d, n, ps))
  <2>1. ASSUME NEW i \in DOMAIN cs, y \in ToSet(p[i]) PROVE \E d \in ToSet(cs) : y \in ToSet(PinRules(d, n, ps))
    BY <1>2, <2>1
  <2>2. ASSUME NEW d \in ToSet(cs), y \in ToSet(PinRules(d, n, ps)) PROVE \E i \in DOMAIN cs : y \in ToSet(p[i])
    <3>1. PICK i \in DOMAIN cs : d = cs[i]
      BY DEF ToSet
    <3> QED BY <1>2, <2>2, <3>1
  <2> QED BY <1>5, <2>1, <2>2
<1> QED BY <1>5, <1>6 DEF p, T

LEMMA GenericRulesAll ==
    ASSUME NEW n, NEW cs, ChainList(cs, n)
    PROVE  LET F == FlattenSeq([i \in DOMAIN cs |-> GenericRule(cs[i], n)])
           IN  /\ F \in Seq({GenRule(d, n) : d \in ToSet(cs)})
               /\ \A y : y \in ToSet(F) <=> \E d \in ToSet(cs) : y \in ToSet(GenericRule(d, n))
<1> DEFINE T == {GenRule(d, n) : d \in ToSet(cs)}
           p == [i \in DOMAIN cs |-> GenericRule(cs[i], n)]
<1>1. cs \in Seq(AllChains)
  BY DEF ChainList
<1>2. \A i \in DOMAIN cs : p[i] = GenericRule(cs[i], n) /\ cs[i] \in ToSet(cs)
  BY <1>1 DEF ToSet
<1>3. ASSUME NEW i \in DOMAIN cs PROVE p[i] \in Seq(T)
  <2>1. GenericRule(cs[i], n) \in Seq({GenRule(cs[i], n)})
    BY GenericRuleOf
  <2>2. {GenRule(cs[i], n)} \subseteq T
    BY <1>2
  <2> HIDE DEF T
  <2>3. GenericRule(cs[i], n) \in Seq(T)
    BY <2>1, <2>2
  <2> QED BY <2>3
<1>4. p = [i \in DOMAIN cs |-> p[i]]
  OBVIOUS
<1> HIDE DEF p, T
<1>5. FlattenSeq(p) \in Seq(T) /\ \A y : y \in ToSet(FlattenSeq(p)) <=> \E i \in DOMAIN cs : y \in ToSet(p[i])
  BY <1>1, <1>3, <1>4, FlattenFamily
<1>6. ASSUME NEW y PROVE y \in ToSet(FlattenSeq(p)) <=> \E d \in ToSet(cs) : y \in ToSet(GenericRule(d, n))
  <2>1. ASSUME NEW i \in DOMAIN cs, y \in ToSet(p[i]) PROVE \E d \in ToSet(cs) : y \in ToSet(GenericRule(d, n))
    BY <1>2, <2>1
  <2>2. ASSUME NEW d \in ToSet(cs), y \in ToSet(GenericRule(d, n)) PROVE \E i \in DOMAIN cs : y \in ToSet(p[i])
    <3>1. PICK i \in DOMAIN cs : d = cs[i]
      BY DEF ToSet
    <3> QED BY <1>2, <2>2, <3>1
  <2> QED BY <1>5, <2>1, <2>2
<1> QED BY <1>5, <1>6 DEF p, T

LEMMA Overlay ==
    ASSUME NEW n, NEW cs
    PROVE  LET B == IF TUNOverlayNeeded(cs, n) THEN CatchAll(cs, n) ELSE <<>>
           IN  B \in Seq({TunRule(cs, n)}) /\ \A r : r \in ToSet(B) <=> r = TunRule(cs, n) /\ TUNOverlayNeeded(cs, n)
<1>1. CatchAll(cs, n) = << TunRule(cs, n) >>
  BY DEF CatchAll, TunRule
<1>2. <<>> \in Seq({TunRule(cs, n)}) /\ << TunRule(cs, n) >> \in Seq({TunRule(cs, n)})
  OBVIOUS
<1>3. ToSet(<<>>) = {} /\ ToSet(<< TunRule(cs, n) >>) = {TunRule(cs, n)}
  BY SmallSets, Zenon
<1>4. CASE TUNOverlayNeeded(cs, n)
  BY <1>1, <1>2, <1>3, <1>4
<1>5. CASE ~TUNOverlayNeeded(cs, n)
  BY <1>2, <1>3, <1>5
<1> QED BY <1>4, <1>5

\* With AB_ROUTE_DNS every user of c is sent where the pins say.
LEMMA RoutedByRules ==
    ASSUME NEW n, NEW cs, ChainList(cs, n), NEW c \in ToSet(cs), NEW ps, NEW u \in Users, NEW kept
    PROVE  Routed(MergedNodeConfig(cs, n, ps, TRUE), PinInbound(c, n), u, c, kept)
             = Pick(MergedNodeConfig(cs, n, ps, TRUE), IF PinnedHere(c, n, ps, u, kept) THEN Direct ELSE PlainTag(c, n))
<1> DEFINE cfg == MergedNodeConfig(cs, n, ps, TRUE)
           P == FlattenSeq([i \in DOMAIN cs |-> PinRules(cs[i], n, ps)])
           G == FlattenSeq([i \in DOMAIN cs |-> GenericRule(cs[i], n)])
           B == IF TUNOverlayNeeded(cs, n) THEN CatchAll(cs, n) ELSE <<>>
           in == PinInbound(c, n)
           PT == UNION {ToSet(PinRules(d, n, ps)) : d \in ToSet(cs)}
           GT == {GenRule(d, n) : d \in ToSet(cs)}
           T == (PT \cup GT) \cup {TunRule(cs, n)}
           tag == IF PinnedHere(c, n, ps, u, kept) THEN Direct ELSE PlainTag(c, n)
<1>1. cs # <<>>
  BY SmallSets
<1>2. cfg.rules = (P \o G) \o B
  BY <1>1 DEF MergedNodeConfig, MergedRoute
<1>3. P \in Seq(PT) /\ \A r : r \in ToSet(P) <=> \E d \in ToSet(cs) : r \in ToSet(PinRules(d, n, ps))
  BY PinRulesAll
<1>4. G \in Seq(GT) /\ \A r : r \in ToSet(G) <=> \E d \in ToSet(cs) : r \in ToSet(GenericRule(d, n))
  BY GenericRulesAll
<1>5. B \in Seq({TunRule(cs, n)}) /\ \A r : r \in ToSet(B) <=> r = TunRule(cs, n) /\ TUNOverlayNeeded(cs, n)
  BY Overlay
<1> HIDE DEF cfg, P, G, B, PT, GT
<1>6. P \in Seq(T) /\ G \in Seq(T) /\ B \in Seq(T)
  BY <1>3, <1>4, <1>5
<1> HIDE DEF T
<1>7. P \o G \in Seq(T) /\ ToSet(P \o G) = ToSet(P) \cup ToSet(G)
  BY <1>6, ConcatSet
<1>8. (P \o G) \o B \in Seq(T) /\ ToSet((P \o G) \o B) = ToSet(P) \cup ToSet(G) \cup ToSet(B)
  <2> DEFINE Q == P \o G
  <2>1. Q \in Seq(T) /\ ToSet(Q) = ToSet(P) \cup ToSet(G)
    BY <1>7
  <2> HIDE DEF Q
  <2>2. Q \o B \in Seq(T) /\ ToSet(Q \o B) = ToSet(Q) \cup ToSet(B)
    BY <1>6, <2>1, ConcatSet
  <2>3. Q \o B \in Seq(T) /\ ToSet(Q \o B) = ToSet(P) \cup ToSet(G) \cup ToSet(B)
    BY <2>1, <2>2
  <2> QED BY <2>3 DEF Q
<1>9. \A r \in ToSet(P) : Matches(r, in, u, c, kept) => r.out = tag
  BY <1>3, PinMatches
<1>10. CASE PinnedHere(c, n, ps, u, kept)
  <2>1. \E r \in ToSet(P) : Matches(r, in, u, c, kept)
    BY <1>3, <1>10, PinnedMatch
  <2> HIDE DEF in, tag
  <2>2. Decides(P, in, u, c, kept, tag)
    BY <1>6, <1>9, <2>1, DecidesAgreed
  <2>3. Decides(P \o G, in, u, c, kept, tag)
    BY <1>6, <2>2, DecidesConcat
  <2>4. Decides(cfg.rules, in, u, c, kept, tag)
    BY <1>2, <1>6, <1>7, <2>3, DecidesConcat
  <2>5. Routed(cfg, in, u, c, kept) = Pick(cfg, tag)
    BY <1>2, <1>8, <2>4, DecidesRouted
  <2> QED BY <2>5 DEF cfg, in, tag
<1>11. CASE ~PinnedHere(c, n, ps, u, kept)
  <2>0. tag = PlainTag(c, n)
    BY <1>11
  <2>1. \A r \in ToSet(G) : Matches(r, in, u, c, kept) => r.out = tag
    BY <1>4, <2>0, GenericMatches
  <2>2. \A r \in ToSet(B) : Matches(r, in, u, c, kept) => r.out = tag
    BY <1>5, <2>0, CatchAllMatches
  <2>3. \E r \in ToSet(G) \cup ToSet(B) : Matches(r, in, u, c, kept)
    <3>1. CASE IsEntry(c, n) /\ IsAWG(c)
      <4>1. AWGEntries(cs, n) # <<>>
        BY <3>1, AWGEntryOf
      <4>2. TunRule(cs, n) \in ToSet(B)
        BY <1>5, <4>1 DEF TUNOverlayNeeded
      <4>3. TunRule(cs, n).in = TunIn /\ TunRule(cs, n).by = "any"
        BY DEF TunRule
      <4>4. in = TunIn
        BY <3>1 DEF PinInbound
      <4>5. Matches(TunRule(cs, n), in, u, c, kept)
        BY <4>3, <4>4 DEF Matches
      <4> QED BY <4>2, <4>5
    <3>2. CASE ~(IsEntry(c, n) /\ IsAWG(c))
      <4>1. GenRule(c, n) \in ToSet(G)
        BY <1>4, <3>2, GenericRuleOf
      <4>2. GenRule(c, n).in = in /\ GenRule(c, n).by = "any"
        BY <3>2 DEF GenRule, PinInbound
      <4>3. Matches(GenRule(c, n), in, u, c, kept)
        BY <4>2 DEF Matches
      <4> QED BY <4>1, <4>3
    <3> QED BY <3>1, <3>2
  <2> HIDE DEF in, tag
  <2>4. Decides(cfg.rules, in, u, c, kept, tag)
    <3>1. /\ \E r \in ToSet((P \o G) \o B) : Matches(r, in, u, c, kept)
          /\ \A r \in ToSet((P \o G) \o B) : Matches(r, in, u, c, kept) => r.out = tag
      BY <1>8, <1>9, <2>1, <2>2, <2>3
    <3> QED BY <1>2, <1>8, <3>1, DecidesAgreed
  <2>5. Routed(cfg, in, u, c, kept) = Pick(cfg, tag)
    BY <1>2, <1>8, <2>4, DecidesRouted
  <2> QED BY <2>5 DEF cfg, in, tag
<1> QED BY <1>10, <1>11

LEMMA InsOf ==
    ASSUME NEW c, NEW n
    PROVE  /\ \A i \in RoleInbounds(c, n) : i.tag = IF IsEntry(c, n) THEN UserIn(c) ELSE TransportIn(c)
           /\ RoleInbounds(c, n) = {} <=> IsEntry(c, n) /\ IsAWG(c)
<1>1. CASE IsEntry(c, n) /\ IsAWG(c)
  <2>1. RoleInbounds(c, n) = {}
    BY <1>1 DEF RoleInbounds
  <2> QED BY <1>1, <2>1
<1>2. CASE IsEntry(c, n) /\ ~IsAWG(c)
  <2>1. RoleInbounds(c, n) = {[tag |-> UserIn(c), cred |-> <<>>]}
    BY <1>2 DEF RoleInbounds
  <2>2. RoleInbounds(c, n) # {} /\ \A i \in RoleInbounds(c, n) : i.tag = UserIn(c)
    BY <2>1
  <2> QED BY <1>2, <2>2, Zenon
<1>3. CASE ~IsEntry(c, n)
  <2>1. PICK x : RoleInbounds(c, n) = {[tag |-> TransportIn(c), cred |-> x]}
    BY <1>3 DEF RoleInbounds
  <2>2. RoleInbounds(c, n) # {} /\ \A i \in RoleInbounds(c, n) : i.tag = TransportIn(c)
    BY <2>1
  <2> QED BY <1>3, <2>2, Zenon
<1> QED BY <1>1, <1>2, <1>3

\* Without a conflict of ports a node is transit for one chain at most.
LEMMA OneTransit ==
    ASSUME NEW n, NEW cs, ChainList(cs, n), ~PortConflict(cs, n), NEW c \in ToSet(cs), NEW d \in ToSet(cs),
           ~IsEntry(c, n), ~IsEntry(d, n)
    PROVE  c = d
<1>1. PICK x \in DOMAIN cs : c = cs[x]
  BY DEF ToSet
<1>2. PICK y \in DOMAIN cs : d = cs[y]
  BY DEF ToSet
<1>3. RolePort(cs[x], n) = RolePort(cs[y], n)
  BY <1>1, <1>2 DEF RolePort
<1>4. ~(x < y) /\ ~(y < x)
  BY <1>3 DEF PortConflict
<1>5. x \in Nat /\ y \in Nat
  <2>1. cs \in Seq(AllChains)
    BY DEF ChainList
  <2> QED BY <2>1
<1>6. x = y
  BY <1>4, <1>5
<1> QED BY <1>1, <1>2, <1>6

LEMMA MergedAdmits ==
    ASSUME NEW n, NEW cs, ChainList(cs, n), ~PortConflict(cs, n), NEW c \in ToSet(cs), NEW ps, NEW mode \in BOOLEAN
    PROVE  Admits(MergedNodeConfig(cs, n, ps, mode), n, c)
<1> DEFINE cfg == MergedNodeConfig(cs, n, ps, mode)
           R == IF mode /\ cs # <<>> THEN MergedRoute(cs, n, ps) ELSE <<>>
           B == IF TUNOverlayNeeded(cs, n) THEN CatchAll(cs, n) ELSE <<>>
<1>1. cfg.ins = UNION {RoleInbounds(d, n) : d \in ToSet(cs)} /\ cfg.awg0 = AWG0Chain(cs, n) /\ cfg.rules = R \o B
  BY DEF MergedNodeConfig
<1> HIDE DEF cfg
<1>2. CASE ~IsEntry(c, n)
  <2>1. ASSUME NEW i \in RoleInbounds(c, n) PROVE i \in cfg.ins /\ i.tag[1] = "transport-in"
    BY <1>1, <1>2, <2>1, InsOf, InTags
  <2>2. ASSUME NEW i \in cfg.ins, i.tag[1] = "transport-in" PROVE i \in RoleInbounds(c, n)
    <3>1. PICK d \in ToSet(cs) : i \in RoleInbounds(d, n)
      BY <1>1
    <3>2. ~IsEntry(d, n)
      BY <2>2, <3>1, InsOf, InTags
    <3>3. c = d
      BY <1>2, <3>2, OneTransit
    <3> QED BY <3>1, <3>3
  <2>3. {i \in cfg.ins : i.tag[1] = "transport-in"} = RoleInbounds(c, n)
    BY <2>1, <2>2
  <2> QED BY <1>2, <2>3 DEF Admits, cfg
<1>3. CASE IsEntry(c, n) /\ ~IsAWG(c)
  <2>1. \E i \in RoleInbounds(c, n) : i.tag = UserIn(c)
    BY <1>3, InsOf
  <2>2. \E i \in cfg.ins : i.tag = UserIn(c)
    BY <1>1, <2>1
  <2> QED BY <1>3, <2>2 DEF Admits, cfg
<1>4. CASE IsEntry(c, n) /\ IsAWG(c)
  <2>1. AWGEntries(cs, n) # <<>> /\ AWGEntries(cs, n)[1] = c
    BY <1>4, AWGEntryOf
  <2>2. cfg.awg0 = c.name
    BY <1>1, <2>1 DEF AWG0Chain
  <2>3. TUNOverlayNeeded(cs, n)
    BY <2>1 DEF TUNOverlayNeeded
  <2>4. B \in Seq({TunRule(cs, n)}) /\ TunRule(cs, n) \in ToSet(B)
    BY <2>3, Overlay
  <2>5. \E T : R \in Seq(T)
    <3>1. CASE mode /\ cs # <<>>
      <4> DEFINE P == FlattenSeq([i \in DOMAIN cs |-> PinRules(cs[i], n, ps)])
                 G == FlattenSeq([i \in DOMAIN cs |-> GenericRule(cs[i], n)])
                 PT == UNION {ToSet(PinRules(d, n, ps)) : d \in ToSet(cs)}
                 GT == {GenRule(d, n) : d \in ToSet(cs)}
      <4>1. R = P \o G
        BY <3>1 DEF MergedRoute
      <4>2. P \in Seq(PT) /\ G \in Seq(GT)
        <5>1. P \in Seq(PT) /\ \A y : y \in ToSet(P) <=> \E d \in ToSet(cs) : y \in ToSet(PinRules(d, n, ps))
          BY PinRulesAll
        <5>2. G \in Seq(GT) /\ \A y : y \in ToSet(G) <=> \E d \in ToSet(cs) : y \in ToSet(GenericRule(d, n))
          BY GenericRulesAll
        <5> HIDE DEF P, G, PT, GT
        <5> QED BY <5>1, <5>2
      <4> HIDE DEF P, G, PT, GT, R
      <4>3. P \in Seq(PT \cup GT) /\ G \in Seq(PT \cup GT)
        BY <4>2
      <4>4. P \o G \in Seq(PT \cup GT)
        BY <4>3
      <4> QED BY <4>1, <4>4
    <3>2. CASE ~(mode /\ cs # <<>>)
      <4>1. R = <<>>
        BY <3>2
      <4>2. <<>> \in Seq({})
        OBVIOUS
      <4> HIDE DEF R
      <4> QED BY <4>1, <4>2
    <3> QED BY <3>1, <3>2
  <2>6. TunRule(cs, n) \in ToSet(R \o B)
    <3>1. PICK T : R \in Seq(T)
      BY <2>5
    <3> HIDE DEF R, B
    <3>2. R \in Seq(T \cup {TunRule(cs, n)}) /\ B \in Seq(T \cup {TunRule(cs, n)})
      BY <2>4, <3>1
    <3>3. ToSet(R \o B) = ToSet(R) \cup ToSet(B)
      BY <3>2, ConcatSet
    <3> QED BY <2>4, <3>3
  <2>7. TunRule(cs, n).in = TunIn
    BY DEF TunRule
  <2>8. \E r \in ToSet(cfg.rules) : r.in = TunIn
    BY <1>1, <2>6, <2>7
  <2> QED BY <1>4, <2>2, <2>8 DEF Admits, cfg
<1> QED BY <1>2, <1>3, <1>4

\* Without AB_ROUTE_DNS, the only chain on its node is sent on.
LEMMA RoutedAlone ==
    ASSUME NEW n, NEW cs, ChainList(cs, n), NEW c \in ToSet(cs), Keyed(c), NEW ps, NEW u \in Users, NEW kept,
           Alone(MergedNodeConfig(cs, n, ps, FALSE), n, c)
    PROVE  LET t == RoutesOf(MergedNodeConfig(cs, n, ps, FALSE), n, c, u, kept) IN t # {} /\ t \subseteq Onward(c, n)
<1> DEFINE cfg == MergedNodeConfig(cs, n, ps, FALSE)
           F == FlattenSeq([i \in DOMAIN cs |-> RoleOutbounds(cs[i], n)])
           B == IF TUNOverlayNeeded(cs, n) THEN CatchAll(cs, n) ELSE <<>>
           in == PinInbound(c, n)
<1>1. \A d \in ToSet(cs) : d \in AllChains /\ n \in ChainNodes(d) /\ (d.name = c.name => d = c)
  BY DEF ChainList, ToSet
<1>2. /\ cfg.ins = UNION {RoleInbounds(d, n) : d \in ToSet(cs)} /\ cfg.outs = F \o <<DirectOut>>
      /\ (cfg.routed <=> TUNOverlayNeeded(cs, n)) /\ cfg.rules = <<>> \o B
  <2>1. cfg.ins = UNION {RoleInbounds(d, n) : d \in ToSet(cs)} /\ cfg.outs = F \o <<DirectOut>>
    BY DEF MergedNodeConfig
  <2>2. cfg.rules = <<>> \o B
    BY DEF MergedNodeConfig
  <2>3. cfg.routed = ((FALSE /\ cs # <<>>) \/ TUNOverlayNeeded(cs, n))
    BY Zenon DEF MergedNodeConfig
  <2> HIDE DEF cfg, F, B
  <2> QED BY <2>1, <2>2, <2>3
<1>3. OutsFor(cfg, c, n)
  BY MergedOuts
<1> HIDE DEF cfg
<1>4. ASSUME NEW d \in ToSet(cs) PROVE d = c
  <2>1. CASE IsEntry(d, n) /\ IsAWG(d)
    <3>1. n \in ToSet(d.levels[1])
      BY <1>1, <2>1, LevelOf DEF IsEntry
    <3>2. n \in AWGNodes
      BY <1>1, <2>1, <3>1, ChainShape DEF IsAWG
    <3>3. IsAWG(c) /\ IsEntry(c, n)
      BY <3>2 DEF Alone, IsAWG
    <3>4. PinInbound(c, n) = PinInbound(d, n)
      BY <2>1, <3>3 DEF PinInbound
    <3> QED BY <3>4, OneInbound
  <2>2. CASE ~(IsEntry(d, n) /\ IsAWG(d))
    <3>1. PICK i \in RoleInbounds(d, n) : i.tag = IF IsEntry(d, n) THEN UserIn(d) ELSE TransportIn(d)
      BY <2>2, InsOf
    <3>2. i \in cfg.ins
      BY <1>2, <3>1
    <3>3. i.tag \in {UserIn(c), TransportIn(c)}
      BY <3>2 DEF Alone, cfg
    <3>4. d.name = c.name
      BY <3>1, <3>3, InTags
    <3> QED BY <1>1, <3>4
  <2> QED BY <2>1, <2>2
<1>5. CASE TUNOverlayNeeded(cs, n)
  <2>1. IsEntry(c, n) /\ IsAWG(c)
    <3>1. CASE n \in AWGNodes
      BY <3>1 DEF Alone, IsAWG
    <3>2. CASE n \notin AWGNodes
      <4>1. AWGEntries(cs, n) # <<>> /\ AWGEntries(cs, n) \in Seq(AllChains)
        BY <1>5, <3>2, AWGEntryOf DEF TUNOverlayNeeded
      <4>2. 1 \in DOMAIN AWGEntries(cs, n)
        BY <4>1
      <4>3. AWGEntries(cs, n)[1] \in ToSet(AWGEntries(cs, n))
        BY <4>2 DEF ToSet
      <4> QED BY <1>4, <4>3, AWGEntryOf
    <3> QED BY <3>1, <3>2
  <2>2. B \in Seq({TunRule(cs, n)}) /\ ToSet(B) = {TunRule(cs, n)}
    BY <1>5, Overlay
  <2> HIDE DEF B
  <2>3. cfg.rules = B
    BY <1>2, <2>2
  <2>4. TunRule(cs, n).in = TunIn /\ TunRule(cs, n).by = "any"
    BY DEF TunRule
  <2>5. in = TunIn
    BY <2>1 DEF PinInbound
  <2>6. Matches(TunRule(cs, n), in, u, c, kept)
    BY <2>4, <2>5 DEF Matches
  <2>7. TunRule(cs, n).out = PlainTag(c, n)
    BY <2>6, CatchAllMatches
  <2>8. Decides(cfg.rules, in, u, c, kept, PlainTag(c, n))
    <3> HIDE DEF in
    <3>1. /\ \E r \in ToSet(B) : Matches(r, in, u, c, kept)
          /\ \A r \in ToSet(B) : Matches(r, in, u, c, kept) => r.out = PlainTag(c, n)
      BY <2>2, <2>6, <2>7
    <3> QED BY <2>2, <2>3, <3>1, DecidesAgreed
  <2>9. Routed(cfg, in, u, c, kept) = Pick(cfg, PlainTag(c, n))
    <3> HIDE DEF in
    <3> QED BY <2>2, <2>3, <2>8, DecidesRouted
  <2>10. RoutesOf(cfg, n, c, u, kept) = Targets(cfg, Pick(cfg, PlainTag(c, n)))
    BY <2>9 DEF RoutesOf
  <2>11. CASE HasOutbound(c, n)
    <3>1. Targets(cfg, Pick(cfg, InterNodeOutboundTag(c, n))) = ToSet(RoleHops(c, n))
      BY <1>1, <1>3, <2>11, LeadsTo
    <3>2. RoutesOf(cfg, n, c, u, kept) = ToSet(RoleHops(c, n))
      BY <2>10, <2>11, <3>1 DEF PlainTag
    <3>3. ToSet(RoleHops(c, n)) # {}
      <4>1. NextNodes(c, n) \in Seq(Nodes) /\ Len(NextNodes(c, n)) >= 1 /\ Len(NextNodes(c, n)) \in Nat
        BY <1>1, <2>11, NextOf
      <4>2. NextNodes(c, n)[1] \in ToSet(NextNodes(c, n))
        BY <4>1 DEF ToSet
      <4> QED BY <1>1, <2>11, <4>2, HopsOf
    <3> QED BY <2>11, <3>2, <3>3 DEF Onward, cfg
  <2>12. CASE ~HasOutbound(c, n)
    <3>1. RoutesOf(cfg, n, c, u, kept) = {DirectOut}
      BY <1>1, <1>3, <2>10, <2>12, LeadsTo DEF PlainTag
    <3> QED BY <2>12, <3>1 DEF Onward, cfg
  <2> QED BY <2>11, <2>12
<1>6. CASE ~TUNOverlayNeeded(cs, n)
  <2>1. cfg.rules = <<>> /\ ~cfg.routed
    BY <1>2, <1>6
  <2>2. RoutesOf(cfg, n, c, u, kept) = Targets(cfg, Pick(cfg, cfg.outs[1].tag))
    BY <2>1, UnruledRouted DEF RoutesOf
  <2> DEFINE T == UNION {PartOuts(d, n) : d \in ToSet(cs)}
  <2>3. F \in Seq(T) /\ \A y : y \in ToSet(F) <=> \E d \in ToSet(cs) : y \in ToSet(RoleOutbounds(d, n))
    BY RoleOutboundsOf
  <2> HIDE DEF F, T
  <2>4. \A y : y \in ToSet(F) <=> y \in ToSet(RoleOutbounds(c, n))
    BY <1>4, <2>3
  <2>5. CASE F = <<>>
    <3>1. ToSet(RoleOutbounds(c, n)) = {}
      BY <2>4, <2>5, SmallSets
    <3>2. cfg.outs[1] = DirectOut
      BY <1>2, <2>5
    <3>3. ~HasOutbound(c, n)
      <4>1. CASE c.transport = "awg"
        <5>1. IsAWG(c) /\ Len(c.levels) <= 2
          BY <4>1 DEF Alone, IsAWG
        <5>2. ~IsEntry(c, n)
          <6>1. n \notin AWGNodes
            BY <1>6 DEF TUNOverlayNeeded
          <6> QED BY <1>1, <5>1, <6>1, LevelOf, ChainShape DEF IsEntry, IsAWG
        <5>3. LevelIndexOf(c, n) \in 1..Len(c.levels) /\ Len(c.levels) \in Nat /\ LevelIndexOf(c, n) # 1
          BY <1>1, <5>2, LevelOf DEF IsEntry
        <5> QED BY <5>1, <5>3 DEF HasOutbound
      <4>2. CASE c.transport # "awg" /\ HasOutbound(c, n)
        <5>1. NextNodes(c, n) \in Seq(Nodes) /\ Len(NextNodes(c, n)) >= 1 /\ Len(NextNodes(c, n)) \in Nat
          BY <1>1, <4>2, NextOf
        <5>2. NextNodes(c, n)[1] \in ToSet(NextNodes(c, n))
          BY <5>1 DEF ToSet
        <5>3. ToSet(RoleHops(c, n)) # {}
          BY <1>1, <4>2, <5>2, HopsOf
        <5>4. ToSet(RoleHops(c, n)) \subseteq ToSet(RoleOutbounds(c, n))
          BY <1>1, <4>2, PartOf
        <5> QED BY <3>1, <5>3, <5>4
      <4> QED BY <4>1, <4>2
    <3>4. cfg.outs[1].tag = Direct
      BY <3>2 DEF DirectOut
    <3>5. RoutesOf(cfg, n, c, u, kept) = {DirectOut}
      BY <1>1, <1>3, <2>2, <3>4, LeadsTo
    <3> QED BY <3>3, <3>5 DEF Onward, cfg
  <2>6. CASE F # <<>>
    <3>1. 1 \in DOMAIN F /\ (F \o <<DirectOut>>)[1] = F[1]
      BY <2>3, <2>6
    <3>2. F[1] \in ToSet(RoleOutbounds(c, n))
      BY <2>4, <3>1 DEF ToSet
    <3>3. cfg.outs[1] \in PartOuts(c, n)
      BY <1>2, <3>1, <3>2 DEF PartOuts
    <3>4. RoutesOf(cfg, n, c, u, kept) # {} /\ RoutesOf(cfg, n, c, u, kept) \subseteq ToSet(RoleHops(c, n))
      BY <1>1, <1>3, <2>2, <3>3, LeadsTo
    <3>5. HasOutbound(c, n)
      <4>1. ~HasOutbound(c, n) => ToSet(RoleHops(c, n)) = {}
        BY <1>1, HopsOf, SmallSets
      <4> QED BY <3>4, <4>1
    <3> QED BY <3>4, <3>5 DEF Onward, cfg
  <2> QED BY <2>5, <2>6
<1> QED BY <1>5, <1>6

\* What MergedNodeConfig renders without a conflict of ports carries every
\* chain in it that has its keys.
LEMMA Rendered ==
    ASSUME NEW n, NEW cs, ChainList(cs, n), ~PortConflict(cs, n), NEW c \in ToSet(cs), Keyed(c),
           NEW ps, NEW mode \in BOOLEAN, NEW pin, \A u \in Users : pin[u] = ps[u][c.name]
    PROVE  Carries(MergedNodeConfig(cs, n, ps, mode), n, c, pin, mode)
<1>1. c \in AllChains /\ n \in ChainNodes(c)
  BY DEF ChainList, ToSet
<1>2. Admits(MergedNodeConfig(cs, n, ps, mode), n, c)
  BY MergedAdmits
<1>3. ASSUME mode = TRUE, NEW u \in Users, NEW kept \in Survivals PROVE RoutesOf(MergedNodeConfig(cs, n, ps, mode), n, c, u, kept) = Sends(c, n, pin, u, kept)
  <2> DEFINE cfg == MergedNodeConfig(cs, n, ps, TRUE)
  <2>1. OutsFor(cfg, c, n)
    BY MergedOuts
  <2>2. Routed(cfg, PinInbound(c, n), u, c, kept) = Pick(cfg, IF PinnedHere(c, n, ps, u, kept) THEN Direct ELSE PlainTag(c, n))
    BY RoutedByRules
  <2> HIDE DEF cfg
  <2>3. RoutesOf(cfg, n, c, u, kept) = Targets(cfg, Pick(cfg, IF PinnedHere(c, n, ps, u, kept) THEN Direct ELSE PlainTag(c, n)))
    BY <2>2 DEF RoutesOf
  <2>4. PinnedHere(c, n, ps, u, kept) <=> pin[u] = n /\ Heeds(c, n, kept)
    BY DEF PinnedHere
  <2>5. /\ Targets(cfg, Pick(cfg, Direct)) = {DirectOut}
        /\ HasOutbound(c, n) => Targets(cfg, Pick(cfg, InterNodeOutboundTag(c, n))) = ToSet(RoleHops(c, n))
    BY <1>1, <2>1, LeadsTo
  <2>6. CASE PinnedHere(c, n, ps, u, kept)
    BY <1>3, <2>3, <2>4, <2>5, <2>6 DEF Sends, cfg
  <2>7. CASE ~PinnedHere(c, n, ps, u, kept)
    <3>1. CASE HasOutbound(c, n)
      BY <1>3, <2>3, <2>4, <2>5, <2>7, <3>1 DEF Sends, Onward, PlainTag, cfg
    <3>2. CASE ~HasOutbound(c, n)
      BY <1>3, <2>3, <2>4, <2>5, <2>7, <3>2 DEF Sends, Onward, PlainTag, cfg
    <3> QED BY <3>1, <3>2
  <2> QED BY <2>6, <2>7
<1>4. ASSUME mode = FALSE, NEW u \in Users, NEW kept \in Survivals, Alone(MergedNodeConfig(cs, n, ps, mode), n, c)
      PROVE  LET t == RoutesOf(MergedNodeConfig(cs, n, ps, mode), n, c, u, kept) IN t # {} /\ t \subseteq Onward(c, n)
  BY <1>4, RoutedAlone
<1> QED BY <1>2, <1>3, <1>4 DEF Carries

-----------------------------------------------------------------------------
(* Delivery: connections of a chain whose nodes all carry it *)

Works(c) == Keyed(c) /\ \A n \in ChainNodes(c) : CarriesNow(running[n], n, c)

LEMMA LevelsBound ==
    ASSUME NEW c \in AllChains
    PROVE  Cardinality(Nodes) \in Nat /\ Len(c.levels) <= Cardinality(Nodes)
<1>1. IsFiniteSet(Nodes)
  BY CascadeAssumption
<1>2. Cardinality(Nodes) \in Nat
  BY <1>1, FS_CardinalityType
<1>3. Len(c.levels) \in Nat /\ DOMAIN c.levels = 1..Len(c.levels)
      /\ \A l \in 1..Len(c.levels) : c.levels[l] \in Seq(Nodes) /\ Len(c.levels[l]) >= 1
  BY ChainShape
<1>4. \A l \in 1..Len(c.levels) : 1 \in DOMAIN c.levels[l] /\ c.levels[l][1] \in Nodes
  BY <1>3
<1> DEFINE f == [l \in 1..Len(c.levels) |-> c.levels[l][1]]
           S == 1..Len(c.levels)
<1>5. IsFiniteSet(S) /\ Cardinality(S) = Len(c.levels)
  <2>1. 1 \in Int /\ Len(c.levels) \in Int
    BY <1>3
  <2>2. IsFiniteSet(S) /\ Cardinality(S) = IF 1 > Len(c.levels) THEN 0 ELSE Len(c.levels) - 1 + 1
    BY <2>1, FS_Interval
  <2> QED BY <1>3, <2>2
<1>6. f \in [S -> Nodes]
  BY <1>4
<1>7. ASSUME Cardinality(Nodes) < Len(c.levels) PROVE FALSE
  <2>1. PICK x, y \in S : x # y /\ f[x] = f[y]
    <3> HIDE DEF f, S
    <3> QED BY <1>1, <1>5, <1>6, <1>7, FS_PigeonHole
  <2>2. c.levels[x][1] = c.levels[y][1]
    BY <2>1
  <2>3. x = y
    BY <1>3, <1>4, <2>2, ChainShape
  <2> QED BY <2>1, <2>3
<1> QED BY <1>2, <1>3, <1>7

Entered(c, u) == {Enter(c, n) : n \in ClientEntries(c, u)}

\* The hops of a connection, one by one.
Walk(f, c, u, kept, N) ==
    /\ f[0] = Entered(c, u) /\ Ends(c, u, kept) = f[N]
    /\ \A k \in 1..N : f[k] = UNION {Forward(p, u, c, kept) : p \in f[k - 1]}

LEMMA EndsBySteps ==
    ASSUME NEW c, NEW u, NEW kept, NEW N \in Nat, Cardinality(Nodes) = N
    PROVE  \E f : Walk(f, c, u, kept, N)
<1> DEFINE step(P) == UNION {Forward(p, u, c, kept) : p \in P}
           Sol(f, n) == f = [k \in 0..n |-> IF k = 0 THEN Entered(c, u) ELSE step(f[k - 1])]
           S == {n \in Nat : \E f : Sol(f, n)}
<1> HIDE DEF step
<1>1. 0 \in S
  <2> DEFINE g == [k \in 0..0 |-> Entered(c, u)]
  <2>1. Sol(g, 0)
    <3>1. \A k \in 0..0 : k = 0
      OBVIOUS
    <3> QED BY <3>1
  <2> QED BY <2>1
<1>2. ASSUME NEW n \in Nat, n \in S PROVE n + 1 \in S
  <2>1. PICK f : Sol(f, n)
    BY <1>2
  <2> DEFINE g == [k \in 0..(n + 1) |-> IF k = n + 1 THEN step(f[n]) ELSE f[k]]
  <2>2. ASSUME NEW k \in 0..(n + 1) PROVE g[k] = IF k = 0 THEN Entered(c, u) ELSE step(g[k - 1])
    <3>1. CASE k = n + 1
      <4>1. k # 0 /\ k - 1 = n /\ n \in 0..(n + 1) /\ n # n + 1
        BY <3>1
      <4>2. g[k - 1] = f[n] /\ g[k] = step(f[n])
        BY <3>1, <4>1
      <4> QED BY <4>1, <4>2
    <3>2. CASE k # n + 1
      <4>1. k \in 0..n /\ g[k] = f[k]
        BY <3>2
      <4>2. f[k] = IF k = 0 THEN Entered(c, u) ELSE step(f[k - 1])
        BY <2>1, <4>1
      <4>3. k # 0 => k - 1 \in 0..(n + 1) /\ k - 1 # n + 1
        BY <4>1
      <4>4. k # 0 => g[k - 1] = f[k - 1]
        BY <4>3
      <4> QED BY <4>1, <4>2, <4>4
    <3> QED BY <3>1, <3>2
  <2>3. g = [k \in 0..(n + 1) |-> g[k]]
    OBVIOUS
  <2> HIDE DEF g
  <2>4. Sol(g, n + 1)
    BY <2>2, <2>3
  <2> HIDE DEF Sol
  <2>5. \E h : Sol(h, n + 1)
    BY <2>4
  <2> QED BY <2>5
<1>3. N \in S
  <2>1. \A k \in 0..N : k < N /\ k \in S => k + 1 \in S
    BY <1>2
  <2> HIDE DEF S
  <2>2. \A k \in 0..N : k \in S
    BY <1>1, <2>1, UpTo
  <2> QED BY <2>2
<1> DEFINE h == CHOOSE f : Sol(f, N)
<1>4. Sol(h, N)
  <2>1. \E f : Sol(f, N)
    BY <1>3
  <2> HIDE DEF Sol
  <2> QED BY <2>1, Zenon
<1>5. Ends(c, u, kept) = h[N]
  BY Zenon DEF Ends, Entered, step
<1> HIDE DEF h
<1>6. h[0] = Entered(c, u) /\ \A k \in 1..N : h[k] = step(h[k - 1])
  BY <1>4
<1>7. Walk(h, c, u, kept, N)
  BY <1>5, <1>6 DEF step, Walk
<1> QED BY <1>7

LEMMA EnteredOf ==
    ASSUME NEW c \in AllChains, Works(c), NEW u
    PROVE  /\ Entered(c, u) = {Hop(n, PinInbound(c, n)) : n \in ClientEntries(c, u)}
           /\ ClientEntries(c, u) \subseteq ToSet(c.levels[1]) /\ ClientEntries(c, u) # {}
           /\ ~IsAWG(c) /\ pins[u][c.name] \notin ToSet(c.levels[1]) => ClientEntries(c, u) = ToSet(c.levels[1])
<1>1. c.levels[1] \in Seq(Nodes) /\ Len(c.levels[1]) >= 1 /\ 1 \in DOMAIN c.levels
  BY ChainShape
<1>2. c.levels[1][1] \in ToSet(c.levels[1])
  BY <1>1 DEF ToSet
<1>3. /\ ClientEntries(c, u) \subseteq ToSet(c.levels[1]) /\ ClientEntries(c, u) # {}
      /\ ~IsAWG(c) /\ pins[u][c.name] \notin ToSet(c.levels[1]) => ClientEntries(c, u) = ToSet(c.levels[1])
  BY <1>2 DEF ClientEntries
<1>4. ASSUME NEW n \in ToSet(c.levels[1]) PROVE Enter(c, n) = Hop(n, PinInbound(c, n))
  <2>1. IsEntry(c, n) /\ n \in ChainNodes(c)
    BY <1>1, LevelIs DEF IsEntry
  <2>2. Admits(running[n], n, c)
    BY <2>1 DEF Works, CarriesNow, Carries
  <2>3. CASE IsAWG(c)
    BY <2>1, <2>2, <2>3 DEF Admits, Enter, PinInbound, IsAWG
  <2>4. CASE ~IsAWG(c)
    BY <2>1, <2>2, <2>4 DEF Admits, Enter, PinInbound, IsAWG
  <2> QED BY <2>3, <2>4
<1>5. Entered(c, u) = {Hop(n, PinInbound(c, n)) : n \in ClientEntries(c, u)}
  BY <1>3, <1>4 DEF Entered
<1> QED BY <1>3, <1>5

LEMMA LinkAgrees ==
    ASSUME NEW c \in AllChains, NEW n \in ChainNodes(c), HasOutbound(c, n), NEW m \in ToSet(NextNodes(c, n))
    PROVE  LinkCred(c, AllNodes(c)[NodeIndex(c, m) - 1], m) = LinkCred(c, n, m)
<1>1. CASE c.transport # "awg"
  BY <1>1 DEF LinkCred
<1>2. CASE c.transport = "awg"
  <2>1. \A l \in DOMAIN c.levels : Len(c.levels[l]) = 1
    BY <1>2, ChainShape
  <2>2. m \in ChainNodes(c) /\ LevelIndexOf(c, m) = LevelIndexOf(c, n) + 1
    BY NextOf
  <2>3. NodeIndex(c, m) = LevelIndexOf(c, m) /\ n = c.levels[LevelIndexOf(c, n)][1]
    BY <2>1, <2>2, SinglePlaces
  <2>4. LevelIndexOf(c, n) \in DOMAIN c.levels /\ LevelIndexOf(c, n) \in 1..Len(c.levels) /\ Len(c.levels) \in Nat
    BY LevelOf
  <2>5. AllNodes(c)[LevelIndexOf(c, n)] = n
    BY <2>1, <2>3, <2>4, SinglePlaces
  <2>6. NodeIndex(c, m) - 1 = LevelIndexOf(c, n)
    BY <2>2, <2>3, <2>4
  <2> QED BY <2>5, <2>6
<1> QED BY <1>1, <1>2

LEMMA Dialled ==
    ASSUME NEW c \in AllChains, Works(c), NEW n \in ChainNodes(c)
    PROVE  /\ Dial(DirectOut, n) = Egress(n)
           /\ HasOutbound(c, n) => \A m \in ToSet(NextNodes(c, n)) : Dial(HopTo(c, n, m), n) = Hop(m, PinInbound(c, m))
<1>1. Dial(DirectOut, n) = Egress(n)
  BY DEF Dial, DirectOut
<1>2. ASSUME HasOutbound(c, n), NEW m \in ToSet(NextNodes(c, n)) PROVE Dial(HopTo(c, n, m), n) = Hop(m, PinInbound(c, m))
  <2> DEFINE o == HopTo(c, n, m)
             x == [tag |-> TransportIn(c), cred |-> LinkCred(c, n, m)]
             ins == {i \in running[m].ins : i.tag[1] = "transport-in" /\ i.cred = LinkCred(c, n, m)}
  <2>1. m \in ChainNodes(c) /\ LevelIndexOf(c, m) = LevelIndexOf(c, n) + 1
    BY <1>2, NextOf
  <2>2. ~IsEntry(c, m)
    <3>1. LevelIndexOf(c, n) \in 1..Len(c.levels) /\ Len(c.levels) \in Nat
      BY LevelOf
    <3> QED BY <2>1, <3>1 DEF IsEntry
  <2>3. Admits(running[m], m, c)
    BY <2>1 DEF Works, CarriesNow, Carries
  <2>4. RoleInbounds(c, m) = {x}
    BY <1>2, <2>2, LinkAgrees DEF RoleInbounds
  <2>5. {i \in running[m].ins : i.tag[1] = "transport-in"} = {x}
    BY <2>2, <2>3, <2>4 DEF Admits
  <2>6. x.cred = LinkCred(c, n, m) /\ x.tag = TransportIn(c)
    OBVIOUS
  <2> HIDE DEF x
  <2>7. ins = {x}
    BY <2>5, <2>6
  <2>8. (CHOOSE i \in ins : TRUE) = x /\ ins # {}
    <3> HIDE DEF ins
    <3> QED BY <2>7
  <2>9. o.to = m /\ o.cred = LinkCred(c, n, m) /\ o.tag # Direct
    <3>1. o.to = m /\ o.cred = LinkCred(c, n, m) /\ o.tag = TransportOut(c, n, m)
      BY DEF HopTo
    <3>2. TransportOut(c, n, m)[1] = "out" /\ Direct[1] = "direct"
      BY OutTags DEF Direct
    <3> QED BY <3>1, <3>2
  <2> HIDE DEF o
  <2>10. Dial(o, n) = IF ins = {} THEN Refused(m) ELSE Hop(m, (CHOOSE i \in ins : TRUE).tag)
    BY <2>9 DEF Dial
  <2>11. PinInbound(c, m) = TransportIn(c)
    BY <2>2 DEF PinInbound
  <2> HIDE DEF ins
  <2> QED BY <2>6, <2>8, <2>10, <2>11 DEF o
<1> QED BY <1>1, <1>2

OnLevel(c, l) == {Hop(n, PinInbound(c, n)) : n \in ToSet(c.levels[l])}

LEMMA Forwarded ==
    ASSUME NEW c \in AllChains, Works(c), routeDNS \in BOOLEAN, NEW n \in ChainNodes(c), NEW u \in Users, NEW kept \in Survivals
    PROVE  LET F == Forward(Hop(n, PinInbound(c, n)), u, c, kept)
           IN  /\ routeDNS =>
                     F = IF (pins[u][c.name] = n /\ Heeds(c, n, kept)) \/ ~HasOutbound(c, n)
                         THEN {Egress(n)} ELSE OnLevel(c, LevelIndexOf(c, n) + 1)
               /\ ~routeDNS /\ DefaultModeServes(c) =>
                     F \subseteq IF HasOutbound(c, n) THEN OnLevel(c, LevelIndexOf(c, n) + 1) ELSE {Egress(n)}
<1> DEFINE F == Forward(Hop(n, PinInbound(c, n)), u, c, kept)
           R == RoutesOf(running[n], n, c, u, kept)
           H == ToSet(RoleHops(c, n))
           next == OnLevel(c, LevelIndexOf(c, n) + 1)
<1>1. F = {Dial(o, n) : o \in R}
  <2>1. Hop(n, PinInbound(c, n)).end = "hop" /\ Hop(n, PinInbound(c, n)).at = n
        /\ Hop(n, PinInbound(c, n)).in = PinInbound(c, n)
    BY DEF Hop
  <2> QED BY <2>1 DEF Forward, RoutesOf
<1>2. Dial(DirectOut, n) = Egress(n)
  BY Dialled
<1>3. HasOutbound(c, n) => {Dial(o, n) : o \in H} = next
  <2>1. SUFFICES ASSUME HasOutbound(c, n) PROVE {Dial(o, n) : o \in H} = next
    OBVIOUS
  <2>2. \A m \in ToSet(NextNodes(c, n)) : Dial(HopTo(c, n, m), n) = Hop(m, PinInbound(c, m)) /\ HopTo(c, n, m) \in H
    BY <2>1, Dialled, HopsOf DEF Works
  <2>3. \A o \in H : \E m \in ToSet(NextNodes(c, n)) : o = HopTo(c, n, m)
    BY HopsOf
  <2>4. next = {Hop(m, PinInbound(c, m)) : m \in ToSet(NextNodes(c, n))}
    BY DEF OnLevel, NextNodes
  <2> HIDE DEF H, next
  <2> QED BY <2>2, <2>3, <2>4
<1>4. /\ routeDNS => R = Sends(c, n, PinsOf(c), u, kept)
      /\ ~routeDNS /\ Alone(running[n], n, c) => R \subseteq Onward(c, n)
  BY DEF Works, CarriesNow, Carries
<1>5. PinsOf(c)[u] = pins[u][c.name]
  BY DEF PinsOf
<1> HIDE DEF F, R, H, next
<1>6. Onward(c, n) = IF HasOutbound(c, n) THEN H ELSE {DirectOut}
  BY DEF Onward, H
<1>7. ASSUME routeDNS
      PROVE  F = IF (pins[u][c.name] = n /\ Heeds(c, n, kept)) \/ ~HasOutbound(c, n) THEN {Egress(n)} ELSE next
  <2>1. CASE (pins[u][c.name] = n /\ Heeds(c, n, kept)) \/ ~HasOutbound(c, n)
    <3>1. R = {DirectOut}
      BY <1>4, <1>5, <1>6, <1>7, <2>1 DEF Sends
    <3> QED BY <1>1, <1>2, <2>1, <3>1
  <2>2. CASE ~((pins[u][c.name] = n /\ Heeds(c, n, kept)) \/ ~HasOutbound(c, n))
    <3>1. R = H
      BY <1>4, <1>5, <1>6, <1>7, <2>2 DEF Sends
    <3> QED BY <1>1, <1>3, <2>2, <3>1
  <2> QED BY <2>1, <2>2
<1>8. ASSUME ~routeDNS, DefaultModeServes(c) PROVE F \subseteq IF HasOutbound(c, n) THEN next ELSE {Egress(n)}
  <2>1. R \subseteq Onward(c, n)
    <3>1. Alone(running[n], n, c)
      BY <1>8 DEF DefaultModeServes, Alone
    <3> QED BY <1>4, <1>8, <3>1
  <2>2. F \subseteq {Dial(o, n) : o \in Onward(c, n)}
    BY <1>1, <2>1
  <2>3. CASE HasOutbound(c, n)
    <3>1. Onward(c, n) = H
      BY <1>6, <2>3
    <3> QED BY <1>3, <2>2, <2>3, <3>1
  <2>4. CASE ~HasOutbound(c, n)
    <3>1. Onward(c, n) = {DirectOut}
      BY <1>6, <2>4
    <3>2. {Dial(o, n) : o \in Onward(c, n)} = {Egress(n)}
      BY <1>2, <3>1
    <3> QED BY <2>2, <2>4, <3>2
  <2> QED BY <2>3, <2>4
<1> QED BY <1>7, <1>8 DEF F, next

LEMMA Stays ==
    ASSUME NEW n, NEW u, NEW c, NEW kept
    PROVE  Forward(Egress(n), u, c, kept) = {Egress(n)}
BY DEF Forward, Egress

\* The places where a connection of user u may leave.
Exits(c, u) == {Egress(n) : n \in {m \in ChainNodes(c) : pins[u][c.name] = m \/ m \in LastLevel(c)}}

\* A step takes a connection on level l to level l + 1 or out.
LEMMA OneStep ==
    ASSUME NEW c \in AllChains, Works(c), routeDNS \in BOOLEAN, routeDNS \/ DefaultModeServes(c), NEW u \in Users, NEW kept \in Survivals,
           NEW l \in DOMAIN c.levels, NEW p \in OnLevel(c, l)
    PROVE  /\ l + 1 \in DOMAIN c.levels => Forward(p, u, c, kept) \subseteq OnLevel(c, l + 1) \cup Exits(c, u)
           /\ l + 1 \notin DOMAIN c.levels => Forward(p, u, c, kept) \subseteq Exits(c, u)
<1>1. PICK n \in ToSet(c.levels[l]) : p = Hop(n, PinInbound(c, n))
  BY DEF OnLevel
<1>2. n \in ChainNodes(c) /\ LevelIndexOf(c, n) = l
  BY LevelIs
<1>3. DOMAIN c.levels = 1..Len(c.levels) /\ Len(c.levels) \in Nat
  BY ChainShape
<1>4. HasOutbound(c, n) <=> l + 1 \in DOMAIN c.levels
  BY <1>2, <1>3 DEF HasOutbound
<1>5. ~HasOutbound(c, n) => n \in LastLevel(c)
  <2>1. ~HasOutbound(c, n) => l = Len(c.levels)
    BY <1>2, <1>3 DEF HasOutbound
  <2> QED BY <2>1 DEF LastLevel
<1>6. pins[u][c.name] = n \/ n \in LastLevel(c) => Egress(n) \in Exits(c, u)
  BY <1>2 DEF Exits
<1> DEFINE F == Forward(p, u, c, kept)
<1>7. /\ routeDNS =>
            F = IF (pins[u][c.name] = n /\ Heeds(c, n, kept)) \/ ~HasOutbound(c, n)
                THEN {Egress(n)} ELSE OnLevel(c, l + 1)
      /\ ~routeDNS /\ DefaultModeServes(c) =>
            F \subseteq IF HasOutbound(c, n) THEN OnLevel(c, l + 1) ELSE {Egress(n)}
  BY <1>1, <1>2, Forwarded
<1> HIDE DEF F
<1>8. HasOutbound(c, n) => F \subseteq OnLevel(c, l + 1) \cup Exits(c, u)
  BY <1>6, <1>7
<1>9. ~HasOutbound(c, n) => F \subseteq Exits(c, u)
  BY <1>5, <1>6, <1>7
<1> QED BY <1>4, <1>8, <1>9 DEF F

\* Every connection ends at one of the exits.
LEMMA AllServed ==
    ASSUME NEW c \in AllChains, Works(c), routeDNS \in BOOLEAN, routeDNS \/ DefaultModeServes(c), NEW u \in Users, NEW kept \in Survivals
    PROVE  Ends(c, u, kept) \subseteq Exits(c, u)
<1>0. PICK N \in Nat : Cardinality(Nodes) = N /\ Len(c.levels) <= N
  BY LevelsBound
<1>a. PICK f : Walk(f, c, u, kept, N)
  BY <1>0, EndsBySteps
<1>1. /\ f[0] = Entered(c, u) /\ Ends(c, u, kept) = f[N]
      /\ \A k \in 1..N : f[k] = UNION {Forward(p, u, c, kept) : p \in f[k - 1]}
  BY <1>a DEF Walk
<1>2. DOMAIN c.levels = 1..Len(c.levels) /\ Len(c.levels) \in Nat /\ Len(c.levels) >= 1
  BY ChainShape
<1> DEFINE On(k) == IF k + 1 \in DOMAIN c.levels THEN OnLevel(c, k + 1) ELSE {}
           S == {k \in 0..N : f[k] \subseteq On(k) \cup Exits(c, u)}
<1>3. 0 \in S
  <2>1. Entered(c, u) \subseteq OnLevel(c, 1)
    BY EnteredOf DEF OnLevel
  <2>2. 0 + 1 = 1 /\ 1 \in DOMAIN c.levels
    BY <1>2
  <2>3. f[0] \subseteq On(0)
    BY <1>1, <2>1, <2>2
  <2> QED BY <2>3
<1>4. ASSUME NEW k \in 0..N, k < N, k \in S PROVE k + 1 \in S
  <2>1. k + 1 \in 1..N /\ k + 1 \in 0..N /\ (k + 1) - 1 = k
    BY <1>4
  <2>2. f[k + 1] = UNION {Forward(p, u, c, kept) : p \in f[k]}
    BY <1>1, <2>1
  <2>3. ASSUME NEW p \in f[k] PROVE Forward(p, u, c, kept) \subseteq On(k + 1) \cup Exits(c, u)
    <3>1. CASE p \in Exits(c, u)
      BY <3>1, Stays DEF Exits
    <3>2. CASE p \in On(k)
      <4>1. k + 1 \in DOMAIN c.levels /\ p \in OnLevel(c, k + 1)
        BY <3>2
      <4> DEFINE l == k + 1
      <4>2. l \in DOMAIN c.levels /\ p \in OnLevel(c, l)
        BY <4>1
      <4> HIDE DEF l
      <4>3. /\ l + 1 \in DOMAIN c.levels => Forward(p, u, c, kept) \subseteq OnLevel(c, l + 1) \cup Exits(c, u)
            /\ l + 1 \notin DOMAIN c.levels => Forward(p, u, c, kept) \subseteq Exits(c, u)
        BY <4>2, OneStep
      <4> QED BY <4>3 DEF l
    <3> QED BY <1>4, <3>1, <3>2
  <2>4. f[k + 1] \subseteq On(k + 1) \cup Exits(c, u)
    <3> HIDE DEF On
    <3> QED BY <2>2, <2>3
  <2> QED BY <2>1, <2>4
<1>5. N \in S
  <2> HIDE DEF S
  <2>1. \A k \in 0..N : k \in S
    BY <1>3, <1>4, UpTo
  <2> QED BY <2>1
<1>6. On(N) = {}
  BY <1>0, <1>2
<1> QED BY <1>1, <1>5, <1>6

\* Without a pin all nodes of the last level are reached.
LEMMA AllExits ==
    ASSUME NEW c \in AllChains, Works(c), routeDNS = TRUE, NEW u \in Users, NEW kept \in Survivals, pins[u][c.name] = NoNode,
           IsAWG(c) => Len(c.levels) > 1
    PROVE  \A n \in LastLevel(c) : Egress(n) \in Ends(c, u, kept)
<1>0. PICK N \in Nat : Cardinality(Nodes) = N /\ Len(c.levels) <= N
  BY LevelsBound
<1>a. PICK f : Walk(f, c, u, kept, N)
  BY <1>0, EndsBySteps
<1>1. /\ f[0] = Entered(c, u) /\ Ends(c, u, kept) = f[N]
      /\ \A k \in 1..N : f[k] = UNION {Forward(p, u, c, kept) : p \in f[k - 1]}
  BY <1>a DEF Walk
<1>2. DOMAIN c.levels = 1..Len(c.levels) /\ Len(c.levels) \in Nat /\ Len(c.levels) >= 1
      /\ \A l \in DOMAIN c.levels : c.levels[l] \in Seq(Nodes) /\ Len(c.levels[l]) >= 1
  BY ChainShape
<1> DEFINE L == Len(c.levels)
<1> HIDE DEF L
<1>3. L \in 1..N /\ DOMAIN c.levels = 1..L
  BY <1>0, <1>2 DEF L
<1>4. \A n \in ChainNodes(c) : pins[u][c.name] # n
  <2>1. NoNode \notin Nodes
    BY CascadeAssumption
  <2> QED BY <2>1, NodesOfChain
<1>5. ASSUME NEW l \in 1..L, NEW p \in OnLevel(c, l)
      PROVE  /\ l < L => Forward(p, u, c, kept) = OnLevel(c, l + 1)
             /\ l = L => \E n \in ToSet(c.levels[l]) : p = Hop(n, PinInbound(c, n)) /\ Forward(p, u, c, kept) = {Egress(n)}
  <2>1. PICK n \in ToSet(c.levels[l]) : p = Hop(n, PinInbound(c, n))
    BY DEF OnLevel
  <2>2. n \in ChainNodes(c) /\ LevelIndexOf(c, n) = l
    BY <1>3, LevelIs
  <2>3. HasOutbound(c, n) <=> l < L
    BY <2>2 DEF HasOutbound, L
  <2>4. Forward(p, u, c, kept) = IF ~HasOutbound(c, n) THEN {Egress(n)} ELSE OnLevel(c, l + 1)
    BY <1>4, <2>1, <2>2, Forwarded
  <2>5. l = L => ~(l < L)
    BY <1>3
  <2> QED BY <2>1, <2>3, <2>4, <2>5
<1>6. \A l \in 1..L : OnLevel(c, l) # {}
  <2> TAKE l \in 1..L
  <2>1. c.levels[l] \in Seq(Nodes) /\ Len(c.levels[l]) >= 1
    BY <1>2, <1>3
  <2>2. c.levels[l][1] \in ToSet(c.levels[l])
    BY <2>1 DEF ToSet
  <2> QED BY <2>2 DEF OnLevel
<1> DEFINE Full(k) == OnLevel(c, k + 1) \subseteq f[k]
           Some(k) == f[k] \cap OnLevel(c, k + 1) # {}
           Done(k) == \A n \in LastLevel(c) : Egress(n) \in f[k]
           S == {k \in 0..N : /\ k < L => Some(k) /\ (k > 0 \/ ~IsAWG(c) => Full(k))
                              /\ ~(k < L) => Done(k)}
<1>7. 0 \in S
  <2>1. Entered(c, u) = {Hop(n, PinInbound(c, n)) : n \in ClientEntries(c, u)} /\ ClientEntries(c, u) # {}
        /\ ClientEntries(c, u) \subseteq ToSet(c.levels[1])
    BY EnteredOf
  <2>2. f[0] \cap OnLevel(c, 1) # {}
    <3>1. PICK n \in ClientEntries(c, u) : n \in ToSet(c.levels[1])
      BY <2>1
    <3>2. Hop(n, PinInbound(c, n)) \in Entered(c, u)
      BY <2>1
    <3>3. Hop(n, PinInbound(c, n)) \in OnLevel(c, 1)
      BY <3>1 DEF OnLevel
    <3> QED BY <1>1, <3>2, <3>3
  <2>3. ASSUME ~IsAWG(c) PROVE OnLevel(c, 1) \subseteq f[0]
    <3>1. \A n \in ToSet(c.levels[1]) : n \in ChainNodes(c)
      BY <1>2, LevelIs
    <3>2. pins[u][c.name] \notin ToSet(c.levels[1])
      BY <1>4, <3>1
    <3>3. ClientEntries(c, u) = ToSet(c.levels[1])
      BY <2>3, <3>2, EnteredOf
    <3> QED BY <1>1, <2>1, <3>3 DEF OnLevel
  <2>4. 0 + 1 = 1 /\ 0 < L /\ ~(0 > 0) /\ 0 \in 0..N
    BY <1>3
  <2> QED BY <2>2, <2>3, <2>4
<1>8. ASSUME NEW k \in 0..N, k < N, k \in S PROVE k + 1 \in S
  <2>1. k + 1 \in 1..N /\ k + 1 \in 0..N /\ (k + 1) - 1 = k /\ k + 1 > 0
    BY <1>8
  <2>2. f[k + 1] = UNION {Forward(p, u, c, kept) : p \in f[k]}
    BY <1>1, <2>1
  <2>3. CASE k + 1 < L
    <3>1. PICK p \in f[k] : p \in OnLevel(c, k + 1)
      BY <1>3, <1>8, <2>3
    <3> DEFINE l == k + 1
    <3>2. l \in 1..L /\ l < L /\ p \in OnLevel(c, l) /\ l + 1 \in 1..L
      BY <1>3, <2>3, <3>1
    <3> HIDE DEF l
    <3>3. Forward(p, u, c, kept) = OnLevel(c, l + 1)
      BY <1>5, <3>2
    <3>4. OnLevel(c, l + 1) # {}
      BY <1>6, <3>2
    <3>5. OnLevel(c, l + 1) \subseteq f[k + 1] /\ f[k + 1] \cap OnLevel(c, l + 1) # {}
      BY <2>2, <3>1, <3>3, <3>4
    <3> QED BY <2>1, <2>3, <3>5 DEF l
  <2>4. CASE k + 1 = L
    <3>1. OnLevel(c, L) \subseteq f[k]
      <4>1. k < L
        BY <1>3, <2>4
      <4>2. k > 0 \/ ~IsAWG(c)
        BY <1>3, <2>4 DEF L
      <4> QED BY <1>8, <2>4, <4>1, <4>2
    <3>2. ASSUME NEW n \in LastLevel(c) PROVE Egress(n) \in f[k + 1]
      <4> DEFINE p == Hop(n, PinInbound(c, n))
      <4>1. n \in ToSet(c.levels[L]) /\ L \in 1..L
        BY <1>3 DEF LastLevel, L
      <4>2. p \in OnLevel(c, L)
        BY <4>1 DEF OnLevel
      <4>3. PICK m \in ToSet(c.levels[L]) : p = Hop(m, PinInbound(c, m)) /\ Forward(p, u, c, kept) = {Egress(m)}
        <5> HIDE DEF p
        <5> QED BY <1>5, <4>1, <4>2
      <4>4. n = m
        BY <4>3 DEF Hop
      <4>5. Egress(n) \in Forward(p, u, c, kept)
        <5> HIDE DEF p
        <5> QED BY <4>3, <4>4
      <4> HIDE DEF p
      <4> QED BY <2>2, <3>1, <4>2, <4>5
    <3>3. ~(k + 1 < L)
      BY <1>3, <2>4
    <3> QED BY <2>1, <3>2, <3>3
  <2>5. CASE ~(k + 1 < L) /\ k + 1 # L
    <3>1. ~(k < L)
      BY <1>3, <2>5
    <3>2. \A n \in LastLevel(c) : Egress(n) \in f[k]
      BY <1>8, <3>1
    <3>3. \A n \in LastLevel(c) : Egress(n) \in f[k + 1]
      BY <2>2, <3>2, Stays
    <3> QED BY <2>1, <2>5, <3>3
  <2> QED BY <2>3, <2>4, <2>5
<1>9. N \in S
  <2> HIDE DEF S
  <2>1. \A k \in 0..N : k \in S
    BY <1>7, <1>8, UpTo
  <2> QED BY <2>1
<1>10. ~(N < L)
  BY <1>3
<1> QED BY <1>1, <1>9, <1>10

\* With one node per level, a pinned user of an AWG chain leaves at the node of
\* the pin, or at the last one if the pin has no effect.
LEMMA PinnedExit ==
    ASSUME NEW c \in AllChains, Works(c), routeDNS = TRUE, NEW u \in Users, NEW kept \in Survivals, IsAWG(c),
           \A l \in DOMAIN c.levels : Len(c.levels[l]) = 1, pins[u][c.name] \in ChainNodes(c)
    PROVE  Ends(c, u, kept) = IF PinInbound(c, pins[u][c.name])[1] \in kept THEN {Egress(pins[u][c.name])}
                              ELSE {Egress(c.levels[Len(c.levels)][1])}
<1>0. PICK N \in Nat : Cardinality(Nodes) = N /\ Len(c.levels) <= N
  BY LevelsBound
<1>w. PICK f : Walk(f, c, u, kept, N)
  BY <1>0, EndsBySteps
<1>1. /\ f[0] = Entered(c, u) /\ Ends(c, u, kept) = f[N]
      /\ \A k \in 1..N : f[k] = UNION {Forward(p, u, c, kept) : p \in f[k - 1]}
  BY <1>w DEF Walk
<1> DEFINE pin == pins[u][c.name]
           heeded == PinInbound(c, pin)[1] \in kept
           P == IF heeded THEN pin ELSE c.levels[Len(c.levels)][1]
           q == LevelIndexOf(c, P)
<1>2. P \in ChainNodes(c) /\ q \in DOMAIN c.levels /\ q \in 1..Len(c.levels) /\ P \in ToSet(c.levels[q])
      /\ DOMAIN c.levels = 1..Len(c.levels) /\ Len(c.levels) \in Nat
  <2>1. DOMAIN c.levels = 1..Len(c.levels) /\ Len(c.levels) \in Nat /\ Len(c.levels) >= 1
    BY ChainShape
  <2>2. \A l \in DOMAIN c.levels : ToSet(c.levels[l]) = {c.levels[l][1]}
    BY SinglePlaces
  <2>3. P \in ChainNodes(c)
    <3>1. Len(c.levels) \in DOMAIN c.levels
      BY <2>1
    <3>2. c.levels[Len(c.levels)][1] \in ToSet(c.levels[Len(c.levels)])
      BY <2>2, <3>1
    <3>3. c.levels[Len(c.levels)][1] \in ChainNodes(c)
      BY <3>1, <3>2, LevelIs
    <3> QED BY <3>3
  <2> HIDE DEF P
  <2> QED BY <2>1, <2>3, LevelOf
<1>3. \A l \in DOMAIN c.levels : ToSet(c.levels[l]) = {c.levels[l][1]}
  BY SinglePlaces
<1>a. ~heeded => q = Len(c.levels)
  <2> SUFFICES ASSUME ~heeded PROVE q = Len(c.levels)
    OBVIOUS
  <2>1. P = c.levels[Len(c.levels)][1] /\ Len(c.levels) \in DOMAIN c.levels
    BY <1>2
  <2>2. P \in ToSet(c.levels[Len(c.levels)])
    BY <1>3, <2>1
  <2> HIDE DEF P
  <2> QED BY <2>1, <2>2, LevelIs
<1>b. \A n \in ChainNodes(c) : pin = n /\ Heeds(c, n, kept) <=> heeded /\ P = n
  BY DEF Heeds
<1> DEFINE at(l) == Hop(c.levels[l][1], PinInbound(c, c.levels[l][1]))
<1>4. \A l \in DOMAIN c.levels : OnLevel(c, l) = {at(l)}
  BY <1>3 DEF OnLevel
<1>c. heeded \in BOOLEAN
  OBVIOUS
<1> HIDE DEF P, at, heeded, pin
<1>5. ASSUME NEW l \in DOMAIN c.levels
      PROVE  /\ l < q => l + 1 \in DOMAIN c.levels /\ Forward(at(l), u, c, kept) = OnLevel(c, l + 1)
             /\ l = q => Forward(at(l), u, c, kept) = {Egress(P)}
  <2> DEFINE n == c.levels[l][1]
  <2>1. n \in ToSet(c.levels[l])
    BY <1>3
  <2>2. n \in ChainNodes(c) /\ LevelIndexOf(c, n) = l
    BY <2>1, LevelIs
  <2>3. Forward(at(l), u, c, kept)
          = IF (heeded /\ P = n) \/ ~HasOutbound(c, n) THEN {Egress(n)} ELSE OnLevel(c, l + 1)
    <3> HIDE DEF n
    <3>1. at(l) = Hop(n, PinInbound(c, n))
      BY DEF at, n
    <3>2. Forward(at(l), u, c, kept)
            = IF (pin = n /\ Heeds(c, n, kept)) \/ ~HasOutbound(c, n) THEN {Egress(n)} ELSE OnLevel(c, l + 1)
      BY <2>2, <3>1, Forwarded DEF pin
    <3> QED BY <1>b, <2>2, <3>2
  <2>4. l < q => P # n
    BY <1>2, <2>2
  <2>5. l < q => HasOutbound(c, n) /\ l + 1 \in DOMAIN c.levels
    BY <1>2, <2>2 DEF HasOutbound
  <2>6. l = q => P = n /\ (heeded \/ ~HasOutbound(c, n))
    <3>1. l = q => P = n
      BY <1>2, <1>3
    <3>2. l = Len(c.levels) => ~HasOutbound(c, n)
      BY <1>2, <2>2 DEF HasOutbound
    <3> HIDE DEF q, n
    <3> QED BY <1>a, <3>1, <3>2
  <2> HIDE DEF n, q
  <2> QED BY <2>3, <2>4, <2>5, <2>6
<1> HIDE DEF q
<1> DEFINE S == {k \in 0..N : (k < q => f[k] = OnLevel(c, k + 1)) /\ (~(k < q) => f[k] = {Egress(P)})}
<1>6. 0 \in S
  <2>1. Entered(c, u) = {Hop(n, PinInbound(c, n)) : n \in ClientEntries(c, u)} /\ ClientEntries(c, u) # {}
        /\ ClientEntries(c, u) \subseteq ToSet(c.levels[1])
    BY EnteredOf
  <2>2. 1 \in DOMAIN c.levels /\ 0 < q /\ 0 + 1 = 1 /\ 0 \in 0..N
    BY <1>2
  <2>3. ClientEntries(c, u) = ToSet(c.levels[1])
    BY <1>3, <2>1, <2>2
  <2>4. f[0] = OnLevel(c, 1)
    BY <1>1, <2>1, <2>3 DEF OnLevel
  <2> QED BY <2>2, <2>4
<1>7. ASSUME NEW k \in 0..N, k < N, k \in S PROVE k + 1 \in S
  <2>1. k + 1 \in 1..N /\ k + 1 \in 0..N /\ (k + 1) - 1 = k
    BY <1>7
  <2>2. f[k + 1] = UNION {Forward(p, u, c, kept) : p \in f[k]}
    BY <1>1, <2>1
  <2>3. CASE k < q
    <3> DEFINE l == k + 1
    <3>1. l \in DOMAIN c.levels
      BY <1>2, <2>3
    <3>2. f[k] = {at(l)}
      BY <1>4, <1>7, <2>3, <3>1
    <3>3. f[k + 1] = Forward(at(l), u, c, kept)
      BY <2>2, <3>2
    <3>4. l < q \/ l = q
      BY <1>2, <2>3
    <3>5. CASE l < q
      <4>1. f[k + 1] = OnLevel(c, l + 1)
        BY <1>5, <3>1, <3>3, <3>5
      <4> QED BY <2>1, <3>5, <4>1
    <3>6. CASE l = q
      <4>1. f[k + 1] = {Egress(P)}
        BY <1>5, <3>1, <3>3, <3>6
      <4>2. ~(k + 1 < q)
        BY <1>2, <3>6
      <4> QED BY <2>1, <4>1, <4>2
    <3> QED BY <3>4, <3>5, <3>6
  <2>4. CASE ~(k < q)
    <3>1. f[k] = {Egress(P)}
      BY <1>7, <2>4
    <3>2. f[k + 1] = {Egress(P)}
      BY <2>2, <3>1, Stays
    <3>3. ~(k + 1 < q)
      BY <1>2, <2>4
    <3> QED BY <2>1, <3>2, <3>3
  <2> QED BY <2>3, <2>4
<1>8. N \in S
  <2> HIDE DEF S
  <2>1. \A k \in 0..N : k \in S
    BY <1>6, <1>7, UpTo
  <2> QED BY <2>1
<1>9. ~(N < q)
  BY <1>0, <1>2
<1>10. Ends(c, u, kept) = {Egress(P)}
  BY <1>1, <1>8, <1>9
<1> QED BY <1>10 DEF P, heeded, pin

LEMMA ExitsAt ==
    ASSUME NEW n
    PROVE  Egress(n).end = "egress" /\ Egress(n).at = n
BY DEF Egress

LEMMA GoodWorks ==
    ASSUME StateShapes, GInv, NEW c \in GoodChains
    PROVE  c \in AllChains /\ Works(c)
<1>1. c \in ToSet(chains) /\ c \in GoodStored /\ \A n \in ChainNodes(c) : ~Bare(n)
  BY DEF GoodChains, GoodStored
<1>2. c \in AllChains
  BY <1>1 DEF StateShapes, ToSet
<1> QED BY <1>1, <1>2 DEF GInv, GoodCarried, Works

LEMMA GoodDelivered ==
    ASSUME StateShapes, GInv
    PROVE  Delivered /\ PinHonoured
<1>0. routeDNS \in BOOLEAN
  BY DEF StateShapes
<1>1. ASSUME NEW c \in GoodChains, routeDNS \/ DefaultModeServes(c), NEW u \in Users, NEW kept \in Survivals
      PROVE  /\ Served(c, u, kept)
             /\ pins[u][c.name] = NoNode =>
                   /\ EgressAt(c, u, kept) \subseteq LastLevel(c)
                   /\ routeDNS /\ (IsAWG(c) => Len(c.levels) > 1) => EgressAt(c, u, kept) = LastLevel(c)
  <2>1. c \in AllChains /\ Works(c)
    BY GoodWorks
  <2>2. Ends(c, u, kept) \subseteq Exits(c, u)
    BY <1>0, <1>1, <2>1, AllServed
  <2>3. \A e \in Ends(c, u, kept) : \E n \in ChainNodes(c) : e = Egress(n) /\ (pins[u][c.name] = n \/ n \in LastLevel(c))
    BY <2>2 DEF Exits
  <2>4. Served(c, u, kept)
    BY <2>3, ExitsAt DEF Served
  <2>5. ASSUME pins[u][c.name] = NoNode PROVE EgressAt(c, u, kept) \subseteq LastLevel(c)
    <3>1. NoNode \notin Nodes /\ ChainNodes(c) \subseteq Nodes
      BY <2>1, CascadeAssumption, NodesOfChain
    <3>2. \A e \in Ends(c, u, kept) : e.at \in LastLevel(c)
      BY <2>3, <2>5, <3>1, ExitsAt
    <3> QED BY <3>2 DEF EgressAt
  <2>6. ASSUME pins[u][c.name] = NoNode, routeDNS, IsAWG(c) => Len(c.levels) > 1 PROVE LastLevel(c) \subseteq EgressAt(c, u, kept)
    <3>1. \A n \in LastLevel(c) : Egress(n) \in Ends(c, u, kept)
      BY <1>0, <2>1, <2>6, AllExits
    <3>2. \A n \in LastLevel(c) : Egress(n).end = "egress" /\ Egress(n).at = n
      BY ExitsAt
    <3> QED BY <3>1, <3>2 DEF EgressAt
  <2> QED BY <2>4, <2>5, <2>6
<1>2. Delivered
  BY <1>1 DEF Delivered
<1>3. ASSUME NEW c \in GoodChains, routeDNS, c.proto = "awg", \A l \in DOMAIN c.levels : Len(c.levels[l]) = 1,
             NEW u \in Users, NEW kept \in Survivals, NEW pin, pin = pins[u][c.name], pin \in ChainNodes(c)
      PROVE  EgressAt(c, u, kept) = IF PinInbound(c, pin)[1] \in kept THEN {pin} ELSE LastLevel(c)
  <2>1. c \in AllChains /\ Works(c)
    BY GoodWorks
  <2> DEFINE last == c.levels[Len(c.levels)][1]
             out == IF PinInbound(c, pin)[1] \in kept THEN pin ELSE last
  <2>2. Ends(c, u, kept) = {Egress(out)}
    BY <1>0, <1>3, <2>1, PinnedExit DEF IsAWG
  <2>3. LastLevel(c) = {last}
    <3>1. Len(c.levels) \in DOMAIN c.levels
      BY <2>1, ChainShape
    <3> QED BY <1>3, <2>1, <3>1, SinglePlaces DEF LastLevel
  <2> HIDE DEF last
  <2>4. {x \in Ends(c, u, kept) : x.end = "egress"} = {Egress(out)}
    BY <2>2, ExitsAt
  <2>5. EgressAt(c, u, kept) = {out}
    BY <2>4, ExitsAt DEF EgressAt
  <2> QED BY <2>3, <2>5
<1>4. PinHonoured
  BY <1>3 DEF PinHonoured
<1> QED BY <1>2, <1>4

-----------------------------------------------------------------------------
(* The store and the keys *)

LEMMA StoredIs ==
    ASSUME StateShapes, NEW x, Index(x) # {}
    PROVE  /\ Stored(x) \in ToSet(chains) /\ Stored(x).name = x /\ Stored(x) \in AllChains
           /\ \A d \in ToSet(chains) : d.name = x => d = Stored(x)
<1>1. chains \in Seq(AllChains) /\ NamesUnique
  BY DEF StateShapes
<1> DEFINE k == CHOOSE i \in Index(x) : TRUE
<1>2. k \in Index(x) /\ Stored(x) = chains[k]
  BY DEF Stored
<1> HIDE DEF k
<1>3. k \in DOMAIN chains /\ chains[k].name = x
  BY <1>2 DEF Index
<1>4. Stored(x) \in ToSet(chains) /\ Stored(x) \in AllChains
  BY <1>1, <1>2, <1>3 DEF ToSet
<1>5. ASSUME NEW d \in ToSet(chains), d.name = x PROVE d = Stored(x)
  <2>1. PICK y \in DOMAIN chains : d = chains[y]
    BY DEF ToSet
  <2>2. y = k
    BY <1>1, <1>3, <1>5, <2>1 DEF NamesUnique
  <2> QED BY <1>2, <2>1, <2>2
<1> QED BY <1>2, <1>3, <1>4, <1>5

LEMMA SameName ==
    ASSUME StateShapes, NEW c \in ToSet(chains), NEW d \in ToSet(chains), c.name = d.name
    PROVE  c = d
BY DEF StateShapes, NamesUnique, ToSet

\* Saving a chain replaces the one of its name.
LEMMA PutIs ==
    ASSUME StateShapes, NEW c \in AllChains, Put(c)
    PROVE  /\ chains' \in Seq(AllChains) /\ NamesUnique'
           /\ \A d : d \in ToSet(chains)' <=> d = c \/ (d \in ToSet(chains) /\ d.name # c.name)
<1>1. chains \in Seq(AllChains) /\ NamesUnique /\ DOMAIN chains = 1..Len(chains) /\ Len(chains) \in Nat
  BY DEF StateShapes
<1>2. CASE Index(c.name) = {}
  <2>1. chains' = Append(chains, c)
    BY <1>2 DEF Put
  <2>2. /\ chains' \in Seq(AllChains) /\ DOMAIN chains' = 1..(Len(chains) + 1)
        /\ chains'[Len(chains) + 1] = c /\ \A x \in 1..Len(chains) : chains'[x] = chains[x]
    BY <1>1, <2>1
  <2>3. \A x \in 1..(Len(chains) + 1) : x \in 1..Len(chains) \/ x = Len(chains) + 1
    BY <1>1
  <2>4. \A x \in 1..Len(chains) : chains[x].name # c.name /\ x \in 1..(Len(chains) + 1)
    BY <1>1, <1>2 DEF Index
  <2>5. NamesUnique'
    <3> SUFFICES ASSUME NEW x \in DOMAIN chains', NEW y \in DOMAIN chains', chains'[x].name = chains'[y].name PROVE x = y
      BY DEF NamesUnique
    <3>1. CASE x \in 1..Len(chains) /\ y \in 1..Len(chains)
      BY <1>1, <2>2, <3>1 DEF NamesUnique
    <3>2. CASE ~(x \in 1..Len(chains) /\ y \in 1..Len(chains))
      BY <2>2, <2>3, <2>4, <3>2
    <3> QED BY <3>1, <3>2
  <2>6. ASSUME NEW d PROVE d \in ToSet(chains)' <=> d = c \/ (d \in ToSet(chains) /\ d.name # c.name)
    <3>1. d \in ToSet(chains)' <=> \E x \in 1..(Len(chains) + 1) : d = chains'[x]
      BY <2>2 DEF ToSet
    <3>2. d \in ToSet(chains) <=> \E x \in 1..Len(chains) : d = chains[x]
      BY <1>1 DEF ToSet
    <3>3. Len(chains) + 1 \in 1..(Len(chains) + 1)
      BY <1>1
    <3>4. ASSUME NEW x \in 1..(Len(chains) + 1), d = chains'[x] PROVE d = c \/ (d \in ToSet(chains) /\ d.name # c.name)
      BY <2>2, <2>3, <2>4, <3>2, <3>4
    <3>5. ASSUME NEW x \in 1..Len(chains), d = chains[x] PROVE d \in ToSet(chains)'
      BY <2>2, <2>4, <3>1, <3>5
    <3> QED BY <2>2, <3>1, <3>2, <3>3, <3>4, <3>5
  <2> QED BY <2>2, <2>5, <2>6
<1>3. CASE Index(c.name) # {}
  <2> DEFINE k == CHOOSE i \in Index(c.name) : TRUE
  <2>1. chains' = [chains EXCEPT ![k] = c] /\ k \in Index(c.name)
    BY <1>3 DEF Put
  <2> HIDE DEF k
  <2>2. k \in DOMAIN chains /\ chains[k].name = c.name
    BY <2>1 DEF Index
  <2>3. /\ chains' \in Seq(AllChains) /\ DOMAIN chains' = DOMAIN chains
        /\ chains'[k] = c /\ \A x \in DOMAIN chains : x # k => chains'[x] = chains[x]
    BY <1>1, <2>1, <2>2
  <2>4. \A x \in DOMAIN chains : x # k => chains[x].name # c.name
    BY <1>1, <2>2 DEF NamesUnique
  <2>5. NamesUnique'
    <3> SUFFICES ASSUME NEW x \in DOMAIN chains, NEW y \in DOMAIN chains, chains'[x].name = chains'[y].name PROVE x = y
      BY <2>3 DEF NamesUnique
    <3>1. CASE x # k /\ y # k
      BY <1>1, <2>3, <3>1 DEF NamesUnique
    <3>2. CASE ~(x # k /\ y # k)
      BY <2>3, <2>4, <3>2
    <3> QED BY <3>1, <3>2
  <2>6. ASSUME NEW d PROVE d \in ToSet(chains)' <=> d = c \/ (d \in ToSet(chains) /\ d.name # c.name)
    <3>1. d \in ToSet(chains)' <=> \E x \in DOMAIN chains : d = chains'[x]
      BY <2>3 DEF ToSet
    <3>2. d \in ToSet(chains) <=> \E x \in DOMAIN chains : d = chains[x]
      BY DEF ToSet
    <3>3. ASSUME NEW x \in DOMAIN chains, d = chains'[x] PROVE d = c \/ (d \in ToSet(chains) /\ d.name # c.name)
      BY <2>3, <2>4, <3>2, <3>3
    <3>4. ASSUME NEW x \in DOMAIN chains, d = chains[x], d.name # c.name PROVE d \in ToSet(chains)'
      BY <2>2, <2>3, <3>1, <3>4
    <3> QED BY <2>2, <2>3, <3>1, <3>2, <3>3, <3>4
  <2> QED BY <2>3, <2>5, <2>6
<1> QED BY <1>2, <1>3

LEMMA NoKeyIs ==
    NoKey \in Keys /\ NoKey.tr = 0 /\ NoKey.srv = 0 /\ NoKey.cli = 0
BY DEF NoKey, Keys

\* A saved form is a chain.
LEMMA FromFormIs ==
    ASSUME StateShapes, NEW f \in Forms
    PROVE  /\ FromForm(f) \in AllChains /\ FromForm(f).name = f.name /\ f.name \in Names
<1> DEFINE K == FormKey(f)
           c == FromForm(f)
<1>1. Index(f.name) # {} => Stored(f.name) \in AllChains /\ Stored(f.name) \in ToSet(chains)
        /\ \A d \in ToSet(chains) : d.name = f.name => d = Stored(f.name)
  BY StoredIs
<1>2. \A n \in Nodes : K[n] = IF Index(f.name) # {} /\ n \in ChainNodes(f) \cap ChainNodes(Stored(f.name))
                              THEN Stored(f.name).key[n] ELSE NoKey
  BY DEF FormKey
<1>3. K \in [Nodes -> Keys]
  <2>1. \A n \in Nodes : K[n] \in Keys
    BY <1>1, <1>2, ChainShape, NoKeyIs
  <2>2. K = [n \in Nodes |-> K[n]]
    BY DEF FormKey
  <2> HIDE DEF K
  <2> QED BY <2>1, <2>2
<1> HIDE DEF K
<1>4. c = ChainOf(f, K)
  BY DEF FromForm, ChainOf, K
<1>5. c \in AllChains
  BY <1>3, <1>4 DEF AllChains
<1>6. c.name = f.name /\ c.levels = f.levels /\ c.key = K
  BY <1>4 DEF ChainOf
<1> HIDE DEF c
<1>8. f.name \in Names
  BY DEF Names
<1> QED BY <1>5, <1>6, <1>8 DEF c

SameShape(c, d) ==
    /\ c.name = d.name /\ c.proto = d.proto /\ c.transport = d.transport /\ c.port = d.port /\ c.levels = d.levels

\* ApplyChain makes the keys that are missing and keeps the others.
LEMMA WithKeysIs ==
    ASSUME NEW c \in AllChains, NEW g \in Nat, g # 0
    PROVE  /\ WithKeys(c, g) \in AllChains /\ SameShape(c, WithKeys(c, g))
           /\ Keyed(WithKeys(c, g))
           /\ Keyed(c) => WithKeys(c, g) = c
<1> DEFINE fill(k) == IF k = 0 THEN g ELSE k
           key(n) == [tr  |-> fill(c.key[n].tr),
                      srv |-> IF c.transport = "awg" /\ NodeIndex(c, n) > 1 THEN fill(c.key[n].srv) ELSE c.key[n].srv,
                      cli |-> IF c.transport = "awg" /\ NodeIndex(c, n) < Len(AllNodes(c)) THEN fill(c.key[n].cli) ELSE c.key[n].cli]
           K == [n \in Nodes |-> IF n \in ChainNodes(c) THEN key(n) ELSE c.key[n]]
           d == WithKeys(c, g)
<1>0. c.key \in [Nodes -> Keys] /\ DOMAIN c = {"name", "proto", "transport", "port", "levels", "key"}
      /\ ChainNodes(c) \subseteq Nodes
  BY ChainShape, NodesOfChain
<1>1. d = [c EXCEPT !.key = K]
  BY Zenon DEF WithKeys
<1>2. \A n \in Nodes : c.key[n] \in Keys /\ c.key[n].tr \in Nat /\ c.key[n].srv \in Nat /\ c.key[n].cli \in Nat
  <2>1. \A n \in Nodes : c.key[n] \in Keys
    BY <1>0
  <2> QED BY <2>1 DEF Keys
<1>3. ASSUME NEW n \in Nodes PROVE key(n) \in Keys
  BY <1>2 DEF Keys
<1>4. ASSUME NEW n \in Nodes
      PROVE  /\ key(n).tr # 0
             /\ c.transport = "awg" /\ NodeIndex(c, n) > 1 => key(n).srv # 0
             /\ c.transport = "awg" /\ NodeIndex(c, n) < Len(AllNodes(c)) => key(n).cli # 0
  BY <1>2
<1>5. ASSUME NEW n \in Nodes, c.key[n].tr # 0,
             c.transport = "awg" /\ NodeIndex(c, n) > 1 => c.key[n].srv # 0,
             c.transport = "awg" /\ NodeIndex(c, n) < Len(AllNodes(c)) => c.key[n].cli # 0
      PROVE  key(n) = c.key[n]
  <2>1. key(n).tr = c.key[n].tr /\ key(n).srv = c.key[n].srv /\ key(n).cli = c.key[n].cli
    BY <1>2, <1>5
  <2>2. key(n) \in Keys /\ c.key[n] \in Keys
    BY <1>2, <1>3
  <2>3. \A x, y \in Keys : x.tr = y.tr /\ x.srv = y.srv /\ x.cli = y.cli => x = y
    BY DEF Keys
  <2> HIDE DEF key
  <2> QED BY <2>1, <2>2, <2>3
<1> HIDE DEF key
<1>6. K \in [Nodes -> Keys] /\ \A n \in Nodes : K[n] = IF n \in ChainNodes(c) THEN key(n) ELSE c.key[n]
  BY <1>2, <1>3
<1> HIDE DEF K, d
<1>7. /\ d.name = c.name /\ d.proto = c.proto /\ d.transport = c.transport /\ d.port = c.port /\ d.levels = c.levels
      /\ d.key = K
  BY <1>0, <1>1
<1>8. d \in AllChains
  <2>1. PICK f \in Forms, k \in [Nodes -> Keys] : c = ChainOf(f, k)
    BY DEF AllChains
  <2>2. d = ChainOf(f, K)
    BY <1>1, <2>1 DEF ChainOf
  <2> QED BY <1>6, <2>2 DEF AllChains
<1>9. SameShape(c, d)
  BY <1>7 DEF SameShape
<1>10. AllNodes(d) = AllNodes(c) /\ ChainNodes(d) = ChainNodes(c) /\ \A n : NodeIndex(d, n) = NodeIndex(c, n)
  <2>1. AllNodes(d) = AllNodes(c)
    BY <1>7 DEF AllNodes
  <2> QED BY <2>1 DEF ChainNodes, NodeIndex
<1>11. \A n \in ChainNodes(c) : n \in Nodes /\ d.key[n] = key(n)
  BY <1>0, <1>6, <1>7
<1>12. Keyed(d)
  <2> SUFFICES ASSUME NEW n \in ChainNodes(c)
               PROVE  /\ d.key[n].tr # 0
                      /\ d.transport = "awg" /\ NodeIndex(d, n) > 1 => d.key[n].srv # 0
                      /\ d.transport = "awg" /\ NodeIndex(d, n) < Len(AllNodes(d)) => d.key[n].cli # 0
    BY <1>10 DEF Keyed
  <2> QED BY <1>4, <1>7, <1>10, <1>11
<1>14. ASSUME Keyed(c) PROVE d = c
  <2>1. \A n \in ChainNodes(c) : key(n) = c.key[n]
    BY <1>5, <1>11, <1>14 DEF Keyed
  <2>2. \A n \in Nodes : K[n] = c.key[n]
    BY <1>6, <2>1
  <2>3. K = c.key
    BY <1>0, <1>6, <2>2
  <2>4. PICK f \in Forms, k \in [Nodes -> Keys] : c = ChainOf(f, k)
    BY DEF AllChains
  <2>5. d = ChainOf(f, K) /\ c.key = k
    BY <1>1, <2>4 DEF ChainOf
  <2> QED BY <2>3, <2>4, <2>5
<1> QED BY <1>8, <1>9, <1>12, <1>14 DEF d

-----------------------------------------------------------------------------
(* KInv is inductive *)

\* No two deploys are under way at the same time.
OneDeploy == \A i, j \in Jobs : jobs[i].step # "idle" /\ jobs[j].step # "idle" => i = j

\* A step of deploy j finds and leaves the others idle.
OthersIdle(j) == \A i \in Jobs : i # j => jobs'[i] = Idle

LEMMA IdleIs ==
    Idle.step = "idle"
BY DEF Idle

\* What an edit does to the deploys in progress.
LEMMA Touched ==
    ASSUME StateShapes, NEW x, Touch(x)
    PROVE  /\ DOMAIN jobs' = Jobs /\ \A j \in Jobs : JobShape(j)'
           /\ \A j \in Jobs :
                 \/ jobs'[j] = jobs[j] /\ ~(Applying(j) /\ jobs[j].chain.name = x)
                 \/ /\ Applying(j) /\ jobs[j].chain.name = x /\ jobs'[j].clean = FALSE /\ jobs'[j].step = jobs[j].step
                    /\ jobs'[j].chain = jobs[j].chain /\ jobs'[j].hop = jobs[j].hop /\ jobs'[j].ok = jobs[j].ok
                    /\ jobs'[j].cfg = jobs[j].cfg
<1>1. jobs' = [j \in Jobs |-> IF Applying(j) /\ jobs[j].chain.name = x THEN [jobs[j] EXCEPT !.clean = FALSE] ELSE jobs[j]]
  BY DEF Touch
<1>2. ASSUME NEW j \in Jobs
      PROVE  /\ \/ jobs'[j] = jobs[j] /\ ~(Applying(j) /\ jobs[j].chain.name = x)
                \/ /\ Applying(j) /\ jobs[j].chain.name = x /\ jobs'[j].clean = FALSE /\ jobs'[j].step = jobs[j].step
                   /\ jobs'[j].chain = jobs[j].chain /\ jobs'[j].hop = jobs[j].hop /\ jobs'[j].ok = jobs[j].ok
                   /\ jobs'[j].cfg = jobs[j].cfg
             /\ JobShape(j)'
  <2>0. JobShape(j)
    BY DEF StateShapes
  <2>1. CASE Applying(j) /\ jobs[j].chain.name = x
    <3>1. jobs'[j] = [jobs[j] EXCEPT !.clean = FALSE]
      BY <1>1, <2>1
    <3>2. /\ DOMAIN jobs[j] = ApplyFields /\ jobs[j].chain \in AllChains /\ jobs[j].ok \in BOOLEAN
          /\ jobs[j].hop \in 1..Len(AllNodes(jobs[j].chain))
      <4>1. jobs[j] # Idle /\ jobs[j].step # "connect" /\ jobs[j].step \notin {"installnode", "pushnode"}
        BY <2>1, IdleIs DEF Applying
      <4> QED BY <2>0, <4>1 DEF JobShape
    <3>3. /\ jobs'[j].clean = FALSE /\ jobs'[j].step = jobs[j].step
          /\ jobs'[j].chain = jobs[j].chain /\ jobs'[j].hop = jobs[j].hop /\ jobs'[j].ok = jobs[j].ok
          /\ jobs'[j].cfg = jobs[j].cfg /\ DOMAIN jobs'[j] = ApplyFields
      BY <3>1, <3>2 DEF ApplyFields
    <3>4. JobShape(j)'
      BY <2>1, <3>2, <3>3 DEF JobShape, Applying
    <3> QED BY <2>1, <3>3, <3>4
  <2>2. CASE ~(Applying(j) /\ jobs[j].chain.name = x)
    <3>1. jobs'[j] = jobs[j]
      BY <1>1, <2>2
    <3>2. JobShape(j)'
      BY <2>0, <3>1 DEF JobShape, Applying
    <3> QED BY <2>2, <3>1, <3>2
  <2> QED BY <2>1, <2>2
<1>3. DOMAIN jobs' = Jobs
  BY <1>1
<1> QED BY <1>2, <1>3

\* The record of a deploy that applies a chain.
LEMMA ApplyingIs ==
    ASSUME StateShapes, NEW j \in Jobs, Applying(j)
    PROVE  /\ DOMAIN jobs[j] = ApplyFields /\ jobs[j].chain \in AllChains
           /\ jobs[j].clean \in BOOLEAN /\ jobs[j].ok \in BOOLEAN
           /\ jobs[j].hop \in 1..Len(AllNodes(jobs[j].chain)) /\ Len(AllNodes(jobs[j].chain)) \in Nat
           /\ HopNode(j) \in ChainNodes(jobs[j].chain) /\ HopNode(j) \in Nodes
<1>0. JobShape(j)
  BY DEF StateShapes
<1>1. jobs[j] # Idle /\ jobs[j].step # "connect" /\ jobs[j].step \notin {"installnode", "pushnode"}
  BY IdleIs DEF Applying
<1>2. /\ DOMAIN jobs[j] = ApplyFields /\ jobs[j].chain \in AllChains
      /\ jobs[j].clean \in BOOLEAN /\ jobs[j].ok \in BOOLEAN
      /\ jobs[j].hop \in 1..Len(AllNodes(jobs[j].chain))
  BY <1>0, <1>1 DEF JobShape
<1>3. Len(AllNodes(jobs[j].chain)) \in Nat
  BY <1>2, NodesOfChain
<1>4. HopNode(j) \in ChainNodes(jobs[j].chain) /\ HopNode(j) \in Nodes
  BY <1>2, NodeIndexIs DEF HopNode
<1> QED BY <1>2, <1>3, <1>4

\* A deploy after a node.
LEMMA AfterHopIs ==
    ASSUME StateShapes, NEW j \in Jobs, Applying(j), NEW ok \in BOOLEAN, jobs' = [jobs EXCEPT ![j] = AfterHop(j, ok)]
    PROVE  /\ JobShape(j)' /\ jobs' = [jobs EXCEPT ![j] = jobs'[j]]
           /\ \/ /\ jobs[j].hop < Len(AllNodes(jobs[j].chain)) /\ jobs'[j].step = "hop" /\ jobs'[j].chain = jobs[j].chain
                 /\ jobs'[j].clean = jobs[j].clean /\ jobs'[j].hop = jobs[j].hop + 1
                 /\ jobs'[j].ok => jobs[j].ok /\ ok
                 /\ AfterHop(j, ok) # Idle
              \/ ~(jobs[j].hop < Len(AllNodes(jobs[j].chain))) /\ jobs'[j] = Idle /\ AfterHop(j, ok) = Idle
<1>0. DOMAIN jobs = Jobs
  BY DEF StateShapes
<1>1. jobs'[j] = AfterHop(j, ok)
  BY <1>0
<1>2. jobs' = [jobs EXCEPT ![j] = jobs'[j]]
  BY <1>1
<1>3. /\ DOMAIN jobs[j] = ApplyFields /\ jobs[j].chain \in AllChains
      /\ jobs[j].clean \in BOOLEAN /\ jobs[j].ok \in BOOLEAN
      /\ jobs[j].hop \in 1..Len(AllNodes(jobs[j].chain)) /\ Len(AllNodes(jobs[j].chain)) \in Nat
  BY ApplyingIs
<1>4. CASE jobs[j].hop < Len(AllNodes(jobs[j].chain))
  <2>1. jobs'[j] = [jobs[j] EXCEPT !.step = "hop", !.hop = @ + 1, !.ok = @ /\ ok, !.cfg = MinimalConfig]
    BY <1>1, <1>4 DEF AfterHop
  <2>2. /\ jobs'[j].step = "hop" /\ jobs'[j].chain = jobs[j].chain /\ jobs'[j].clean = jobs[j].clean
        /\ jobs'[j].hop = jobs[j].hop + 1 /\ DOMAIN jobs'[j] = ApplyFields
    <3>0. DOMAIN jobs[j] = ApplyFields
      BY <1>3
    <3>1. jobs'[j].step = "hop" /\ jobs'[j].chain = jobs[j].chain /\ jobs'[j].clean = jobs[j].clean
      <4>1. jobs'[j].step = "hop"
        BY <2>1, <3>0 DEF ApplyFields
      <4>2. jobs'[j].chain = jobs[j].chain
        BY <2>1, <3>0 DEF ApplyFields
      <4>3. jobs'[j].clean = jobs[j].clean
        BY <2>1, <3>0 DEF ApplyFields
      <4> QED BY <4>1, <4>2, <4>3
    <3>2. jobs'[j].hop = jobs[j].hop + 1
      BY <1>3, <2>1 DEF ApplyFields
    <3>3. DOMAIN jobs'[j] = ApplyFields
      BY <1>3, <2>1 DEF ApplyFields
    <3> QED BY <3>1, <3>2, <3>3
  <2>3. jobs'[j].ok = (jobs[j].ok /\ ok)
    <3>1. DOMAIN jobs[j] = ApplyFields
      BY <1>3
    <3> QED BY <2>1, <3>1 DEF ApplyFields
  <2>4. jobs'[j].ok \in BOOLEAN /\ (jobs'[j].ok => jobs[j].ok /\ ok)
    BY <1>3, <2>3
  <2>5. jobs[j].hop + 1 \in 1..Len(AllNodes(jobs[j].chain))
    BY <1>3, <1>4
  <2>6. JobShape(j)'
    BY <1>3, <2>2, <2>4, <2>5 DEF JobShape, Applying
  <2>7. AfterHop(j, ok) # Idle
    BY <1>1, <2>2, IdleIs
  <2> QED BY <1>2, <1>4, <2>2, <2>4, <2>6, <2>7
<1>5. CASE ~(jobs[j].hop < Len(AllNodes(jobs[j].chain)))
  <2>1. jobs'[j] = Idle /\ AfterHop(j, ok) = Idle
    BY <1>1, <1>5 DEF AfterHop
  <2>2. JobShape(j)'
    BY <2>1 DEF JobShape
  <2> QED BY <1>2, <1>5, <2>1, <2>2
<1> QED BY <1>4, <1>5

\* A step that changes one deploy and not the store.
LEMMA KJob ==
    ASSUME KInv, NEW j \in Jobs, UNCHANGED << routeDNS, chains, pins, gen >>, DOMAIN running' = Nodes,
           jobs' = [jobs EXCEPT ![j] = jobs'[j]], JobShape(j)', CopyCurrent(j)'
    PROVE  KInv'
<1>0. StateShapes /\ DOMAIN jobs = Jobs
  BY DEF KInv, StateShapes
<1>1. DOMAIN jobs' = Jobs /\ \A i \in Jobs : i # j => jobs'[i] = jobs[i]
  BY <1>0
<1>2. ASSUME NEW i \in Jobs PROVE JobShape(i)' /\ CopyCurrent(i)'
  <2>1. CASE i = j
    BY <2>1
  <2>2. CASE i # j
    <3>1. jobs'[i] = jobs[i]
      BY <1>1, <2>2
    <3>2. JobShape(i) /\ CopyCurrent(i)
      BY DEF KInv, StateShapes
    <3> QED BY <3>1, <3>2 DEF JobShape, Applying, CopyCurrent
  <2> QED BY <2>1, <2>2
<1>3. StateShapes'
  BY <1>0, <1>1, <1>2 DEF StateShapes, NamesUnique
<1> QED BY <1>2, <1>3 DEF KInv

LEMMA KIdle ==
    ASSUME NEW j, jobs'[j] = Idle
    PROVE  JobShape(j)' /\ CopyCurrent(j)'
<1>1. jobs'[j].step = "idle"
  BY IdleIs
<1> QED BY <1>1 DEF JobShape, CopyCurrent, Applying

\* A deploy that goes on with the chain it has.
LEMMA KSame ==
    ASSUME KInv, NEW j \in Jobs, Applying(j), chains' = chains, jobs'[j].chain = jobs[j].chain,
           jobs'[j].clean = jobs[j].clean, jobs'[j].step \in {"hop", "install", "push"}
    PROVE  CopyCurrent(j)'
<1>1. CopyCurrent(j)
  BY DEF KInv
<1> QED BY <1>1 DEF CopyCurrent, Applying

\* An edit of chain x.
LEMMA KTouch ==
    ASSUME KInv, NEW x, Touch(x), chains' \in Seq(AllChains), NamesUnique', pins' \in [Users -> [Names -> Nodes \cup {NoNode}]],
           UNCHANGED << routeDNS, running, gen >>,
           \A d : d.name # x => (d \in ToSet(chains)' <=> d \in ToSet(chains))
    PROVE  KInv'
<1>0. StateShapes /\ \A j \in Jobs : CopyCurrent(j)
  BY DEF KInv
<1>1. /\ DOMAIN jobs' = Jobs /\ \A j \in Jobs : JobShape(j)'
      /\ \A j \in Jobs :
            \/ jobs'[j] = jobs[j] /\ ~(Applying(j) /\ jobs[j].chain.name = x)
            \/ /\ Applying(j) /\ jobs[j].chain.name = x /\ jobs'[j].clean = FALSE /\ jobs'[j].step = jobs[j].step
               /\ jobs'[j].chain = jobs[j].chain
  BY <1>0, Touched
<1>2. StateShapes'
  BY <1>0, <1>1 DEF StateShapes
<1>3. ASSUME NEW j \in Jobs PROVE CopyCurrent(j)'
  <2> SUFFICES ASSUME Applying(j)', jobs'[j].clean PROVE jobs'[j].chain \in ToSet(chains)'
    BY DEF CopyCurrent
  <2>1. jobs'[j] = jobs[j] /\ ~(Applying(j) /\ jobs[j].chain.name = x)
    BY <1>1
  <2>2. Applying(j) /\ jobs[j].clean
    BY <2>1 DEF Applying
  <2>3. jobs[j].chain \in ToSet(chains) /\ jobs[j].chain.name # x
    BY <1>0, <2>1, <2>2 DEF CopyCurrent
  <2> QED BY <2>1, <2>3
<1> QED BY <1>2, <1>3 DEF KInv

\* What an edit leaves of the other chains.
EditOf(x) ==
    /\ Touch(x) /\ UNCHANGED << routeDNS, running >>
    /\ \A d : d.name # x => (d \in ToSet(chains)' <=> d \in ToSet(chains))
    /\ \A u \in Users, y \in Names : y # x => pins'[u][y] = pins[u][y]

LEMMA KSaveChain ==
    ASSUME KInv, NEW f \in Forms, SaveChain(f)
    PROVE  KInv' /\ EditOf(f.name)
<1>0. StateShapes
  BY DEF KInv
<1> DEFINE c == FromForm(f)
<1>1. c \in AllChains /\ c.name = f.name
  BY <1>0, FromFormIs
<1>2. Put(c) /\ Touch(f.name) /\ UNCHANGED << routeDNS, pins, running, gen >>
  BY DEF SaveChain
<1> HIDE DEF c
<1>3. /\ chains' \in Seq(AllChains) /\ NamesUnique'
      /\ \A d : d \in ToSet(chains)' <=> d = c \/ (d \in ToSet(chains) /\ d.name # c.name)
  BY <1>0, <1>1, <1>2, PutIs
<1>5. \A d : d.name # f.name => (d \in ToSet(chains)' <=> d \in ToSet(chains))
  BY <1>1, <1>3
<1>6. pins' \in [Users -> [Names -> Nodes \cup {NoNode}]]
  BY <1>0, <1>2 DEF StateShapes
<1>7. KInv'
  BY <1>2, <1>3, <1>5, <1>6, KTouch
<1>9. EditOf(f.name)
  BY <1>2, <1>5 DEF EditOf
<1> QED BY <1>7, <1>9

LEMMA KDeleteChain ==
    ASSUME KInv, NEW x \in Names, DeleteChain(x)
    PROVE  KInv' /\ EditOf(x)
<1>0. StateShapes /\ chains \in Seq(AllChains) /\ NamesUnique
  BY DEF KInv, StateShapes
<1> DEFINE S == {d \in ToSet(chains) : d.name # x}
<1>1. chains' = InOrder(chains, S) /\ Touch(x) /\ UNCHANGED << routeDNS, pins, running, gen >>
  BY DEF DeleteChain
<1>2. IsInjective(chains)
  BY <1>0 DEF NamesUnique, IsInjective
<1>3. chains' \in Seq(AllChains) /\ ToSet(chains)' = ToSet(chains) \cap S /\ IsInjective(chains)'
  <2> DEFINE s == InOrder(chains, S)
  <2> HIDE DEF S
  <2>1. s \in Seq(AllChains) /\ ToSet(s) = ToSet(chains) \cap S /\ IsInjective(s)
    BY <1>0, <1>2, InOrderIs
  <2>2. chains' = s
    BY <1>1
  <2> HIDE DEF s
  <2> QED BY <2>1, <2>2
<1>4. \A d : d \in ToSet(chains)' <=> d \in ToSet(chains) /\ d.name # x
  BY <1>3
<1>5. NamesUnique'
  <2> SUFFICES ASSUME NEW k \in DOMAIN chains', NEW l \in DOMAIN chains', chains'[k].name = chains'[l].name PROVE k = l
    BY DEF NamesUnique
  <2>1. chains'[k] \in ToSet(chains)' /\ chains'[l] \in ToSet(chains)'
    BY DEF ToSet
  <2>2. chains'[k] = chains'[l]
    BY <1>0, <1>4, <2>1, SameName
  <2> QED BY <1>3, <2>2 DEF IsInjective
<1>6. pins' \in [Users -> [Names -> Nodes \cup {NoNode}]]
  BY <1>0, <1>1 DEF StateShapes
<1>7. KInv'
  BY <1>1, <1>3, <1>4, <1>5, <1>6, KTouch
<1>9. EditOf(x)
  BY <1>1, <1>4 DEF EditOf
<1> QED BY <1>7, <1>9

LEMMA KSetPin ==
    ASSUME KInv, NEW u \in Users, NEW x \in Names, NEW n \in Nodes \cup {NoNode}, SetPin(u, x, n)
    PROVE  KInv' /\ EditOf(x)
<1>0. StateShapes /\ chains \in Seq(AllChains) /\ NamesUnique /\ pins \in [Users -> [Names -> Nodes \cup {NoNode}]]
  BY DEF KInv, StateShapes
<1>1. pins' = [pins EXCEPT ![u][x] = n] /\ Touch(x) /\ UNCHANGED << routeDNS, chains, running, gen >>
  BY DEF SetPin
<1>2. /\ pins' \in [Users -> [Names -> Nodes \cup {NoNode}]]
      /\ \A v \in Users, y \in Names : y # x => pins'[v][y] = pins[v][y]
  BY <1>0, <1>1
<1>3. chains' \in Seq(AllChains) /\ NamesUnique' /\ ToSet(chains)' = ToSet(chains)
  BY <1>0, <1>1 DEF NamesUnique
<1>4. KInv'
  BY <1>1, <1>2, <1>3, KTouch
<1>6. EditOf(x)
  BY <1>1, <1>2, <1>3 DEF EditOf
<1> QED BY <1>4, <1>6

LEMMA KStartApply ==
    ASSUME KInv, NEW j \in Jobs, NEW x \in Names, StartApply(j, x)
    PROVE  /\ KInv' /\ jobs'[j].step = "preflight" /\ jobs'[j].chain \in ToSet(chains)
           /\ jobs'[j].clean = TRUE /\ jobs'[j].hop = 1
<1>0. StateShapes /\ DOMAIN jobs = Jobs
  BY DEF KInv, StateShapes
<1> DEFINE c == Stored(x)
           v == [step |-> "preflight", chain |-> c, clean |-> TRUE, ok |-> TRUE, hop |-> 1, cfg |-> MinimalConfig]
<1>1. jobs' = [jobs EXCEPT ![j] = v] /\ Index(x) # {} /\ UNCHANGED << routeDNS, chains, pins, running, gen >>
  BY DEF StartApply
<1>2. c \in ToSet(chains) /\ c \in AllChains /\ \A d \in ToSet(chains) : d.name = c.name => d = c
  <2>1. c \in ToSet(chains) /\ c \in AllChains
    BY <1>0, <1>1, StoredIs
  <2> HIDE DEF c
  <2> QED BY <1>0, <2>1, SameName
<1> HIDE DEF c
<1>3. jobs'[j] = v /\ jobs' = [jobs EXCEPT ![j] = jobs'[j]]
  BY <1>0, <1>1
<1>4. /\ v.step = "preflight" /\ v.chain = c /\ v.clean = TRUE /\ v.ok = TRUE /\ v.hop = 1 /\ DOMAIN v = ApplyFields
  BY DEF ApplyFields
<1> HIDE DEF v
<1>5. 1 \in 1..Len(AllNodes(c))
  BY <1>2, NodesOfChain
<1>6. JobShape(j)'
  BY <1>2, <1>3, <1>4, <1>5 DEF JobShape, Applying
<1>7. CopyCurrent(j)'
  BY <1>1, <1>2, <1>3, <1>4 DEF CopyCurrent
<1>9. DOMAIN running' = Nodes
  BY <1>0, <1>1 DEF StateShapes
<1>10. KInv'
  BY <1>1, <1>3, <1>6, <1>7, <1>9, KJob
<1> QED BY <1>2, <1>3, <1>4, <1>10

LEMMA KSaveKeys ==
    ASSUME KInv, NEW j \in Jobs, OthersIdle(j), SaveKeys(j)
    PROVE  /\ KInv'
           /\ Applying(j) /\ jobs'[j].step = "hop" /\ jobs'[j].chain = WithKeys(jobs[j].chain, gen + 1)
           /\ jobs'[j].clean = jobs[j].clean /\ jobs'[j].hop = jobs[j].hop
           /\ \A d : d \in ToSet(chains)' <=> d = jobs'[j].chain \/ (d \in ToSet(chains) /\ d.name # jobs'[j].chain.name)
<1>0. StateShapes /\ DOMAIN jobs = Jobs /\ gen \in Nat
  BY DEF KInv, StateShapes
<1> DEFINE b == jobs[j].chain
           c == WithKeys(b, gen + 1)
<1>1. /\ jobs[j].step = "preflight" /\ Put(c) /\ jobs' = [jobs EXCEPT ![j].chain = c, ![j].step = "hop"]
      /\ UNCHANGED << routeDNS, pins, running >> /\ gen' \in {gen, gen + 1}
  BY DEF SaveKeys
<1>2. Applying(j)
  BY <1>1 DEF Applying
<1>3. /\ DOMAIN jobs[j] = ApplyFields /\ b \in AllChains
      /\ jobs[j].clean \in BOOLEAN /\ jobs[j].ok \in BOOLEAN
      /\ jobs[j].hop \in 1..Len(AllNodes(b))
  BY <1>0, <1>2, ApplyingIs
<1>4. gen + 1 \in Nat /\ gen + 1 # 0
  BY <1>0
<1>5. c \in AllChains /\ SameShape(b, c)
  BY <1>3, <1>4, WithKeysIs
<1> HIDE DEF b, c
<1>6. /\ jobs'[j].chain = c /\ jobs'[j].step = "hop" /\ jobs'[j].clean = jobs[j].clean
      /\ jobs'[j].hop = jobs[j].hop /\ jobs'[j].ok = jobs[j].ok /\ DOMAIN jobs'[j] = ApplyFields /\ DOMAIN jobs' = Jobs
  <2>1. jobs'[j] = [jobs[j] EXCEPT !.chain = c, !.step = "hop"] /\ DOMAIN jobs' = Jobs
    BY <1>0, <1>1
  <2>2. DOMAIN jobs[j] = ApplyFields
    BY <1>3
  <2> QED BY <2>1, <2>2 DEF ApplyFields
<1>7. /\ chains' \in Seq(AllChains) /\ NamesUnique'
      /\ \A d : d \in ToSet(chains)' <=> d = c \/ (d \in ToSet(chains) /\ d.name # c.name)
  BY <1>0, <1>1, <1>5, PutIs
<1>8. AllNodes(c) = AllNodes(b) /\ ChainNodes(c) = ChainNodes(b) /\ c.name = b.name
  BY <1>5 DEF SameShape, AllNodes, ChainNodes
<1>9. JobShape(j)'
  BY <1>3, <1>5, <1>6, <1>8 DEF JobShape, Applying
<1>10. gen' \in Nat
  BY <1>0, <1>1
<1>11. CopyCurrent(j)'
  BY <1>6, <1>7 DEF CopyCurrent
<1>12. \A i \in Jobs : JobShape(i)' /\ CopyCurrent(i)'
  BY <1>9, <1>11, KIdle DEF OthersIdle
<1>13. KInv'
  <2>1. StateShapes'
    BY <1>0, <1>1, <1>6, <1>7, <1>10, <1>12 DEF StateShapes
  <2> QED BY <1>12, <2>1 DEF KInv
<1> QED BY <1>2, <1>6, <1>7, <1>13 DEF b, c

LEMMA InstalledIs ==
    ASSUME StateShapes, NEW n \in Nodes, running' = Installed(n)
    PROVE  DOMAIN running' = Nodes /\ Bare(n)' /\ \A m \in Nodes : m # n => running'[m] = running[m]
<1> DEFINE v == [MinimalConfig EXCEPT !.awg0 = running[n].awg0]
<1>1. v.ins = {} /\ v.rules = <<>>
  BY DEF MinimalConfig
<1>2. running' = [running EXCEPT ![n] = v] /\ DOMAIN running = Nodes
  BY DEF Installed, StateShapes
<1> HIDE DEF v
<1> QED BY <1>1, <1>2 DEF Bare

\* A deploy that ends its work on a node.
LEMMA KAfterHop ==
    ASSUME KInv, NEW j \in Jobs, Applying(j), NEW ok \in BOOLEAN, jobs' = [jobs EXCEPT ![j] = AfterHop(j, ok)],
           UNCHANGED << routeDNS, chains, pins, gen >>, DOMAIN running' = Nodes
    PROVE  KInv'
<1>0. StateShapes
  BY DEF KInv
<1>1. /\ JobShape(j)' /\ jobs' = [jobs EXCEPT ![j] = jobs'[j]]
      /\ \/ jobs'[j].step = "hop" /\ jobs'[j].chain = jobs[j].chain /\ jobs'[j].clean = jobs[j].clean
         \/ jobs'[j] = Idle
  BY <1>0, AfterHopIs
<1>2. CopyCurrent(j)'
  <2>1. CASE jobs'[j] = Idle
    BY <2>1, KIdle
  <2>2. CASE jobs'[j].step = "hop" /\ jobs'[j].chain = jobs[j].chain /\ jobs'[j].clean = jobs[j].clean
    BY <2>2, KSame
  <2> QED BY <1>1, <2>1, <2>2
<1> QED BY <1>1, <1>2, KJob

\* A deploy goes on to the next step on its node.
StepTo(j, s, cfg) ==
    \/ jobs' = [jobs EXCEPT ![j].step = s, ![j].cfg = cfg]
    \/ jobs' = [jobs EXCEPT ![j].step = s] /\ cfg = jobs[j].cfg

LEMMA StepIs ==
    ASSUME StateShapes, NEW j \in Jobs, Applying(j), NEW s \in {"install", "push"}, NEW cfg,
           StepTo(j, s, cfg)
    PROVE  /\ JobShape(j)' /\ jobs' = [jobs EXCEPT ![j] = jobs'[j]]
           /\ jobs'[j].step = s /\ jobs'[j].cfg = cfg /\ jobs'[j].chain = jobs[j].chain
           /\ jobs'[j].clean = jobs[j].clean /\ jobs'[j].hop = jobs[j].hop /\ jobs'[j].ok = jobs[j].ok
<1>0. DOMAIN jobs = Jobs
  BY DEF StateShapes
<1>1. /\ DOMAIN jobs[j] = ApplyFields /\ jobs[j].chain \in AllChains
      /\ jobs[j].clean \in BOOLEAN /\ jobs[j].ok \in BOOLEAN
      /\ jobs[j].hop \in 1..Len(AllNodes(jobs[j].chain))
  BY ApplyingIs
<1>2. DOMAIN jobs[j] = ApplyFields
  BY <1>1
<1>3. /\ jobs'[j] = [jobs[j] EXCEPT !.step = s, !.cfg = cfg] \/ (jobs'[j] = [jobs[j] EXCEPT !.step = s] /\ cfg = jobs[j].cfg)
      /\ jobs' = [jobs EXCEPT ![j] = jobs'[j]]
  <2>1. CASE jobs' = [jobs EXCEPT ![j].step = s, ![j].cfg = cfg]
    BY <1>0, <2>1
  <2>2. CASE jobs' = [jobs EXCEPT ![j].step = s] /\ cfg = jobs[j].cfg
    BY <1>0, <2>2
  <2> QED BY <2>1, <2>2 DEF StepTo
<1>4. /\ jobs'[j].step = s /\ jobs'[j].cfg = cfg /\ jobs'[j].chain = jobs[j].chain
      /\ jobs'[j].clean = jobs[j].clean /\ jobs'[j].hop = jobs[j].hop /\ jobs'[j].ok = jobs[j].ok
      /\ DOMAIN jobs'[j] = ApplyFields
  <2>1. CASE jobs'[j] = [jobs[j] EXCEPT !.step = s, !.cfg = cfg]
    BY <1>2, <2>1 DEF ApplyFields
  <2>2. CASE jobs'[j] = [jobs[j] EXCEPT !.step = s] /\ cfg = jobs[j].cfg
    BY <1>2, <2>2 DEF ApplyFields
  <2> QED BY <1>3, <2>1, <2>2
<1>5. JobShape(j)'
  BY <1>1, <1>4 DEF JobShape, Applying
<1> QED BY <1>3, <1>4, <1>5

LEMMA KStep ==
    ASSUME KInv, NEW j \in Jobs, Applying(j), NEW s \in {"install", "push"}, NEW cfg,
           StepTo(j, s, cfg),
           UNCHANGED << routeDNS, chains, pins, gen >>, DOMAIN running' = Nodes
    PROVE  KInv'
<1>0. StateShapes
  BY DEF KInv
<1>1. /\ JobShape(j)' /\ jobs' = [jobs EXCEPT ![j] = jobs'[j]]
      /\ jobs'[j].step = s /\ jobs'[j].cfg = cfg /\ jobs'[j].chain = jobs[j].chain
      /\ jobs'[j].clean = jobs[j].clean /\ jobs'[j].hop = jobs[j].hop /\ jobs'[j].ok = jobs[j].ok
  BY <1>0, StepIs
<1>2. CopyCurrent(j)'
  BY <1>1, KSame
<1> QED BY <1>1, <1>2, KJob

\* A deploy that ends.
LEMMA KEnd ==
    ASSUME KInv, NEW j \in Jobs, jobs' = [jobs EXCEPT ![j] = Idle],
           UNCHANGED << routeDNS, chains, pins, gen >>, DOMAIN running' = Nodes
    PROVE  KInv'
<1>1. jobs'[j] = Idle /\ jobs' = [jobs EXCEPT ![j] = jobs'[j]]
  BY DEF KInv, StateShapes
<1>2. JobShape(j)' /\ CopyCurrent(j)'
  BY <1>1, KIdle
<1> QED BY <1>1, <1>2, KJob

\* A deploy of a single node.
LEMMA KNode ==
    ASSUME KInv, NEW j \in Jobs, jobs' = [jobs EXCEPT ![j] = jobs'[j]], JobShape(j)',
           jobs'[j].step \in {"connect", "installnode", "pushnode"},
           UNCHANGED << routeDNS, chains, pins, gen >>, DOMAIN running' = Nodes
    PROVE  KInv'
<1>1. CopyCurrent(j)'
  BY DEF CopyCurrent, Applying
<1> QED BY <1>1, KJob

-----------------------------------------------------------------------------
(* The chains of a node, and the steps of a deploy *)

LEMMA NodeChains ==
    ASSUME StateShapes, NEW n
    PROVE  /\ ChainList(GetChainsForNode(chains, n), n)
           /\ \A c : c \in ToSet(GetChainsForNode(chains, n)) <=> c \in ToSet(chains) /\ n \in ChainNodes(c)
<1> DEFINE S == {c \in ToSet(chains) : n \in ChainNodes(c)}
           cs == InOrder(chains, S)
<1>1. chains \in Seq(AllChains)
  BY DEF StateShapes
<1>2. cs \in Seq(AllChains) /\ ToSet(cs) = ToSet(chains) \cap S
  <2> HIDE DEF S
  <2> QED BY <1>1, InOrderIs
<1>3. GetChainsForNode(chains, n) = cs
  BY DEF GetChainsForNode
<1> HIDE DEF cs
<1>4. \A c : c \in ToSet(cs) <=> c \in ToSet(chains) /\ n \in ChainNodes(c)
  BY <1>2
<1>5. ChainList(cs, n)
  BY <1>2, <1>4, SameName DEF ChainList
<1> QED BY <1>3, <1>4, <1>5

LEMMA HopList ==
    ASSUME StateShapes, NEW j \in Jobs, Applying(j), NEW n \in ChainNodes(jobs[j].chain)
    PROVE  /\ ChainList(HopChains(j, n), n)
           /\ \A c : c \in ToSet(HopChains(j, n)) <=>
                 \/ c = jobs[j].chain
                 \/ c \in ToSet(chains) /\ n \in ChainNodes(c) /\ c.name # jobs[j].chain.name
<1> DEFINE b == jobs[j].chain
           cs == GetChainsForNode(chains, n)
           r == HopChains(j, n)
<1>1. b \in AllChains /\ n \in ChainNodes(b)
  BY ApplyingIs
<1>2. cs \in Seq(AllChains) /\ \A c : c \in ToSet(cs) <=> c \in ToSet(chains) /\ n \in ChainNodes(c)
  BY NodeChains DEF ChainList
<1>3. r = IF \E d \in ToSet(cs) : d.name = b.name
          THEN [i \in DOMAIN cs |-> IF cs[i].name = b.name THEN b ELSE cs[i]]
          ELSE Append(cs, b)
  BY DEF HopChains
<1> HIDE DEF b, cs, r
<1>4. r \in Seq(AllChains) /\ \A c : c \in ToSet(r) <=> c = b \/ (c \in ToSet(cs) /\ c.name # b.name)
  <2>0. Len(cs) \in Nat /\ DOMAIN cs = 1..Len(cs) /\ \A i \in DOMAIN cs : cs[i] \in AllChains
    BY <1>2
  <2>1. CASE \E d \in ToSet(cs) : d.name = b.name
    <3>1. r = [i \in 1..Len(cs) |-> IF cs[i].name = b.name THEN b ELSE cs[i]]
      BY <1>3, <2>0, <2>1
    <3>2. r \in Seq(AllChains) /\ DOMAIN r = DOMAIN cs /\ \A i \in DOMAIN cs : r[i] = IF cs[i].name = b.name THEN b ELSE cs[i]
      <4>1. \A i \in 1..Len(cs) : (IF cs[i].name = b.name THEN b ELSE cs[i]) \in AllChains
        BY <1>1, <2>0
      <4>2. r \in [1..Len(cs) -> AllChains]
        BY <3>1, <4>1
      <4>3. r \in Seq(AllChains)
        BY <2>0, <4>2
      <4> QED BY <2>0, <3>1, <4>3
    <3>3. PICK i \in DOMAIN cs : cs[i].name = b.name
      BY <2>1 DEF ToSet
    <3>4. r[i] = b /\ i \in DOMAIN r
      BY <3>2, <3>3
    <3>5. b \in ToSet(r)
      BY <3>4 DEF ToSet
    <3>6. ASSUME NEW c \in ToSet(r) PROVE c = b \/ (c \in ToSet(cs) /\ c.name # b.name)
      BY <3>2 DEF ToSet
    <3>7. ASSUME NEW c \in ToSet(cs), c.name # b.name PROVE c \in ToSet(r)
      <4>1. PICK k \in DOMAIN cs : cs[k] = c
        BY DEF ToSet
      <4>2. r[k] = c /\ k \in DOMAIN r
        BY <3>2, <3>7, <4>1
      <4> QED BY <4>2 DEF ToSet
    <3> QED BY <3>2, <3>5, <3>6, <3>7
  <2>2. CASE ~ \E d \in ToSet(cs) : d.name = b.name
    <3>1. r = Append(cs, b)
      BY <1>3, <2>2
    <3>2. r \in Seq(AllChains) /\ Len(r) = Len(cs) + 1 /\ r[Len(cs) + 1] = b /\ \A i \in 1..Len(cs) : r[i] = cs[i]
      BY <1>1, <1>2, <2>0, <3>1
    <3>3. DOMAIN r = 1..(Len(cs) + 1)
      BY <3>2
    <3>4. \A c : c \in ToSet(r) <=> c = b \/ c \in ToSet(cs)
      <4>1. ASSUME NEW c \in ToSet(r) PROVE c = b \/ c \in ToSet(cs)
        <5>1. PICK i \in DOMAIN r : r[i] = c
          BY DEF ToSet
        <5>2. i = Len(cs) + 1 \/ i \in 1..Len(cs)
          BY <2>0, <3>3, <5>1
        <5> QED BY <2>0, <3>2, <5>1, <5>2 DEF ToSet
      <4>2. b \in ToSet(r)
        <5>1. Len(cs) + 1 \in DOMAIN r
          BY <2>0, <3>3
        <5> QED BY <3>2, <5>1 DEF ToSet
      <4>3. ASSUME NEW c \in ToSet(cs) PROVE c \in ToSet(r)
        <5>1. PICK i \in 1..Len(cs) : cs[i] = c
          BY <2>0 DEF ToSet
        <5>2. i \in DOMAIN r /\ r[i] = c
          BY <2>0, <3>2, <3>3, <5>1
        <5> QED BY <5>2 DEF ToSet
      <4> QED BY <4>1, <4>2, <4>3
    <3> QED BY <2>2, <3>2, <3>4
  <2> QED BY <2>1, <2>2
<1>5. \A c : c \in ToSet(r) <=> c = b \/ (c \in ToSet(chains) /\ n \in ChainNodes(c) /\ c.name # b.name)
  BY <1>2, <1>4
<1>6. ChainList(r, n)
  BY <1>1, <1>4, <1>5, SameName DEF ChainList
<1> QED BY <1>5, <1>6 DEF b, r

\* A deploy of a single node before it connects.
LEMMA StartNodeIs ==
    ASSUME StateShapes, NEW j \in Jobs, NEW n \in Nodes, StartNodeApply(j, n)
    PROVE  /\ JobShape(j)' /\ jobs' = [jobs EXCEPT ![j] = jobs'[j]] /\ jobs'[j].step = "connect"
           /\ jobs'[j].node = n /\ jobs'[j].chains = GetChainsForNode(chains, n)
<1> DEFINE cs == GetChainsForNode(chains, n)
           v == [step |-> "connect", node |-> n, chains |-> cs]
<1>1. jobs' = [jobs EXCEPT ![j] = v]
  BY DEF StartNodeApply
<1>2. cs \in Seq(AllChains)
  BY NodeChains DEF ChainList
<1>3. jobs'[j] = v
  BY <1>1 DEF StateShapes
<1>4. v.step = "connect" /\ v.node = n /\ v.chains = cs /\ DOMAIN v = {"step", "node", "chains"}
  <2> HIDE DEF cs
  <2> QED OBVIOUS
<1> HIDE DEF cs, v
<1>5. JobShape(j)'
  BY <1>2, <1>3, <1>4 DEF JobShape
<1> QED BY <1>1, <1>3, <1>4, <1>5 DEF cs

LEMMA ConnectIs ==
    ASSUME StateShapes, NEW j \in Jobs, jobs[j].step = "connect"
    PROVE  jobs[j].node \in Nodes /\ jobs[j].chains \in Seq(AllChains)
<1>1. JobShape(j)
  BY DEF StateShapes
<1>2. jobs[j] # Idle /\ ~Applying(j)
  BY IdleIs DEF Applying
<1> QED BY <1>1, <1>2 DEF JobShape

LEMMA RenderNodeIs ==
    ASSUME StateShapes, NEW j \in Jobs, NEW cfg, jobs[j].step = "connect",
           jobs' = [jobs EXCEPT ![j] = [step |-> "installnode", node |-> jobs[j].node, cfg |-> cfg]]
    PROVE  /\ JobShape(j)' /\ jobs' = [jobs EXCEPT ![j] = jobs'[j]] /\ jobs'[j].step = "installnode"
           /\ jobs'[j].node = jobs[j].node /\ jobs'[j].cfg = cfg
<1> DEFINE n == jobs[j].node
           v == [step |-> "installnode", node |-> n, cfg |-> cfg]
<1>1. n \in Nodes
  BY ConnectIs
<1>2. jobs'[j] = v /\ jobs' = [jobs EXCEPT ![j] = v]
  BY DEF StateShapes
<1>3. v.step = "installnode" /\ v.node = n /\ v.cfg = cfg /\ DOMAIN v = {"step", "node", "cfg"}
  <2> HIDE DEF n
  <2> QED OBVIOUS
<1> HIDE DEF n, v
<1>4. JobShape(j)'
  BY <1>1, <1>2, <1>3 DEF JobShape
<1> QED BY <1>2, <1>3, <1>4 DEF n

LEMMA OnNodeIs ==
    ASSUME StateShapes, NEW j \in Jobs, jobs[j].step \in {"installnode", "pushnode"}
    PROVE  DOMAIN jobs[j] = {"step", "node", "cfg"} /\ jobs[j].node \in Nodes
<1>1. JobShape(j)
  BY DEF StateShapes
<1>2. jobs[j] # Idle /\ ~Applying(j) /\ jobs[j].step # "connect"
  BY IdleIs DEF Applying
<1> QED BY <1>1, <1>2 DEF JobShape

LEMMA InstallNodeIs ==
    ASSUME StateShapes, NEW j \in Jobs, jobs[j].step = "installnode", jobs' = [jobs EXCEPT ![j].step = "pushnode"]
    PROVE  /\ JobShape(j)' /\ jobs' = [jobs EXCEPT ![j] = jobs'[j]] /\ jobs'[j].step = "pushnode"
           /\ jobs'[j].node = jobs[j].node /\ jobs'[j].cfg = jobs[j].cfg
<1>1. DOMAIN jobs[j] = {"step", "node", "cfg"} /\ jobs[j].node \in Nodes
  BY OnNodeIs
<1>2. jobs'[j] = [jobs[j] EXCEPT !.step = "pushnode"] /\ jobs' = [jobs EXCEPT ![j] = jobs'[j]]
  BY DEF StateShapes
<1>3. /\ jobs'[j].step = "pushnode" /\ jobs'[j].node = jobs[j].node /\ jobs'[j].cfg = jobs[j].cfg
      /\ DOMAIN jobs'[j] = {"step", "node", "cfg"}
  BY <1>1, <1>2
<1>4. JobShape(j)'
  BY <1>1, <1>3 DEF JobShape
<1> QED BY <1>2, <1>3, <1>4

LEMMA KRenderHop ==
    ASSUME KInv, NEW j \in Jobs, RenderHop(j)
    PROVE  KInv'
<1>0. StateShapes
  BY DEF KInv
<1>1. /\ jobs[j].step = "hop" /\ UNCHANGED << routeDNS, chains, pins, running, gen >>
      /\ \/ jobs' = [jobs EXCEPT ![j] = AfterHop(j, FALSE)]
         \/ StepTo(j, "install", MergedNodeConfig(HopChains(j, HopNode(j)), HopNode(j), pins, routeDNS))
  BY DEF RenderHop, StepTo
<1>2. Applying(j) /\ DOMAIN running' = Nodes
  BY <1>0, <1>1 DEF Applying, StateShapes
<1>3. CASE jobs' = [jobs EXCEPT ![j] = AfterHop(j, FALSE)]
  BY <1>1, <1>2, <1>3, KAfterHop
<1>4. CASE StepTo(j, "install", MergedNodeConfig(HopChains(j, HopNode(j)), HopNode(j), pins, routeDNS))
  BY <1>1, <1>2, <1>4, KStep
<1> QED BY <1>1, <1>3, <1>4

LEMMA KInstallHop ==
    ASSUME KInv, NEW j \in Jobs, InstallHop(j)
    PROVE  KInv'
<1>0. StateShapes
  BY DEF KInv
<1>1. /\ jobs[j].step = "install" /\ UNCHANGED << routeDNS, chains, pins, gen >>
      /\ running' = Installed(HopNode(j)) \/ running' = running
      /\ jobs' = [jobs EXCEPT ![j] = AfterHop(j, FALSE)] \/ StepTo(j, "push", jobs[j].cfg)
  BY DEF InstallHop, StepTo
<1>2. Applying(j)
  BY <1>1 DEF Applying
<1>3. DOMAIN running' = Nodes
  <2>1. HopNode(j) \in Nodes
    BY <1>0, <1>2, ApplyingIs
  <2> QED BY <1>0, <1>1, <2>1, InstalledIs DEF StateShapes
<1>4. CASE jobs' = [jobs EXCEPT ![j] = AfterHop(j, FALSE)]
  BY <1>1, <1>2, <1>3, <1>4, KAfterHop
<1>5. CASE StepTo(j, "push", jobs[j].cfg)
  BY <1>1, <1>2, <1>3, <1>5, KStep
<1> QED BY <1>1, <1>4, <1>5

LEMMA KPushHop ==
    ASSUME KInv, NEW j \in Jobs, PushHop(j)
    PROVE  KInv'
<1>0. StateShapes
  BY DEF KInv
<1>1. /\ jobs[j].step = "push" /\ UNCHANGED << routeDNS, chains, pins, gen >>
      /\ running' = [running EXCEPT ![HopNode(j)] = jobs[j].cfg] \/ running' = running
      /\ \E ok \in BOOLEAN : jobs' = [jobs EXCEPT ![j] = AfterHop(j, ok)]
  BY DEF PushHop
<1>2. Applying(j) /\ DOMAIN running' = Nodes
  BY <1>0, <1>1 DEF Applying, StateShapes
<1> QED BY <1>1, <1>2, KAfterHop

JobStep(j) ==
    \/ \E c \in Names : StartApply(j, c)
    \/ PreflightFails(j) \/ SaveKeys(j) \/ RenderHop(j) \/ InstallHop(j) \/ PushHop(j)
    \/ \E n \in Nodes : StartNodeApply(j, n)
    \/ RenderNode(j) \/ InstallNode(j) \/ PushNode(j)

\* A deploy that takes a step is under way before it or after it.
LEMMA JobMoves ==
    ASSUME StateShapes, NEW j \in Jobs, JobStep(j)
    PROVE  /\ \A i \in Jobs : i # j => jobs'[i] = jobs[i]
           /\ jobs[j].step # "idle" \/ jobs'[j].step # "idle"
<1>0. DOMAIN jobs = Jobs
  BY DEF StateShapes
<1> DEFINE Moved(v) == jobs' = [jobs EXCEPT ![j] = v]
<1>1. ASSUME NEW c \in Names, StartApply(j, c) PROVE (\E v : Moved(v)) /\ jobs'[j].step # "idle"
  BY <1>0, <1>1 DEF StartApply
<1>2. ASSUME NEW n \in Nodes, StartNodeApply(j, n) PROVE (\E v : Moved(v)) /\ jobs'[j].step # "idle"
  BY <1>0, <1>2 DEF StartNodeApply
<1>3. PreflightFails(j) => (\E v : Moved(v)) /\ jobs[j].step # "idle"
  BY DEF PreflightFails
<1>4. SaveKeys(j) => (\E v : Moved(v)) /\ jobs[j].step # "idle"
  BY DEF SaveKeys
<1>5. RenderHop(j) => (\E v : Moved(v)) /\ jobs[j].step # "idle"
  BY DEF RenderHop
<1>6. InstallHop(j) => (\E v : Moved(v)) /\ jobs[j].step # "idle"
  BY DEF InstallHop
<1>7. PushHop(j) => (\E v : Moved(v)) /\ jobs[j].step # "idle"
  BY DEF PushHop
<1>8. RenderNode(j) => (\E v : Moved(v)) /\ jobs[j].step # "idle"
  BY DEF RenderNode
<1>9. InstallNode(j) => (\E v : Moved(v)) /\ jobs[j].step # "idle"
  BY DEF InstallNode
<1>10. PushNode(j) => (\E v : Moved(v)) /\ jobs[j].step # "idle"
  BY DEF PushNode
<1>11. (\E v : Moved(v)) => \A i \in Jobs : i # j => jobs'[i] = jobs[i]
  BY <1>0
<1> HIDE DEF Moved
<1> QED BY <1>1, <1>2, <1>3, <1>4, <1>5, <1>6, <1>7, <1>8, <1>9, <1>10, <1>11 DEF JobStep

\* When no two deploys are under way, the step of one finds the others idle.
LEMMA OnlyJob ==
    ASSUME KInv, OneDeploy, OneDeploy', NEW j \in Jobs, JobStep(j)
    PROVE  OthersIdle(j)
<1>0. StateShapes /\ \A i \in Jobs : JobShape(i)
  BY DEF KInv, StateShapes
<1>1. /\ \A i \in Jobs : i # j => jobs'[i] = jobs[i]
      /\ jobs[j].step # "idle" \/ jobs'[j].step # "idle"
  BY <1>0, JobMoves
<1>2. \A i \in Jobs : i # j => jobs[i].step = "idle"
  BY <1>1 DEF OneDeploy
<1>3. ASSUME NEW i \in Jobs, jobs[i].step = "idle" PROVE jobs[i] = Idle
  BY <1>0, <1>3 DEF JobShape, Applying
<1> QED BY <1>1, <1>2, <1>3 DEF OthersIdle

\* Every step of the specification.
LEMMA KNext ==
    ASSUME KInv, OneDeploy, OneDeploy', [CascadeNext]_cascadeVars
    PROVE  KInv'
<1>0. StateShapes /\ DOMAIN running = Nodes
  BY DEF KInv, StateShapes
<1>1. CASE UNCHANGED cascadeVars
  BY <1>1 DEF cascadeVars, KInv, StateShapes, NamesUnique, JobShape, Applying, CopyCurrent
<1>2. ASSUME NEW f \in Forms, SaveChain(f) PROVE KInv'
  BY <1>2, KSaveChain
<1>3. ASSUME NEW c \in Names, DeleteChain(c) PROVE KInv'
  BY <1>3, KDeleteChain
<1>4. ASSUME NEW u \in Users, NEW c \in Names, NEW n \in Nodes \cup {NoNode}, SetPin(u, c, n) PROVE KInv'
  BY <1>4, KSetPin
<1>5. ASSUME NEW j \in Jobs, NEW c \in Names, StartApply(j, c) PROVE KInv'
  BY <1>5, KStartApply
<1>6. ASSUME NEW j \in Jobs, PreflightFails(j) PROVE KInv'
  <2>1. jobs' = [jobs EXCEPT ![j] = Idle] /\ UNCHANGED << routeDNS, chains, pins, running, gen >>
    BY <1>6 DEF PreflightFails
  <2> QED BY <1>0, <2>1, KEnd
<1>7. ASSUME NEW j \in Jobs, SaveKeys(j) PROVE KInv'
  BY <1>7, OnlyJob, KSaveKeys DEF JobStep
<1>8. ASSUME NEW j \in Jobs, RenderHop(j) PROVE KInv'
  BY <1>8, KRenderHop
<1>9. ASSUME NEW j \in Jobs, InstallHop(j) PROVE KInv'
  BY <1>9, KInstallHop
<1>10. ASSUME NEW j \in Jobs, PushHop(j) PROVE KInv'
  BY <1>10, KPushHop
<1>11. ASSUME NEW j \in Jobs, NEW n \in Nodes, StartNodeApply(j, n) PROVE KInv'
  <2>1. UNCHANGED << routeDNS, chains, pins, running, gen >>
    BY <1>11 DEF StartNodeApply
  <2>2. JobShape(j)' /\ jobs' = [jobs EXCEPT ![j] = jobs'[j]] /\ jobs'[j].step = "connect"
    BY <1>0, <1>11, StartNodeIs
  <2> QED BY <1>0, <2>1, <2>2, KNode
<1>12. ASSUME NEW j \in Jobs, RenderNode(j) PROVE KInv'
  <2> DEFINE cfg == MergedNodeConfig(jobs[j].chains, jobs[j].node, pins, routeDNS)
  <2>1. /\ jobs[j].step = "connect" /\ UNCHANGED << routeDNS, chains, pins, running, gen >>
        /\ \/ jobs' = [jobs EXCEPT ![j] = Idle]
           \/ jobs' = [jobs EXCEPT ![j] = [step |-> "installnode", node |-> jobs[j].node, cfg |-> cfg]]
    BY <1>12 DEF RenderNode
  <2> HIDE DEF cfg
  <2>2. CASE jobs' = [jobs EXCEPT ![j] = Idle]
    BY <1>0, <2>1, <2>2, KEnd
  <2>3. CASE jobs' = [jobs EXCEPT ![j] = [step |-> "installnode", node |-> jobs[j].node, cfg |-> cfg]]
    <3>1. JobShape(j)' /\ jobs' = [jobs EXCEPT ![j] = jobs'[j]] /\ jobs'[j].step = "installnode"
      BY <1>0, <2>1, <2>3, RenderNodeIs
    <3> QED BY <1>0, <2>1, <3>1, KNode
  <2> QED BY <2>1, <2>2, <2>3
<1>13. ASSUME NEW j \in Jobs, InstallNode(j) PROVE KInv'
  <2>1. /\ jobs[j].step = "installnode" /\ UNCHANGED << routeDNS, chains, pins, gen >> /\ running' = Installed(jobs[j].node)
        /\ jobs' = [jobs EXCEPT ![j].step = "pushnode"] \/ jobs' = [jobs EXCEPT ![j] = Idle]
    BY <1>13 DEF InstallNode
  <2>2. DOMAIN running' = Nodes
    BY <1>0, <2>1, OnNodeIs, InstalledIs
  <2>3. CASE jobs' = [jobs EXCEPT ![j] = Idle]
    BY <2>1, <2>2, <2>3, KEnd
  <2>4. CASE jobs' = [jobs EXCEPT ![j].step = "pushnode"]
    <3>1. JobShape(j)' /\ jobs' = [jobs EXCEPT ![j] = jobs'[j]] /\ jobs'[j].step = "pushnode"
      BY <1>0, <2>1, <2>4, InstallNodeIs
    <3> QED BY <2>1, <2>2, <3>1, KNode
  <2> QED BY <2>1, <2>3, <2>4
<1>14. ASSUME NEW j \in Jobs, PushNode(j) PROVE KInv'
  <2>1. /\ jobs' = [jobs EXCEPT ![j] = Idle] /\ UNCHANGED << routeDNS, chains, pins, gen >>
        /\ running' = [running EXCEPT ![jobs[j].node] = jobs[j].cfg] \/ running' = running
    BY <1>14 DEF PushNode
  <2>2. DOMAIN running' = Nodes
    BY <1>0, <2>1
  <2> QED BY <2>1, <2>2, KEnd
<1>15. CASE CascadeNext
  BY <1>2, <1>3, <1>4, <1>5, <1>6, <1>7, <1>8, <1>9, <1>10, <1>11, <1>12, <1>13, <1>14, <1>15 DEF CascadeNext
<1> QED BY <1>1, <1>15

LEMMA KInit ==
    ASSUME CascadeInit
    PROVE  KInv
<1>1. /\ routeDNS \in BOOLEAN /\ chains = <<>> /\ jobs = [j \in Jobs |-> Idle] /\ gen = 0 /\ DOMAIN running = Nodes
      /\ pins = [u \in Users |-> [c \in Names |-> NoNode]]
  BY CascadeAssumption DEF CascadeInit
<1>2. \A j \in Jobs : JobShape(j) /\ CopyCurrent(j)
  BY <1>1, IdleIs DEF JobShape, CopyCurrent, Applying
<1>3. chains \in Seq(AllChains) /\ NamesUnique
  BY <1>1 DEF NamesUnique
<1>4. pins \in [Users -> [Names -> Nodes \cup {NoNode}]]
  BY <1>1
<1>5. gen \in Nat /\ DOMAIN jobs = Jobs
  BY <1>1
<1> QED BY <1>1, <1>2, <1>3, <1>4, <1>5 DEF KInv, StateShapes

-----------------------------------------------------------------------------
(* GInv is inductive *)

LEMMA SamePins ==
    ASSUME NEW c, pins' = pins
    PROVE  PinsOf(c)' = PinsOf(c)
BY DEF PinsOf

LEMMA InAllChains ==
    ASSUME StateShapes, NEW c \in ToSet(chains)
    PROVE  c \in AllChains /\ c.name \in Names
<1>1. c \in AllChains
  BY DEF StateShapes, ToSet
<1>2. PICK f \in Forms, k \in [Nodes -> Keys] : c = ChainOf(f, k)
  BY <1>1 DEF AllChains
<1>3. c.name = f.name
  BY <1>2 DEF ChainOf
<1> QED BY <1>1, <1>3 DEF Names

LEMMA GIdle ==
    ASSUME NEW j, jobs'[j] = Idle
    PROVE  Pending(j)' /\ Progress(j)' /\ GoodClean(j)'
<1>1. jobs'[j].step = "idle"
  BY IdleIs
<1> QED BY <1>1 DEF Pending, Progress, GoodClean, Applying

\* An edit takes chain x from the good ones and leaves the others alone.
LEMMA GEdit ==
    ASSUME KInv, GInv, NEW x, EditOf(x)
    PROVE  GInv'
<1>0. StateShapes /\ \A j \in Jobs : CopyCurrent(j)
  BY DEF KInv
<1>1. /\ Touch(x) /\ good' = good \ {x} /\ routeDNS' = routeDNS /\ running' = running
      /\ \A d : d.name # x => (d \in ToSet(chains)' <=> d \in ToSet(chains))
      /\ \A u \in Users, y \in Names : y # x => pins'[u][y] = pins[u][y]
  BY DEF EditOf, Touch
<1>2. ASSUME NEW c \in ToSet(chains), c.name # x
      PROVE  PinsOf(c)' = PinsOf(c)
  <2>1. c.name \in Names
    BY <1>0, InAllChains
  <2> QED BY <1>1, <1>2, <2>1 DEF PinsOf
<1>3. ASSUME NEW c \in GoodStored' PROVE c \in GoodStored /\ c \in ToSet(chains) /\ c.name # x
  <2>1. c \in ToSet(chains)' /\ c.name \in good'
    BY DEF GoodStored
  <2> QED BY <1>1, <2>1 DEF GoodStored
<1>4. GoodCarried'
  <2> SUFFICES ASSUME NEW c \in GoodStored'
               PROVE  Keyed(c) /\ \A n \in ChainNodes(c) : Bare(n)' \/ CarriesNow(running[n], n, c)'
    BY DEF GoodCarried
  <2>1. PinsOf(c)' = PinsOf(c) /\ c \in GoodStored
    BY <1>2, <1>3
  <2>2. Keyed(c) /\ \A n \in ChainNodes(c) : Bare(n) \/ CarriesNow(running[n], n, c)
    BY <2>1 DEF GInv, GoodCarried
  <2> QED BY <1>1, <2>1, <2>2 DEF CarriesNow, Bare
<1>5. ASSUME NEW j \in Jobs PROVE Pending(j)' /\ Progress(j)' /\ GoodClean(j)'
  <2>0. Pending(j) /\ Progress(j) /\ GoodClean(j)
    BY DEF GInv
  <2>1. CASE jobs'[j] = jobs[j] /\ ~(Applying(j) /\ jobs[j].chain.name = x)
    <3>1. (Applying(j)' <=> Applying(j)) /\ HopNode(j)' = HopNode(j)
      BY <2>1 DEF Applying, HopNode
    <3>2. ASSUME NEW c \in Covered(j)' PROVE c \in Covered(j) /\ PinsOf(c)' = PinsOf(c)
      <4>1. CASE c \in GoodStored'
        BY <1>2, <1>3, <4>1 DEF Covered
      <4>2. CASE c \in ToSet(chains)' /\ Applying(j)' /\ jobs'[j].clean /\ c = jobs'[j].chain
        <5>1. c.name # x /\ c \in ToSet(chains)
          BY <1>1, <2>1, <3>1, <4>2
        <5> QED BY <1>2, <2>1, <3>1, <4>2, <5>1 DEF Covered
      <4> QED BY <4>1, <4>2 DEF Covered
    <3>3. Pending(j)'
      <4>1. ASSUME jobs'[j].step \in {"install", "push"}, NEW c \in Covered(j)', HopNode(j) \in ChainNodes(c)
            PROVE  Carries(jobs'[j].cfg, HopNode(j), c, PinsOf(c)', routeDNS')
        <5>1. CarriesNow(jobs[j].cfg, HopNode(j), c)
          BY <2>0, <2>1, <3>2, <4>1 DEF Pending
        <5> QED BY <1>1, <2>1, <3>2, <5>1 DEF CarriesNow
      <4>2. ASSUME jobs'[j].step = "connect"
            PROVE  /\ ChainList(jobs'[j].chains, jobs'[j].node)
                   /\ \A c \in GoodStored' : jobs'[j].node \in ChainNodes(c) => c \in ToSet(jobs'[j].chains)
        BY <1>3, <2>0, <2>1, <4>2 DEF Pending
      <4>3. ASSUME jobs'[j].step \in {"installnode", "pushnode"}, NEW c \in GoodStored', jobs'[j].node \in ChainNodes(c)
            PROVE  Carries(jobs'[j].cfg, jobs'[j].node, c, PinsOf(c)', routeDNS')
        <5>1. CarriesNow(jobs[j].cfg, jobs[j].node, c)
          BY <1>3, <2>0, <2>1, <4>3 DEF Pending
        <5> QED BY <1>1, <1>2, <1>3, <2>1, <5>1 DEF CarriesNow
      <4> QED BY <3>1, <4>1, <4>2, <4>3 DEF Pending, CarriesNow
    <3>4. Progress(j)'
      <4>1. ASSUME jobs'[j].step \in {"hop", "install", "push"}, jobs'[j].ok, jobs'[j].clean,
                   NEW k \in DOMAIN AllNodes(jobs'[j].chain), k < jobs'[j].hop, NEW n, n = AllNodes(jobs'[j].chain)[k]
            PROVE  Carries(running'[n], n, jobs'[j].chain, PinsOf(jobs[j].chain)', routeDNS')
        <5>1. CarriesNow(running[n], n, jobs[j].chain)
          BY <2>0, <2>1, <4>1 DEF Progress
        <5>2. Applying(j) /\ jobs[j].clean
          BY <2>1, <4>1 DEF Applying
        <5>3. jobs[j].chain \in ToSet(chains) /\ jobs[j].chain.name # x
          BY <1>0, <2>1, <5>2 DEF CopyCurrent
        <5>4. PICK b : b = jobs[j].chain
          OBVIOUS
        <5>5. PinsOf(b)' = PinsOf(b)
          BY <1>2, <5>3, <5>4
        <5>6. PinsOf(jobs[j].chain)' = PinsOf(b)'
          BY <2>1, <5>4 DEF PinsOf
        <5> QED BY <1>1, <2>1, <5>1, <5>4, <5>5, <5>6 DEF CarriesNow
      <4>2. jobs'[j].step = "preflight" => jobs'[j].hop = 1
        BY <2>0, <2>1 DEF Progress
      <4>3. jobs'[j].step \in {"hop", "install", "push"} => Keyed(jobs'[j].chain)
        BY <2>0, <2>1 DEF Progress
      <4> QED BY <4>1, <4>2, <4>3 DEF Progress, CarriesNow
    <3>5. GoodClean(j)'
      BY <1>1, <2>0, <2>1, <3>1 DEF GoodClean
    <3> QED BY <3>3, <3>4, <3>5
  <2>2. CASE /\ Applying(j) /\ jobs[j].chain.name = x /\ jobs'[j].clean = FALSE /\ jobs'[j].step = jobs[j].step
             /\ jobs'[j].chain = jobs[j].chain /\ jobs'[j].hop = jobs[j].hop /\ jobs'[j].ok = jobs[j].ok
             /\ jobs'[j].cfg = jobs[j].cfg
    <3>1. Applying(j)' /\ HopNode(j)' = HopNode(j) /\ jobs[j].step \notin {"connect", "installnode", "pushnode"}
      BY <2>2 DEF Applying, HopNode
    <3>2. ASSUME NEW c \in Covered(j)' PROVE c \in GoodStored'
      BY <2>2 DEF Covered
    <3>3. Pending(j)'
      <4>1. ASSUME jobs'[j].step \in {"install", "push"}, NEW c \in Covered(j)', HopNode(j) \in ChainNodes(c)
            PROVE  Carries(jobs'[j].cfg, HopNode(j), c, PinsOf(c)', routeDNS')
        <5>1. c \in Covered(j) /\ PinsOf(c)' = PinsOf(c)
          BY <1>2, <1>3, <3>2 DEF Covered
        <5>2. CarriesNow(jobs[j].cfg, HopNode(j), c)
          BY <2>0, <2>2, <4>1, <5>1 DEF Pending
        <5> QED BY <1>1, <2>2, <5>1, <5>2 DEF CarriesNow
      <4> QED BY <2>2, <3>1, <4>1 DEF Pending, CarriesNow
    <3>4. Progress(j)'
      BY <2>0, <2>2 DEF Progress
    <3>5. GoodClean(j)'
      BY <1>1, <2>2 DEF GoodClean
    <3> QED BY <3>3, <3>4, <3>5
  <2> QED BY <1>0, <1>1, <2>1, <2>2, Touched
<1> QED BY <1>4, <1>5 DEF GInv

\* A step of the only deploy that is under way.
LEMMA GJob ==
    ASSUME NEW j \in Jobs, OthersIdle(j), GoodCarried', Pending(j)', Progress(j)', GoodClean(j)'
    PROVE  GInv'
<1>1. \A i \in Jobs : Pending(i)' /\ Progress(i)' /\ GoodClean(i)'
  BY GIdle DEF OthersIdle
<1> QED BY <1>1 DEF GInv

\* The nodes that a step does not touch, and the one that it does.
LEMMA GRunning ==
    ASSUME GInv, NEW n, \A m \in Nodes : m # n => running'[m] = running[m], StateShapes,
           UNCHANGED << routeDNS, pins >>, GoodStored' \subseteq GoodStored,
           Bare(n)' \/ \A c \in GoodStored : n \in ChainNodes(c) => Carries(running'[n], n, c, PinsOf(c), routeDNS)
    PROVE  GoodCarried'
<1> SUFFICES ASSUME NEW c \in GoodStored'
             PROVE  Keyed(c) /\ \A m \in ChainNodes(c) : Bare(m)' \/ CarriesNow(running[m], m, c)'
  BY DEF GoodCarried
<1>1. c \in GoodStored /\ c \in ToSet(chains) /\ PinsOf(c)' = PinsOf(c)
  BY SamePins DEF GoodStored
<1>2. Keyed(c) /\ \A m \in ChainNodes(c) : Bare(m) \/ CarriesNow(running[m], m, c)
  BY <1>1 DEF GInv, GoodCarried
<1>3. ChainNodes(c) \subseteq Nodes
  BY <1>1, InAllChains, NodesOfChain
<1>4. ASSUME NEW m \in ChainNodes(c) PROVE Bare(m)' \/ CarriesNow(running[m], m, c)'
  <2>1. CASE m = n
    BY <1>1, <2>1 DEF CarriesNow
  <2>2. CASE m # n
    <3>1. running'[m] = running[m]
      BY <1>3, <2>2
    <3> QED BY <1>1, <1>2, <3>1 DEF CarriesNow, Bare
  <2> QED BY <2>1, <2>2
<1> QED BY <1>2, <1>4

LEMMA GStay ==
    ASSUME GInv, StateShapes, UNCHANGED << routeDNS, pins, running >>, GoodStored' \subseteq GoodStored
    PROVE  GoodCarried'
<1> SUFFICES ASSUME NEW c \in GoodStored'
             PROVE  Keyed(c) /\ \A m \in ChainNodes(c) : Bare(m)' \/ CarriesNow(running[m], m, c)'
  BY DEF GoodCarried
<1>1. c \in GoodStored /\ PinsOf(c)' = PinsOf(c)
  BY SamePins
<1>2. Keyed(c) /\ \A m \in ChainNodes(c) : Bare(m) \/ CarriesNow(running[m], m, c)
  BY <1>1 DEF GInv, GoodCarried
<1> QED BY <1>1, <1>2 DEF CarriesNow, Bare

\* What a good chain has to do with the chain that is applied.
LEMMA GoodOrCopy ==
    ASSUME KInv, GInv, NEW j \in Jobs, Applying(j), NEW c \in Covered(j)
    PROVE  /\ c \in ToSet(chains) /\ c \in AllChains
           /\ c.name = jobs[j].chain.name => c = jobs[j].chain /\ jobs[j].clean
           /\ jobs[j].step # "preflight" => Keyed(c)
<1>0. StateShapes /\ CopyCurrent(j) /\ GoodClean(j) /\ Progress(j)
  BY DEF KInv, GInv
<1>1. c \in ToSet(chains)
  BY DEF Covered, GoodStored
<1>2. c \in AllChains
  BY <1>0, <1>1, InAllChains
<1>3. ASSUME c.name = jobs[j].chain.name PROVE c = jobs[j].chain /\ jobs[j].clean
  <2>1. CASE c \in GoodStored
    <3>1. jobs[j].clean
      BY <1>0, <1>3, <2>1 DEF GoodClean, GoodStored
    <3>2. jobs[j].chain \in ToSet(chains)
      BY <1>0, <3>1 DEF CopyCurrent
    <3> QED BY <1>0, <1>1, <1>3, <3>1, <3>2, SameName
  <2>2. CASE c \notin GoodStored
    BY <2>2 DEF Covered
  <2> QED BY <2>1, <2>2
<1>4. ASSUME jobs[j].step # "preflight" PROVE Keyed(c)
  <2>1. CASE c \in GoodStored
    BY <2>1 DEF GInv, GoodCarried
  <2>2. CASE c \notin GoodStored
    <3>1. c = jobs[j].chain
      BY <2>2 DEF Covered
    <3>2. Keyed(jobs[j].chain)
      BY <1>0, <1>4 DEF Progress, Applying
    <3> QED BY <3>1, <3>2
  <2> QED BY <2>1, <2>2
<1> QED BY <1>1, <1>2, <1>3, <1>4

LEMMA GStartApply ==
    ASSUME KInv, GInv, NEW j \in Jobs, OthersIdle(j), NEW x \in Names, StartApply(j, x)
    PROVE  GInv'
<1>0. StateShapes
  BY DEF KInv
<1>1. jobs'[j].step = "preflight" /\ jobs'[j].clean = TRUE /\ jobs'[j].hop = 1
  BY KStartApply
<1>2. UNCHANGED << routeDNS, chains, pins, running, good >>
  BY DEF StartApply
<1>3. GoodStored' = GoodStored
  BY <1>2 DEF GoodStored
<1>4. GoodCarried'
  BY <1>0, <1>2, <1>3, GStay
<1>5. Pending(j)' /\ Progress(j)' /\ GoodClean(j)'
  BY <1>1 DEF Pending, Progress, GoodClean
<1> QED BY <1>4, <1>5, GJob

LEMMA GSaveKeys ==
    ASSUME KInv, GInv, NEW j \in Jobs, OthersIdle(j), SaveKeys(j)
    PROVE  GInv'
<1>0. StateShapes /\ CopyCurrent(j) /\ Progress(j) /\ GoodClean(j) /\ gen \in Nat
  BY DEF KInv, GInv, StateShapes
<1> DEFINE b == jobs[j].chain
           c == WithKeys(b, gen + 1)
<1>1. UNCHANGED << routeDNS, pins, running, good >> /\ jobs[j].step = "preflight"
  BY DEF SaveKeys
<1>2. /\ Applying(j) /\ jobs'[j].step = "hop" /\ jobs'[j].chain = c /\ jobs'[j].clean = jobs[j].clean
      /\ jobs'[j].hop = jobs[j].hop
      /\ \A d : d \in ToSet(chains)' <=> d = c \/ (d \in ToSet(chains) /\ d.name # c.name)
  <2>1. /\ Applying(j) /\ jobs'[j].step = "hop" /\ jobs'[j].chain = WithKeys(jobs[j].chain, gen + 1)
        /\ jobs'[j].clean = jobs[j].clean /\ jobs'[j].hop = jobs[j].hop
        /\ \A d : d \in ToSet(chains)' <=> d = jobs'[j].chain \/ (d \in ToSet(chains) /\ d.name # jobs'[j].chain.name)
    BY KSaveKeys
  <2>2. jobs'[j].chain = c
    BY <2>1
  <2> HIDE DEF c
  <2> QED BY <2>1, <2>2
<1>3. b \in AllChains
  BY <1>0, <1>2, ApplyingIs
<1>4. gen + 1 \in Nat /\ gen + 1 # 0
  BY <1>0
<1>5. SameShape(b, c) /\ Keyed(c) /\ (Keyed(b) => c = b)
  BY <1>3, <1>4, WithKeysIs
<1> HIDE DEF c
<1>6. c.name = b.name
  BY <1>5 DEF SameShape
<1> HIDE DEF b
<1>7. GoodStored' \subseteq GoodStored
  <2> SUFFICES ASSUME NEW d \in GoodStored' PROVE d \in GoodStored
    OBVIOUS
  <2>0. d \in ToSet(chains)' /\ d.name \in good
    BY <1>1 DEF GoodStored
  <2>1. CASE d = c
    <3>1. jobs[j].clean
      BY <1>0, <1>2, <1>6, <2>0, <2>1 DEF GoodClean, b
    <3>2. b \in ToSet(chains)
      BY <1>0, <1>2, <3>1 DEF CopyCurrent, b
    <3>3. b \in GoodStored
      BY <1>6, <2>0, <2>1, <3>2 DEF GoodStored
    <3>4. Keyed(b)
      BY <3>3 DEF GInv, GoodCarried
    <3> QED BY <1>5, <2>1, <3>3, <3>4
  <2>2. CASE d # c
    BY <1>2, <2>0, <2>2 DEF GoodStored
  <2> QED BY <2>1, <2>2
<1>8. GoodCarried'
  BY <1>0, <1>1, <1>7, GStay
<1>9. Pending(j)'
  BY <1>2 DEF Pending
<1>10. Progress(j)'
  <2>1. jobs'[j].hop = 1
    BY <1>0, <1>1, <1>2 DEF Progress
  <2>2. \A x \in DOMAIN AllNodes(jobs'[j].chain) : ~(x < 1)
    <3>1. c \in AllChains
      BY <1>3, <1>4, WithKeysIs DEF b, c
    <3>2. DOMAIN AllNodes(c) = 1..Len(AllNodes(c)) /\ Len(AllNodes(c)) \in Nat
      BY <3>1, NodesOfChain
    <3> QED BY <1>2, <3>2
  <2> QED BY <1>2, <1>5, <2>1, <2>2 DEF Progress
<1>11. GoodClean(j)'
  BY <1>0, <1>1, <1>2, <1>6 DEF GoodClean, b
<1> QED BY <1>8, <1>9, <1>10, <1>11, GJob

LEMMA GoodCleanKept ==
    ASSUME NEW j, GoodClean(j), Applying(j), good' = good, jobs'[j].chain = jobs[j].chain, jobs'[j].clean = jobs[j].clean
    PROVE  GoodClean(j)'
BY DEF GoodClean

\* A deploy that has failed on a node goes on with the next one, or ends.
LEMMA GFailed ==
    ASSUME KInv, GInv, NEW j \in Jobs, jobs[j].step \in {"hop", "install", "push"},
           jobs' = [jobs EXCEPT ![j] = AfterHop(j, FALSE)], good' = good
    PROVE  Pending(j)' /\ Progress(j)' /\ GoodClean(j)'
<1>0. StateShapes /\ Progress(j) /\ GoodClean(j)
  BY DEF KInv, GInv
<1>1. Applying(j)
  BY DEF Applying
<1>2. \/ /\ jobs'[j].step = "hop" /\ jobs'[j].chain = jobs[j].chain /\ jobs'[j].clean = jobs[j].clean /\ ~jobs'[j].ok
      \/ jobs'[j] = Idle
  BY <1>0, <1>1, AfterHopIs
<1>3. CASE jobs'[j] = Idle
  BY <1>3, GIdle
<1>4. CASE jobs'[j].step = "hop" /\ jobs'[j].chain = jobs[j].chain /\ jobs'[j].clean = jobs[j].clean /\ ~jobs'[j].ok
  <2>1. Pending(j)'
    BY <1>4 DEF Pending
  <2>2. Progress(j)'
    BY <1>0, <1>4 DEF Progress
  <2>3. GoodClean(j)'
    <3>1. jobs'[j].chain = jobs[j].chain /\ jobs'[j].clean = jobs[j].clean
      BY <1>4
    <3> QED BY <1>0, <1>1, <3>1, GoodCleanKept
  <2> QED BY <2>1, <2>2, <2>3
<1> QED BY <1>2, <1>3, <1>4

\* A deploy on its way from rendering to the push keeps what it has.
LEMMA GOn ==
    ASSUME KInv, GInv, NEW j \in Jobs, jobs[j].step \in {"hop", "install", "push"}, NEW s \in {"install", "push"}, NEW cfg,
           StepTo(j, s, cfg), UNCHANGED << routeDNS, chains, pins, good >>,
           \A m \in Nodes : m # HopNode(j) => running'[m] = running[m],
           \A c \in Covered(j) : HopNode(j) \in ChainNodes(c) => CarriesNow(cfg, HopNode(j), c)
    PROVE  Pending(j)' /\ Progress(j)' /\ GoodClean(j)'
<1>0. StateShapes /\ Progress(j) /\ GoodClean(j)
  BY DEF KInv, GInv
<1>1. Applying(j)
  BY DEF Applying
<1>2. /\ jobs'[j].step = s /\ jobs'[j].cfg = cfg /\ jobs'[j].chain = jobs[j].chain
      /\ jobs'[j].clean = jobs[j].clean /\ jobs'[j].hop = jobs[j].hop /\ jobs'[j].ok = jobs[j].ok
  BY <1>0, <1>1, StepIs
<1>3. Applying(j)' /\ HopNode(j)' = HopNode(j)
  BY <1>2 DEF Applying, HopNode
<1>4. Covered(j)' = Covered(j)
  BY <1>1, <1>2, <1>3 DEF Covered, GoodStored
<1>5. Pending(j)'
  <2>1. ASSUME NEW c \in Covered(j)', HopNode(j) \in ChainNodes(c)
        PROVE  Carries(jobs'[j].cfg, HopNode(j), c, PinsOf(c)', routeDNS')
    BY <1>2, <1>4, <2>1, SamePins DEF CarriesNow
  <2> QED BY <1>2, <1>3, <2>1 DEF Pending, CarriesNow
<1>6. Progress(j)'
  <2>1. ASSUME jobs'[j].ok, jobs'[j].clean,
               NEW k \in DOMAIN AllNodes(jobs'[j].chain), k < jobs'[j].hop, NEW n, n = AllNodes(jobs'[j].chain)[k]
        PROVE  Carries(running'[n], n, jobs'[j].chain, PinsOf(jobs[j].chain)', routeDNS')
    <3>1. CarriesNow(running[n], n, jobs[j].chain)
      BY <1>0, <1>2, <2>1 DEF Progress
    <3>2. n \in Nodes /\ n # HopNode(j)
      <4>1. /\ jobs[j].chain \in AllChains /\ jobs[j].hop \in 1..Len(AllNodes(jobs[j].chain))
            /\ k \in 1..Len(AllNodes(jobs[j].chain)) /\ k # jobs[j].hop
        <5>1. jobs[j].chain \in AllChains /\ jobs[j].hop \in 1..Len(AllNodes(jobs[j].chain))
          BY <1>0, <1>1, ApplyingIs
        <5>2. DOMAIN AllNodes(jobs[j].chain) = 1..Len(AllNodes(jobs[j].chain))
          BY <5>1, NodesOfChain
        <5> QED BY <1>2, <2>1, <5>1, <5>2
      <4> QED BY <1>2, <2>1, <4>1, NodeIndexIs DEF HopNode
    <3>3. running'[n] = running[n]
      BY <3>2
    <3>4. PinsOf(jobs[j].chain)' = PinsOf(jobs[j].chain)
      BY <1>2 DEF PinsOf
    <3> QED BY <1>2, <3>1, <3>3, <3>4 DEF CarriesNow
  <2>2. Keyed(jobs'[j].chain)
    BY <1>0, <1>2 DEF Progress
  <2> QED BY <1>2, <2>1, <2>2 DEF Progress, CarriesNow
<1>7. GoodClean(j)'
  BY <1>0, <1>1, <1>2 DEF GoodClean
<1> QED BY <1>5, <1>6, <1>7

LEMMA GRenderHop ==
    ASSUME KInv, GInv, NEW j \in Jobs, OthersIdle(j), RenderHop(j)
    PROVE  GInv'
<1>0. StateShapes /\ routeDNS \in BOOLEAN
  BY DEF KInv, StateShapes
<1> DEFINE n == HopNode(j)
           cs == HopChains(j, n)
           cfg == MergedNodeConfig(cs, n, pins, routeDNS)
<1>1. /\ jobs[j].step = "hop" /\ UNCHANGED << routeDNS, chains, pins, running, good >>
      /\ \/ jobs' = [jobs EXCEPT ![j] = AfterHop(j, FALSE)]
         \/ ~PortConflict(cs, n) /\ StepTo(j, "install", cfg)
  BY DEF RenderHop, StepTo
<1>2. GoodCarried'
  <2>1. GoodStored' = GoodStored
    BY <1>1 DEF GoodStored
  <2> QED BY <1>0, <1>1, <2>1, GStay
<1>3. Pending(j)' /\ Progress(j)' /\ GoodClean(j)'
  <2>1. CASE jobs' = [jobs EXCEPT ![j] = AfterHop(j, FALSE)]
    BY <1>1, <2>1, GFailed
  <2>2. CASE ~PortConflict(cs, n) /\ StepTo(j, "install", cfg)
    <3>1. Applying(j)
      BY <1>1 DEF Applying
    <3>2. n \in ChainNodes(jobs[j].chain)
      BY <1>0, <3>1, ApplyingIs
    <3>3. /\ ChainList(cs, n)
          /\ \A c : c \in ToSet(cs) <=>
                \/ c = jobs[j].chain
                \/ c \in ToSet(chains) /\ n \in ChainNodes(c) /\ c.name # jobs[j].chain.name
      BY <1>0, <3>1, <3>2, HopList
    <3>4. ASSUME NEW c \in Covered(j), n \in ChainNodes(c) PROVE CarriesNow(cfg, n, c)
      <4>1. c \in ToSet(chains) /\ (c.name = jobs[j].chain.name => c = jobs[j].chain) /\ Keyed(c)
        BY <1>1, <3>1, GoodOrCopy
      <4> HIDE DEF cs
      <4>2. c \in ToSet(cs)
        BY <3>3, <3>4, <4>1
      <4>3. \A u \in Users : PinsOf(c)[u] = pins[u][c.name]
        BY DEF PinsOf
      <4> HIDE DEF n
      <4>4. Carries(MergedNodeConfig(cs, n, pins, routeDNS), n, c, PinsOf(c), routeDNS)
        BY <1>0, <2>2, <3>3, <4>1, <4>2, <4>3, Rendered
      <4> QED BY <4>4 DEF CarriesNow
    <3> HIDE DEF cfg
    <3> QED BY <1>1, <2>2, <3>4, GOn
  <2> QED BY <1>1, <2>1, <2>2
<1> QED BY <1>2, <1>3, GJob

LEMMA GInstallHop ==
    ASSUME KInv, GInv, NEW j \in Jobs, OthersIdle(j), InstallHop(j)
    PROVE  GInv'
<1>0. StateShapes /\ Pending(j)
  BY DEF KInv, GInv
<1>1. /\ jobs[j].step = "install" /\ UNCHANGED << routeDNS, chains, pins, good >>
      /\ running' = Installed(HopNode(j)) \/ running' = running
      /\ jobs' = [jobs EXCEPT ![j] = AfterHop(j, FALSE)] \/ StepTo(j, "push", jobs[j].cfg)
  BY DEF InstallHop, StepTo
<1>2. Applying(j)
  BY <1>1 DEF Applying
<1>3. HopNode(j) \in Nodes
  BY <1>0, <1>2, ApplyingIs
<1>4. \A m \in Nodes : m # HopNode(j) => running'[m] = running[m]
  BY <1>0, <1>1, <1>3, InstalledIs
<1>5. GoodCarried'
  <2>0. GoodStored' = GoodStored
    BY <1>1 DEF GoodStored
  <2>1. CASE running' = running
    BY <1>0, <1>1, <2>0, <2>1, GStay
  <2>2. CASE running' = Installed(HopNode(j))
    <3>1. PICK n : n = HopNode(j)
      OBVIOUS
    <3>2. Bare(n)'
      BY <1>0, <1>3, <2>2, <3>1, InstalledIs
    <3> QED BY <1>0, <1>1, <1>4, <2>0, <3>1, <3>2, GRunning
  <2> QED BY <1>1, <2>1, <2>2
<1>6. Pending(j)' /\ Progress(j)' /\ GoodClean(j)'
  <2>1. CASE jobs' = [jobs EXCEPT ![j] = AfterHop(j, FALSE)]
    BY <1>1, <2>1, GFailed
  <2>2. CASE StepTo(j, "push", jobs[j].cfg)
    <3>1. \A c \in Covered(j) : HopNode(j) \in ChainNodes(c) => CarriesNow(jobs[j].cfg, HopNode(j), c)
      BY <1>0, <1>1 DEF Pending
    <3> QED BY <1>1, <1>4, <2>2, <3>1, GOn
  <2> QED BY <1>1, <2>1, <2>2
<1> QED BY <1>5, <1>6, GJob

LEMMA GPushHop ==
    ASSUME KInv, GInv, NEW j \in Jobs, OthersIdle(j), PushHop(j)
    PROVE  GInv'
<1>0. StateShapes /\ Pending(j) /\ Progress(j) /\ GoodClean(j) /\ CopyCurrent(j) /\ DOMAIN running = Nodes
  BY DEF KInv, GInv, StateShapes
<1>1. jobs[j].step = "push" /\ UNCHANGED << routeDNS, chains, pins >>
  BY DEF PushHop
<1>2. Applying(j)
  BY <1>1 DEF Applying
<1> DEFINE b == jobs[j].chain
<1>3. /\ b \in AllChains /\ jobs[j].hop \in 1..Len(AllNodes(b)) /\ Len(AllNodes(b)) \in Nat
      /\ HopNode(j) \in ChainNodes(b) /\ HopNode(j) \in Nodes
  BY <1>0, <1>2, ApplyingIs
<1>4. CASE /\ running' = [running EXCEPT ![HopNode(j)] = jobs[j].cfg] /\ Finished(j, TRUE)
           /\ jobs' = [jobs EXCEPT ![j] = AfterHop(j, TRUE)]
  <2>1. running'[HopNode(j)] = jobs[j].cfg /\ \A m \in Nodes : m # HopNode(j) => running'[m] = running[m]
    BY <1>0, <1>3, <1>4
  <2>2. PICK n : n = HopNode(j)
    OBVIOUS
  <2>3. \A c \in Covered(j) : n \in ChainNodes(c) => Carries(running'[n], n, c, PinsOf(c), routeDNS)
    BY <1>0, <1>1, <2>1, <2>2 DEF Pending, CarriesNow
  <2>4. Keyed(b)
    BY <1>0, <1>1 DEF Progress
  <2>5. ASSUME jobs[j].ok, jobs[j].clean, NEW k \in 1..Len(AllNodes(b)), k <= jobs[j].hop,
               NEW m, m = AllNodes(b)[k]
        PROVE  Carries(running'[m], m, b, PinsOf(b), routeDNS)
    <3>1. CASE k = jobs[j].hop
      <4>1. m = n
        BY <2>2, <2>5, <3>1 DEF HopNode
      <4>2. b \in ToSet(chains)
        BY <1>0, <1>2, <2>5 DEF CopyCurrent
      <4>3. b \in Covered(j)
        BY <1>2, <2>5, <4>2 DEF Covered
      <4>4. n \in ChainNodes(b)
        BY <1>3, <2>2
      <4> QED BY <2>3, <4>1, <4>3, <4>4
    <3>2. CASE k # jobs[j].hop
      <4>1. k < jobs[j].hop
        BY <1>3, <2>5, <3>2
      <4>2. k \in DOMAIN AllNodes(b)
        BY <1>3, <2>5, NodesOfChain
      <4>3. CarriesNow(running[m], m, b)
        BY <1>0, <1>1, <2>5, <4>1, <4>2 DEF Progress
      <4>4. m \in Nodes /\ m # HopNode(j)
        BY <1>3, <2>5, <3>2, NodeIndexIs DEF HopNode
      <4> QED BY <2>1, <4>3, <4>4 DEF CarriesNow
    <3> QED BY <3>1, <3>2
  <2> HIDE DEF b
  <2>6. GoodCarried'
    <3> SUFFICES ASSUME NEW c \in GoodStored'
                 PROVE  Keyed(c) /\ \A m \in ChainNodes(c) : Bare(m)' \/ CarriesNow(running[m], m, c)'
      BY DEF GoodCarried
    <3>0. c \in ToSet(chains) /\ c.name \in good' /\ PinsOf(c)' = PinsOf(c)
      BY <1>1, SamePins DEF GoodStored
    <3>1. CASE c \in GoodStored
      <4>1. Keyed(c) /\ \A m \in ChainNodes(c) : Bare(m) \/ CarriesNow(running[m], m, c)
        BY <3>1 DEF GInv, GoodCarried
      <4>2. c \in Covered(j)
        BY <3>1 DEF Covered
      <4>3. ChainNodes(c) \subseteq Nodes
        BY <1>0, <3>0, InAllChains, NodesOfChain
      <4>4. ASSUME NEW m \in ChainNodes(c) PROVE Bare(m)' \/ CarriesNow(running[m], m, c)'
        <5>1. CASE m = n
          BY <1>1, <2>3, <3>0, <4>2, <5>1 DEF CarriesNow
        <5>2. CASE m # n
          <6>1. running'[m] = running[m]
            BY <2>1, <2>2, <4>3, <5>2
          <6> QED BY <1>1, <3>0, <4>1, <6>1 DEF CarriesNow, Bare
        <5> QED BY <5>1, <5>2
      <4> QED BY <4>1, <4>4
    <3>2. CASE c \notin GoodStored
      <4>1. c.name \notin good
        BY <3>0, <3>2 DEF GoodStored
      <4>2. AfterHop(j, TRUE) = Idle /\ jobs[j].ok /\ jobs[j].clean /\ c.name = b.name
        BY <1>4, <3>0, <4>1 DEF Finished, b
      <4>3. b \in ToSet(chains)
        BY <1>0, <1>2, <4>2 DEF CopyCurrent, b
      <4>4. c = b
        BY <1>0, <3>0, <4>2, <4>3, SameName
      <4>5. ~(jobs[j].hop < Len(AllNodes(b)))
        BY <1>0, <1>2, <1>4, <4>2, AfterHopIs DEF b
      <4>6. ASSUME NEW m \in ChainNodes(c) PROVE CarriesNow(running[m], m, c)'
        <5>1. PICK k \in 1..Len(AllNodes(b)) : m = AllNodes(b)[k]
          <6>1. m \in ChainNodes(b)
            BY <4>4
          <6> QED BY <1>3, <6>1, NodeIndexOf
        <5>2. k <= jobs[j].hop
          BY <1>3, <4>5, <5>1
        <5>3. Carries(running'[m], m, b, PinsOf(b), routeDNS)
          BY <2>5, <4>2, <5>1, <5>2
        <5> QED BY <1>1, <3>0, <4>4, <5>3 DEF CarriesNow
      <4> QED BY <2>4, <4>4, <4>6
    <3> QED BY <3>1, <3>2
  <2>7. Pending(j)' /\ Progress(j)' /\ GoodClean(j)'
    <3>1. CASE jobs'[j] = Idle
      BY <3>1, GIdle
    <3>2. CASE /\ jobs'[j].step = "hop" /\ jobs'[j].chain = jobs[j].chain
               /\ jobs'[j].clean = jobs[j].clean /\ jobs'[j].hop = jobs[j].hop + 1
               /\ jobs'[j].ok => jobs[j].ok /\ TRUE
               /\ AfterHop(j, TRUE) # Idle
      <4>1. good' = good
        BY <1>4, <3>2 DEF Finished
      <4>2. Pending(j)'
        BY <3>2 DEF Pending
      <4>3. ASSUME jobs'[j].ok, jobs'[j].clean,
                   NEW k \in DOMAIN AllNodes(jobs'[j].chain), k < jobs'[j].hop, NEW m, m = AllNodes(jobs'[j].chain)[k]
            PROVE  Carries(running'[m], m, jobs'[j].chain, PinsOf(jobs[j].chain)', routeDNS')
        <5>1. jobs'[j].chain = b /\ k \in 1..Len(AllNodes(b)) /\ m = AllNodes(b)[k] /\ k < jobs[j].hop + 1
          <6>1. jobs'[j].chain = b
            BY <3>2 DEF b
          <6> QED BY <1>3, <3>2, <4>3, <6>1, NodesOfChain
        <5>2. k <= jobs[j].hop
          BY <1>3, <5>1
        <5>3. jobs[j].ok /\ jobs[j].clean
          BY <3>2, <4>3
        <5>4. Carries(running'[m], m, b, PinsOf(b), routeDNS)
          BY <2>5, <5>1, <5>2, <5>3
        <5>5. PinsOf(jobs[j].chain)' = PinsOf(b)
          BY <1>1, <5>1 DEF PinsOf
        <5> QED BY <1>1, <5>1, <5>4, <5>5
      <4>4. Keyed(jobs'[j].chain)
        BY <2>4, <3>2 DEF b
      <4>5. Progress(j)'
        <5>1. jobs'[j].step = "hop"
          BY <3>2
        <5> QED BY <4>3, <4>4, <5>1 DEF Progress, CarriesNow
      <4>6. GoodClean(j)'
        <5>1. jobs'[j].chain = jobs[j].chain /\ jobs'[j].clean = jobs[j].clean
          BY <3>2
        <5> QED BY <1>0, <1>2, <4>1, <5>1 DEF GoodClean
      <4> QED BY <4>2, <4>5, <4>6
    <3> QED BY <1>0, <1>2, <1>4, <3>1, <3>2, AfterHopIs
  <2> QED BY <2>6, <2>7, GJob
<1>5. CASE jobs' = [jobs EXCEPT ![j] = AfterHop(j, FALSE)] /\ UNCHANGED << running, good >>
  <2>1. GoodStored' = GoodStored
    BY <1>1, <1>5 DEF GoodStored
  <2>2. GoodCarried'
    BY <1>0, <1>1, <1>5, <2>1, GStay
  <2>3. Pending(j)' /\ Progress(j)' /\ GoodClean(j)'
    BY <1>1, <1>5, GFailed
  <2> QED BY <2>2, <2>3, GJob
<1> QED BY <1>4, <1>5 DEF PushHop

LEMMA GStartNode ==
    ASSUME KInv, GInv, NEW j \in Jobs, OthersIdle(j), NEW n \in Nodes, StartNodeApply(j, n)
    PROVE  GInv'
<1>0. StateShapes
  BY DEF KInv
<1>1. UNCHANGED << routeDNS, chains, pins, running, good >>
  BY DEF StartNodeApply
<1>2. jobs'[j].step = "connect" /\ jobs'[j].node = n /\ jobs'[j].chains = GetChainsForNode(chains, n)
  BY <1>0, StartNodeIs
<1>3. GoodStored' = GoodStored
  BY <1>1 DEF GoodStored
<1>4. GoodCarried'
  BY <1>0, <1>1, <1>3, GStay
<1>5. Pending(j)'
  <2>1. /\ ChainList(GetChainsForNode(chains, n), n)
        /\ \A c : c \in ToSet(GetChainsForNode(chains, n)) <=> c \in ToSet(chains) /\ n \in ChainNodes(c)
    BY <1>0, NodeChains
  <2>2. \A c \in GoodStored' : c \in ToSet(chains)
    BY <1>3 DEF GoodStored
  <2> QED BY <1>2, <2>1, <2>2 DEF Pending
<1>6. Progress(j)' /\ GoodClean(j)'
  BY <1>2 DEF Progress, GoodClean, Applying
<1> QED BY <1>4, <1>5, <1>6, GJob

LEMMA GRenderNode ==
    ASSUME KInv, GInv, NEW j \in Jobs, OthersIdle(j), RenderNode(j)
    PROVE  GInv'
<1>0. StateShapes /\ Pending(j) /\ routeDNS \in BOOLEAN
  BY DEF KInv, GInv, StateShapes
<1> DEFINE n == jobs[j].node
           cs == jobs[j].chains
           cfg == MergedNodeConfig(cs, n, pins, routeDNS)
<1>1. /\ jobs[j].step = "connect" /\ UNCHANGED << routeDNS, chains, pins, running, good >>
      /\ \/ jobs' = [jobs EXCEPT ![j] = Idle]
         \/ /\ ~PortConflict(cs, n)
            /\ jobs' = [jobs EXCEPT ![j] = [step |-> "installnode", node |-> jobs[j].node, cfg |-> cfg]]
  BY DEF RenderNode
<1>2. GoodStored' = GoodStored
  BY <1>1 DEF GoodStored
<1>3. GoodCarried'
  BY <1>0, <1>1, <1>2, GStay
<1>4. CASE jobs' = [jobs EXCEPT ![j] = Idle]
  <2>1. jobs'[j] = Idle
    BY <1>0, <1>4 DEF StateShapes
  <2> QED BY <1>3, <2>1, GIdle, GJob
<1>5. CASE /\ ~PortConflict(cs, n)
           /\ jobs' = [jobs EXCEPT ![j] = [step |-> "installnode", node |-> jobs[j].node, cfg |-> cfg]]
  <2>1. jobs'[j].step = "installnode" /\ jobs'[j].node = n /\ jobs'[j].cfg = cfg
    <3> HIDE DEF cfg
    <3> QED BY <1>0, <1>1, <1>5, RenderNodeIs
  <2>2. ChainList(cs, n) /\ \A c \in GoodStored : n \in ChainNodes(c) => c \in ToSet(cs)
    BY <1>0, <1>1 DEF Pending
  <2> HIDE DEF cs, n
  <2>3. ASSUME NEW c \in GoodStored', n \in ChainNodes(c)
        PROVE  Carries(jobs'[j].cfg, n, c, PinsOf(c)', routeDNS')
    <3>1. c \in GoodStored /\ PinsOf(c)' = PinsOf(c)
      BY <1>1, <1>2, SamePins
    <3>2. Keyed(c)
      BY <3>1 DEF GInv, GoodCarried
    <3>3. c \in ToSet(cs)
      BY <2>2, <2>3, <3>1
    <3>4. \A u \in Users : PinsOf(c)[u] = pins[u][c.name]
      BY DEF PinsOf
    <3>5. Carries(MergedNodeConfig(cs, n, pins, routeDNS), n, c, PinsOf(c), routeDNS)
      BY <1>0, <1>5, <2>2, <3>2, <3>3, <3>4, Rendered
    <3> QED BY <1>1, <2>1, <3>1, <3>5
  <2>4. Pending(j)'
    BY <2>1, <2>3 DEF Pending, CarriesNow
  <2>5. Progress(j)' /\ GoodClean(j)'
    BY <2>1 DEF Progress, GoodClean, Applying
  <2> QED BY <1>3, <2>4, <2>5, GJob
<1> QED BY <1>1, <1>4, <1>5

LEMMA GInstallNode ==
    ASSUME KInv, GInv, NEW j \in Jobs, OthersIdle(j), InstallNode(j)
    PROVE  GInv'
<1>0. StateShapes /\ Pending(j)
  BY DEF KInv, GInv
<1>1. /\ jobs[j].step = "installnode" /\ UNCHANGED << routeDNS, chains, pins, good >> /\ running' = Installed(jobs[j].node)
      /\ jobs' = [jobs EXCEPT ![j].step = "pushnode"] \/ jobs' = [jobs EXCEPT ![j] = Idle]
  BY DEF InstallNode
<1>2. PICK n \in Nodes : n = jobs[j].node
  BY <1>0, <1>1, OnNodeIs
<1>3. Bare(n)' /\ \A m \in Nodes : m # n => running'[m] = running[m]
  BY <1>0, <1>1, <1>2, InstalledIs
<1>4. GoodStored' = GoodStored
  BY <1>1 DEF GoodStored
<1>5. GoodCarried'
  BY <1>0, <1>1, <1>3, <1>4, GRunning
<1>6. CASE jobs' = [jobs EXCEPT ![j] = Idle]
  <2>1. jobs'[j] = Idle
    BY <1>0, <1>6 DEF StateShapes
  <2> QED BY <1>5, <2>1, GIdle, GJob
<1>7. CASE jobs' = [jobs EXCEPT ![j].step = "pushnode"]
  <2>1. jobs'[j].step = "pushnode" /\ jobs'[j].node = n /\ jobs'[j].cfg = jobs[j].cfg
    BY <1>0, <1>1, <1>2, <1>7, InstallNodeIs
  <2>2. ASSUME NEW c \in GoodStored', n \in ChainNodes(c)
        PROVE  Carries(jobs'[j].cfg, n, c, PinsOf(c)', routeDNS')
    <3>1. c \in GoodStored /\ PinsOf(c)' = PinsOf(c)
      BY <1>1, <1>4, SamePins
    <3>2. CarriesNow(jobs[j].cfg, n, c)
      BY <1>0, <1>1, <1>2, <2>2, <3>1 DEF Pending
    <3> QED BY <1>1, <2>1, <3>1, <3>2 DEF CarriesNow
  <2>3. Pending(j)'
    BY <2>1, <2>2 DEF Pending, CarriesNow
  <2>4. Progress(j)' /\ GoodClean(j)'
    BY <2>1 DEF Progress, GoodClean, Applying
  <2> QED BY <1>5, <2>3, <2>4, GJob
<1> QED BY <1>1, <1>6, <1>7

LEMMA GPushNode ==
    ASSUME KInv, GInv, NEW j \in Jobs, OthersIdle(j), PushNode(j)
    PROVE  GInv'
<1>0. StateShapes /\ Pending(j) /\ DOMAIN running = Nodes /\ DOMAIN jobs = Jobs
  BY DEF KInv, GInv, StateShapes
<1>1. /\ jobs[j].step = "pushnode" /\ UNCHANGED << routeDNS, chains, pins, good >> /\ jobs' = [jobs EXCEPT ![j] = Idle]
      /\ running' = [running EXCEPT ![jobs[j].node] = jobs[j].cfg] \/ running' = running
  BY DEF PushNode
<1>2. jobs'[j] = Idle
  BY <1>0, <1>1
<1>3. GoodStored' = GoodStored
  BY <1>1 DEF GoodStored
<1>4. GoodCarried'
  <2>1. CASE running' = running
    BY <1>0, <1>1, <1>3, <2>1, GStay
  <2>2. CASE running' = [running EXCEPT ![jobs[j].node] = jobs[j].cfg]
    <3>1. PICK n \in Nodes : n = jobs[j].node
      BY <1>0, <1>1, OnNodeIs
    <3>2. running'[n] = jobs[j].cfg /\ \A m \in Nodes : m # n => running'[m] = running[m]
      BY <1>0, <2>2, <3>1
    <3>3. \A c \in GoodStored : n \in ChainNodes(c) => Carries(running'[n], n, c, PinsOf(c), routeDNS)
      BY <1>0, <1>1, <3>1, <3>2 DEF Pending, CarriesNow
    <3> QED BY <1>0, <1>1, <1>3, <3>2, <3>3, GRunning
  <2> QED BY <1>1, <2>1, <2>2
<1> QED BY <1>2, <1>4, GIdle, GJob

\* Every step of the specification.
LEMMA GNext ==
    ASSUME KInv, GInv, OneDeploy, OneDeploy', [CascadeNext]_cascadeVars
    PROVE  GInv'
<1>0. StateShapes /\ DOMAIN jobs = Jobs
  BY DEF KInv, StateShapes
<1>1. CASE UNCHANGED cascadeVars
  <2>1. UNCHANGED << routeDNS, chains, pins, jobs, running, good >>
    BY <1>1 DEF cascadeVars
  <2>2. GoodStored' = GoodStored
    BY <2>1 DEF GoodStored
  <2>3. GoodCarried'
    BY <1>0, <2>1, <2>2, GStay
  <2>4. ASSUME NEW j \in Jobs PROVE Pending(j)' /\ Progress(j)' /\ GoodClean(j)'
    <3>0. Pending(j) /\ Progress(j) /\ GoodClean(j)
      BY DEF GInv
    <3>1. (Applying(j)' <=> Applying(j)) /\ HopNode(j)' = HopNode(j)
      BY <2>1 DEF Applying, HopNode
    <3>2. Covered(j)' = Covered(j)
      BY <2>1, <2>2, <3>1 DEF Covered
    <3>3. Pending(j)'
      BY <2>1, <2>2, <3>0, <3>1, <3>2 DEF Pending, CarriesNow, PinsOf
    <3>4. Progress(j)'
      BY <2>1, <3>0 DEF Progress, CarriesNow, PinsOf
    <3>5. GoodClean(j)'
      BY <2>1, <3>0, <3>1 DEF GoodClean
    <3> QED BY <3>3, <3>4, <3>5
  <2> QED BY <2>3, <2>4 DEF GInv
<1>2. ASSUME NEW f \in Forms, SaveChain(f) PROVE GInv'
  BY <1>2, KSaveChain, GEdit
<1>3. ASSUME NEW c \in Names, DeleteChain(c) PROVE GInv'
  BY <1>3, KDeleteChain, GEdit
<1>4. ASSUME NEW u \in Users, NEW c \in Names, NEW n \in Nodes \cup {NoNode}, SetPin(u, c, n) PROVE GInv'
  BY <1>4, KSetPin, GEdit
<1>5. ASSUME NEW j \in Jobs, NEW c \in Names, StartApply(j, c) PROVE GInv'
  BY <1>5, OnlyJob, GStartApply DEF JobStep
<1>6. ASSUME NEW j \in Jobs, PreflightFails(j) PROVE GInv'
  <2>1. jobs' = [jobs EXCEPT ![j] = Idle] /\ UNCHANGED << routeDNS, chains, pins, running, good >>
    BY <1>6 DEF PreflightFails
  <2>2. jobs'[j] = Idle /\ GoodStored' = GoodStored
    BY <1>0, <2>1 DEF GoodStored
  <2>3. GoodCarried'
    BY <1>0, <2>1, <2>2, GStay
  <2>4. OthersIdle(j)
    BY <1>6, OnlyJob DEF JobStep
  <2> QED BY <2>2, <2>3, <2>4, GIdle, GJob
<1>7. ASSUME NEW j \in Jobs, SaveKeys(j) PROVE GInv'
  BY <1>7, OnlyJob, GSaveKeys DEF JobStep
<1>8. ASSUME NEW j \in Jobs, RenderHop(j) PROVE GInv'
  BY <1>8, OnlyJob, GRenderHop DEF JobStep
<1>9. ASSUME NEW j \in Jobs, InstallHop(j) PROVE GInv'
  BY <1>9, OnlyJob, GInstallHop DEF JobStep
<1>10. ASSUME NEW j \in Jobs, PushHop(j) PROVE GInv'
  BY <1>10, OnlyJob, GPushHop DEF JobStep
<1>11. ASSUME NEW j \in Jobs, NEW n \in Nodes, StartNodeApply(j, n) PROVE GInv'
  BY <1>11, OnlyJob, GStartNode DEF JobStep
<1>12. ASSUME NEW j \in Jobs, RenderNode(j) PROVE GInv'
  BY <1>12, OnlyJob, GRenderNode DEF JobStep
<1>13. ASSUME NEW j \in Jobs, InstallNode(j) PROVE GInv'
  BY <1>13, OnlyJob, GInstallNode DEF JobStep
<1>14. ASSUME NEW j \in Jobs, PushNode(j) PROVE GInv'
  BY <1>14, OnlyJob, GPushNode DEF JobStep
<1>15. CASE CascadeNext
  BY <1>2, <1>3, <1>4, <1>5, <1>6, <1>7, <1>8, <1>9, <1>10, <1>11, <1>12, <1>13, <1>14, <1>15 DEF CascadeNext
<1> QED BY <1>1, <1>15

LEMMA GInit ==
    ASSUME CascadeInit
    PROVE  GInv
<1>1. good = {} /\ jobs = [j \in Jobs |-> Idle]
  BY DEF CascadeInit
<1>2. GoodCarried
  BY <1>1 DEF GoodCarried, GoodStored
<1>3. ASSUME NEW j \in Jobs PROVE Pending(j) /\ Progress(j) /\ GoodClean(j)
  <2>1. jobs[j].step = "idle"
    BY <1>1, IdleIs
  <2> QED BY <2>1 DEF Pending, Progress, GoodClean, Applying
<1> QED BY <1>2, <1>3 DEF GInv

LEMMA GoodHolds ==
    CascadeSpec /\ []OneDeploy => [](KInv /\ GInv)
<1>1. CascadeInit => KInv /\ GInv
  BY KInit, GInit
<1>2. (KInv /\ GInv) /\ OneDeploy /\ OneDeploy' /\ [CascadeNext]_cascadeVars => (KInv /\ GInv)'
  BY KNext, GNext
<1> QED BY <1>1, <1>2, PTL DEF CascadeSpec

\* In a behaviour in which no two deploys overlap, a chain that was applied
\* with success serves every connection of every user until it is edited or
\* one of its nodes is installed again, wherever the source addresses of
\* connections are kept: the merged configs of its nodes agree on links,
\* credentials and routes (merged_config.go), and no later edit or deploy of
\* another chain, however it ends, breaks the agreement. The panel lets
\* deploys overlap (chains.go:318, the slots of auto-apply): nothing is said
\* of the behaviours in which they do.
THEOREM ChainsAreDelivered ==
    CascadeSpec /\ []OneDeploy => []Delivered
<1>1. KInv /\ GInv => Delivered
  BY GoodDelivered DEF KInv
<1> QED BY <1>1, GoodHolds, PTL

\* In the same behaviours a pinned user of a kernel AWG chain with one node per
\* level leaves at the node of the pin exactly where the inbound of that node
\* still sees the user's own address, and at the last node otherwise
\* (MergedRoute, pin rules before generic ones, merged_config.go:426-431).
THEOREM PinsAreHonoured ==
    CascadeSpec /\ []OneDeploy => []PinHonoured
<1>1. KInv /\ GInv => PinHonoured
  BY GoodDelivered DEF KInv
<1> QED BY <1>1, GoodHolds, PTL
=============================================================================
