------------------------------ MODULE Deploys ------------------------------
(***************************************************************************)
(* The deploys of the panel process: the background auto-apply of          *)
(* internal/chain/autoapply.go, the explicit Apply of a node               *)
(* (internal/web/chains.go), ApplyMergedNode that both run                 *)
(* (applier_build.go), the deploy hash of deploystatus.go, the handlers    *)
(* that change a node and schedule a deploy (internal/web/nodes.go) and    *)
(* the graceful shutdown of cmd/angry-box/shutdown.go.                     *)
(*                                                                         *)
(* Every Store method is one atomic step (what PanelStore establishes for  *)
(* a shared Store); a deploy and a handler are several of them, and keep a *)
(* copy of the NodeInfo in between. Of a NodeInfo the model keeps the list *)
(* of AWG outbound IDs (its user-editable content), the auto-apply switch  *)
(* and LastDeployedHash; a rendered config is the list it was made from    *)
(* and its own hash (sha256 is taken to be injective). The SSH push is one *)
(* step with two outcomes; NodePush has its inside.                        *)
(***************************************************************************)
EXTENDS Naturals, FiniteSets, Sequences

CONSTANTS
    Node,
    Task,          \* goroutines that run a deploy at one time (bound)
    Request,       \* handlers that edit a node at one time (bound)
    MaxConcurrent, \* autoApplyMaxConcurrent
    MaxOps,        \* bound on operator actions
    MayApply,      \* whether the operator uses the explicit Apply
    MayTimeout,    \* whether the 10s drain budget may run out
    NoInfo, NoConfig, Nobody

ASSUME BoundAssumption ==
    /\ MaxConcurrent \in Nat \ {0}
    /\ MaxOps \in Nat
    /\ MayApply \in BOOLEAN
    /\ MayTimeout \in BOOLEAN
    /\ Nobody \notin Task
    /\ IsFiniteSet(Task)

\* An ID is a list length plus one, so MaxOps bounds it.
OutboundId == 1 .. MaxOps + 1
Config     == Seq(OutboundId)
Hash       == Config \cup {NoConfig}
Info       == [outs : Config, auto : BOOLEAN, hash : Hash]

VARIABLES
    hosts,     \* nodes with a Host record
    info,      \* the stored NodeInfos
    remote,    \* the config each node runs
    lock,      \* per-host mutex: the task inside the push
    slots,     \* used capacity of autoApplyCtx.deploySem
    task,      \* the deploys
    req,       \* the handlers
    phase,     \* of the process: serving, draining, waiting, exited
    ops,       \* operator actions so far
    applied,   \* history: configs pushed with success
    installing \* nodes with a post-capture installation under way

vars == <<hosts, info, remote, lock, slots, task, req, phase, ops, applied, installing>>

NewTask(pc, n, bg, copy) ==
    [pc |-> pc, node |-> n, bg |-> bg, copy |-> copy, cfg |-> NoConfig, fresh |-> NoInfo]
NoTask == NewTask("free", NoInfo, FALSE, NoInfo)
NoReq  == [pc |-> "idle", node |-> NoInfo, copy |-> NoInfo]

Step == {"free", "queued", "load", "persist", "connect", "push", "pushing",
         "stampread", "stamp", "end"}

TypeOK ==
    /\ hosts \subseteq Node
    /\ info \in [Node -> Info \cup {NoInfo}]
    /\ remote \in [Node -> Hash]
    /\ lock \in [Node -> Task \cup {Nobody}]
    /\ slots \in 0 .. MaxConcurrent
    /\ task \in [Task -> [pc : Step, node : Node \cup {NoInfo}, bg : BOOLEAN,
                          copy : Info \cup {NoInfo}, cfg : Hash,
                          fresh : Info \cup {NoInfo}]]
    /\ req \in [Request -> [pc : {"idle", "edit"}, node : Node \cup {NoInfo},
                            copy : Info \cup {NoInfo}]]
    /\ phase \in {"serving", "draining", "waiting", "exited"}
    /\ ops \in 0 .. MaxOps
    /\ applied \in [Node -> SUBSET Config]
    /\ installing \subseteq Node

\* Nodes that were deployed, or never were, with the switch on or off.
Init ==
    /\ hosts = Node
    /\ remote \in [Node -> {<<>>, NoConfig}]
    /\ info \in [Node -> {[outs |-> <<>>, auto |-> a, hash |-> h] :
                             a \in BOOLEAN, h \in {<<>>, NoConfig}}]
    /\ \A n \in Node : info[n].hash = remote[n]
    /\ lock = [n \in Node |-> Nobody]
    /\ slots = 0
    /\ task = [t \in Task |-> NoTask]
    /\ req = [r \in Request |-> NoReq]
    /\ phase = "serving"
    /\ ops = 0
    /\ applied = [n \in Node |-> {remote[n]} \ {NoConfig}]
    /\ installing = {}

Alive == phase # "exited"

SaveNodeInfo(n, i) == info' = [info EXCEPT ![n] = i]

SetTask(t, new) == task' = [task EXCEPT ![t] = new]

Goto(t, s) == SetTask(t, [task[t] EXCEPT !.pc = s])

-----------------------------------------------------------------------------
(* The operator: requests are accepted while the server is up *)

Accepting ==
    /\ phase = "serving"
    /\ ops < MaxOps
    /\ ops' = ops + 1

\* ScheduleAutoApply: backgroundTasks.Add and go.
ScheduleAutoApply(n) ==
    \E t \in Task :
        /\ task[t].pc = "free"
        /\ SetTask(t, NewTask("queued", n, TRUE, NoInfo))

\* handleAddAWGOutbound, handleDeleteAWGOutbound: GetNodeInfo; 404 without one.
EditNode(r, n) ==
    /\ Accepting
    /\ req[r].pc = "idle"
    /\ info[n] # NoInfo
    /\ req' = [req EXCEPT ![r] = [pc |-> "edit", node |-> n, copy |-> info[n]]]
    /\ UNCHANGED <<hosts, info, remote, lock, slots, task, phase, applied, installing>>

\* ... the new ID is the length of the list plus one ...
SaveAddedOutbound(r) ==
    /\ Alive
    /\ req[r].pc = "edit"
    /\ LET n  == req[r].node
           id == Len(req[r].copy.outs) + 1
       IN  /\ SaveNodeInfo(n, [req[r].copy EXCEPT !.outs = Append(@, id)])
           /\ ScheduleAutoApply(n)
    /\ req' = [req EXCEPT ![r] = NoReq]
    /\ UNCHANGED <<hosts, remote, lock, slots, phase, ops, applied, installing>>

\* ... or every outbound with the given ID is dropped.
Without(outs, id) == SelectSeq(outs, LAMBDA o : o # id)

SaveDeletedOutbound(r) ==
    /\ Alive
    /\ req[r].pc = "edit"
    /\ LET n == req[r].node
       IN  \E id \in OutboundId :
              /\ SaveNodeInfo(n, [req[r].copy EXCEPT !.outs = Without(@, id)])
              /\ ScheduleAutoApply(n)
    /\ req' = [req EXCEPT ![r] = NoReq]
    /\ UNCHANGED <<hosts, remote, lock, slots, phase, ops, applied, installing>>

\* handleDeleteNode: DeleteHost drops the Host and the NodeInfo in one write.
DeleteNode(n) ==
    /\ Accepting
    /\ n \in hosts
    /\ hosts' = hosts \ {n}
    /\ SaveNodeInfo(n, NoInfo)
    /\ UNCHANGED <<remote, lock, slots, task, req, phase, applied, installing>>

\* recordDeploySuccess and the capture start from an empty NodeInfo.
EmptyInfo == [outs |-> <<>>, auto |-> FALSE, hash |-> NoConfig]

\* handleCaptureNode: the node, known or not, is stored anew (SaveHost and
\* SaveNodeInfo in one step: nothing here reads only one of them), and a
\* goroutine may install sing-box, outside the WaitGroup of the deploys.
CaptureNode(n) ==
    /\ Accepting
    /\ hosts' = hosts \cup {n}
    /\ SaveNodeInfo(n, EmptyInfo)
    /\ installing' \in {installing, installing \cup {n}}
    /\ UNCHANGED <<remote, lock, slots, task, req, phase, applied>>

\* postCaptureInstall: what the installation leaves is its minimal config.
PostCaptureInstall(n) ==
    /\ Alive
    /\ n \in installing
    /\ remote' \in {remote, [remote EXCEPT ![n] = NoConfig]}
    /\ installing' = installing \ {n}
    /\ UNCHANGED <<hosts, info, lock, slots, task, req, phase, ops, applied>>

\* handleApplyNode: GetNodeInfo, then the deploy in the handler's goroutine.
ApplyNode(t, n) ==
    /\ MayApply
    /\ Accepting
    /\ task[t].pc = "free"
    /\ info[n] # NoInfo
    /\ SetTask(t, NewTask("persist", n, FALSE, info[n]))
    /\ UNCHANGED <<hosts, info, remote, lock, slots, req, phase, applied, installing>>

-----------------------------------------------------------------------------
(* A deploy *)

\* sem <- struct{}{}
AcquireSlot(t) ==
    /\ Alive
    /\ task[t].pc = "queued"
    /\ slots < MaxConcurrent
    /\ slots' = slots + 1
    /\ Goto(t, "load")
    /\ UNCHANGED <<hosts, info, remote, lock, req, phase, ops, applied, installing>>

\* runAutoDeploy: no NodeInfo or switch off ends the task.
LoadNode(t) ==
    /\ Alive
    /\ task[t].pc = "load"
    /\ LET i == info[task[t].node]
       IN  IF i # NoInfo /\ i.auto
           THEN SetTask(t, [task[t] EXCEPT !.pc = "persist", !.copy = i])
           ELSE Goto(t, "end")
    /\ UNCHANGED <<hosts, info, remote, lock, slots, req, phase, ops, applied, installing>>

\* applyMergedNodeLocked: a node without an address and chains that do not
\* resolve end it; the ensured material is persisted with the copy.
PersistMaterial(t) ==
    /\ Alive
    /\ task[t].pc = "persist"
    /\ \/ Goto(t, "end") /\ UNCHANGED info
       \/ SaveNodeInfo(task[t].node, task[t].copy) /\ Goto(t, "connect")
    /\ UNCHANGED <<hosts, remote, lock, slots, req, phase, ops, applied, installing>>

\* SSH connect; the kernel flag is persisted with the copy again, the config is
\* rendered from the copy, sing-box and the module are installed, which leaves
\* the node with the minimal config of the installation (NoConfig).
ConnectAndRender(t) ==
    /\ Alive
    /\ task[t].pc = "connect"
    /\ \/ Goto(t, "end") /\ UNCHANGED <<info, remote>>
       \/ SaveNodeInfo(task[t].node, task[t].copy) /\ Goto(t, "end") /\ UNCHANGED remote
       \/ /\ SaveNodeInfo(task[t].node, task[t].copy)
          /\ remote' = [remote EXCEPT ![task[t].node] = NoConfig]
          /\ \/ Goto(t, "end")
             \/ SetTask(t, [task[t] EXCEPT !.pc = "push", !.cfg = task[t].copy.outs])
    /\ UNCHANGED <<hosts, lock, slots, req, phase, ops, applied, installing>>

\* withHostLock
LockHost(t) ==
    /\ Alive
    /\ task[t].pc = "push"
    /\ lock[task[t].node] = Nobody
    /\ lock' = [lock EXCEPT ![task[t].node] = t]
    /\ Goto(t, "pushing")
    /\ UNCHANGED <<hosts, info, remote, slots, req, phase, ops, applied, installing>>

\* Defect variant: the hash is recorded whatever the push returned.
PushIgnoringError(t) ==
    /\ Alive
    /\ task[t].pc = "pushing"
    /\ lock' = [lock EXCEPT ![task[t].node] = Nobody]
    /\ Goto(t, "stampread")
    /\ UNCHANGED <<hosts, info, remote, slots, req, phase, ops, applied, installing>>

\* Defect variant: the error path returns without unlocking the host.
PushLeakingLock(t) ==
    /\ Alive
    /\ task[t].pc = "pushing"
    /\ LET n == task[t].node
       IN  \/ /\ remote' = [remote EXCEPT ![n] = task[t].cfg]
              /\ applied' = [applied EXCEPT ![n] = @ \cup {task[t].cfg}]
              /\ lock' = [lock EXCEPT ![n] = Nobody]
              /\ Goto(t, "stampread")
           \/ /\ Goto(t, "end")
              /\ UNCHANGED <<remote, applied, lock>>
    /\ UNCHANGED <<hosts, info, slots, req, phase, ops, installing>>

\* pushConfigWithAWGTeardown: the node runs the config, or the old one again.
PushConfig(t) ==
    /\ Alive
    /\ task[t].pc = "pushing"
    /\ LET n == task[t].node
       IN  /\ lock' = [lock EXCEPT ![n] = Nobody]
           /\ \/ /\ remote' = [remote EXCEPT ![n] = task[t].cfg]
                 /\ applied' = [applied EXCEPT ![n] = @ \cup {task[t].cfg}]
                 /\ Goto(t, "stampread")
              \/ /\ Goto(t, "end")
                 /\ UNCHANGED <<remote, applied>>
    /\ UNCHANGED <<hosts, info, slots, req, phase, ops, installing>>

\* recordDeploySuccess reads the NodeInfo again, or starts from an empty one.
StampRead(t) ==
    /\ Alive
    /\ task[t].pc = "stampread"
    /\ LET i == info[task[t].node]
       IN  SetTask(t, [task[t] EXCEPT !.pc = "stamp",
                                      !.fresh = IF i = NoInfo THEN EmptyInfo ELSE i])
    /\ UNCHANGED <<hosts, info, remote, lock, slots, req, phase, ops, applied, installing>>

Stamp(t) ==
    /\ Alive
    /\ task[t].pc = "stamp"
    /\ SaveNodeInfo(task[t].node, [task[t].fresh EXCEPT !.hash = task[t].cfg])
    /\ Goto(t, "end")
    /\ UNCHANGED <<hosts, remote, lock, slots, req, phase, ops, applied, installing>>

\* Defect variant: a task that found nothing to do keeps its slot.
EndKeepingSlot(t) ==
    /\ Alive
    /\ task[t].pc = "end"
    /\ slots' = IF task[t].bg /\ task[t].copy # NoInfo THEN slots - 1 ELSE slots
    /\ SetTask(t, NoTask)
    /\ UNCHANGED <<hosts, info, remote, lock, req, phase, ops, applied, installing>>

\* The deferred release of the slot; handleApplyNode instead saves the copy it
\* read before the deploy, whatever the outcome.
End(t) ==
    /\ Alive
    /\ task[t].pc = "end"
    /\ \/ /\ task[t].bg
          /\ slots' = slots - 1
          /\ UNCHANGED info
       \/ /\ ~task[t].bg
          /\ SaveNodeInfo(task[t].node, task[t].copy)
          /\ UNCHANGED slots
    /\ SetTask(t, NoTask)
    /\ UNCHANGED <<hosts, remote, lock, req, phase, ops, applied, installing>>

-----------------------------------------------------------------------------
(* gracefulShutdown *)

Signal ==
    /\ phase = "serving"
    /\ phase' = "draining"
    /\ UNCHANGED <<hosts, info, remote, lock, slots, task, req, ops, applied, installing>>

HandlersDone ==
    /\ \A r \in Request : req[r].pc = "idle"
    /\ \A t \in Task : task[t].pc # "free" => task[t].bg

\* srv.Shutdown returns when the handlers are done or the budget is used up.
Drain ==
    /\ phase = "draining"
    /\ HandlersDone \/ MayTimeout
    /\ phase' = "waiting"
    /\ UNCHANGED <<hosts, info, remote, lock, slots, task, req, ops, applied, installing>>

\* WaitAutoApply, then main returns: what still runs is gone, a handler over the
\* budget as well as an installation after a capture.
Exit ==
    /\ phase = "waiting"
    /\ \A t \in Task : ~task[t].bg
    /\ phase' = "exited"
    /\ UNCHANGED <<hosts, info, remote, lock, slots, task, req, ops, applied, installing>>

Exited == phase = "exited" /\ UNCHANGED vars

Deploy(t) ==
    \/ LoadNode(t) \/ PersistMaterial(t) \/ ConnectAndRender(t) \/ PushConfig(t)
    \/ StampRead(t) \/ Stamp(t) \/ End(t)

Save(r) == SaveAddedOutbound(r) \/ SaveDeletedOutbound(r)

Next ==
    \/ \E t \in Task : AcquireSlot(t) \/ LockHost(t) \/ Deploy(t)
    \/ \E r \in Request : Save(r)
    \/ \E n \in Node :
          \/ DeleteNode(n) \/ CaptureNode(n) \/ PostCaptureInstall(n)
          \/ \E r \in Request : EditNode(r, n)
          \/ \E t \in Task : ApplyNode(t, n)
    \/ Signal \/ Drain \/ Exit \/ Exited

\* Every SSH command has a deadline, so a deploy goes on. A channel send and a
\* sync.Mutex serve their waiters in turn: no waiter is passed for ever.
Fairness ==
    /\ \A t \in Task : /\ WF_vars(Deploy(t))
                       /\ SF_vars(AcquireSlot(t))
                       /\ SF_vars(LockHost(t))
    /\ \A r \in Request : WF_vars(Save(r))
    /\ \A n \in Node : WF_vars(PostCaptureInstall(n))
    /\ WF_vars(Drain)
    /\ WF_vars(Exit)

Spec == Init /\ [][Next]_vars /\ Fairness

-----------------------------------------------------------------------------
(* Properties *)

\* autoApplyMaxConcurrent: as many background deploys are past the semaphore as
\* it counts, and never more than its capacity.
SlotsCounted ==
    slots = Cardinality({t \in Task : task[t].bg /\ task[t].pc # "queued"})

\* recordDeploySuccess: a stored hash always names a config that the node
\* accepted, however deploys, edits and stale copies interleave.
HashWasApplied ==
    \A n \in Node : info[n] # NoInfo => info[n].hash \in applied[n] \cup {NoConfig}

\* A deploy that was scheduled ends and gives its slot back.
DeployEnds == \A t \in Task : task[t].pc # "free" ~> (task[t].pc = "free" \/ ~Alive)

\* A termination signal ends the process, whatever is queued or running.
ShutdownEnds == phase = "draining" ~> phase = "exited"
=============================================================================
