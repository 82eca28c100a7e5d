------------------------------ MODULE NodePush ------------------------------
(***************************************************************************)
(* The deploy of one node: the installation that every apply starts with   *)
(* (backend/singbox/singbox.go), which writes a minimal config and         *)
(* restarts sing-box, and pushConfigWithAWGTeardown with everything it     *)
(* calls (internal/chain/awg_push.go, applier_push.go, awg_peersync.go,    *)
(* hostlock.go). Several deployers (web handlers, background auto-apply,   *)
(* relocation) deploy their own rendered version to the node; the per-host *)
(* mutex serialises the pushes, not the installations. Locks of different  *)
(* nodes are independent, so one node is enough.                           *)
(*                                                                         *)
(* The node has two layers: the sing-box config file with its service, and *)
(* one awg-quick conf with its service per kernel interface. A version is  *)
(* what one render produced for both layers. An SSH command succeeds,      *)
(* fails before it took effect, or fails after it did (a timeout); every   *)
(* command that carries the deploy's context also fails once that context  *)
(* is cancelled, while Run (backup and rollback) does not look at it.      *)
(***************************************************************************)
EXTENDS Naturals

CONSTANTS
    Deployer,
    Version,
    Goals,         \* versions that are deployed
    Minimal,       \* the config that the installation writes
    Iface,         \* kernel AWG interfaces (awg0, awg1, awg-exit-n...)
    Rendered,      \* interfaces a version renders a conf for
    TornDown,      \* interfaces a version stops (AWG3 binds the port itself)
    SameInterface, \* pairs of versions with the same [Interface] section
    CheckOK,       \* versions `sing-box check` accepts
    ServiceOK,     \* versions whose sing-box service comes up
    AwgOK,         \* versions whose awg-quick services come up
    NoFile, Torn, NoPath, Down, Nobody,
    MaxFaults,     \* bound on failed SSH commands and cancelled contexts
    InitialNodes   \* node states the pushes start from

FileContent == Version \cup {NoFile, Torn}
Running     == Version \cup {Down, Torn}

Node == [cfg : FileContent, run : Running,
         conf : [Iface -> FileContent], live : [Iface -> Running]]

ASSUME VersionAssumption ==
    /\ Goals \subseteq Version \ {Minimal}
    /\ Minimal \in ServiceOK /\ Rendered[Minimal] = {}
    /\ Rendered \in [Version -> SUBSET Iface]
    /\ TornDown \in [Version -> SUBSET Iface]
    /\ \A v \in Version : Rendered[v] \cap TornDown[v] = {}
    /\ SameInterface \subseteq Version \X Version
    /\ CheckOK \subseteq Version
    /\ ServiceOK \subseteq CheckOK
    /\ AwgOK \subseteq Version

ASSUME ConstantAssumption ==
    /\ Nobody \notin Deployer
    /\ {NoFile, Torn, NoPath, Down} \cap Version = {}
    /\ NoPath \notin {NoFile, Torn}
    /\ MaxFaults \in Nat
    /\ InitialNodes \subseteq Node

VARIABLES
    node,       \* files and services of the node
    lock,       \* holder of the host mutex
    pc,         \* where each deployer is in the push
    job,        \* each deployer's local variables
    cancelled,  \* whether each deployer's context is cancelled
    faults,     \* SSH failures so far
    before,     \* history: the node as the holder of the lock found it
    overwritten \* history: an installation wrote the config since then

NoNode == [cfg |-> NoFile]

vars == <<node, lock, pc, job, cancelled, faults, before, overwritten>>

Backup == FileContent \cup {NoPath}

Job == [target  : Version,         \* what is deployed
        todo    : SUBSET Iface,    \* confs not pushed yet
        cur     : SUBSET Iface,    \* the conf being pushed
        synced  : BOOLEAN,         \* its peers were synced live
        records : SUBSET Iface,    \* awgPushRecord list: confs to roll back
        bak     : [Iface -> Backup],
        cbak    : Backup,          \* backup of the sing-box config
        restart : SUBSET Iface,    \* needRestart
        restore : SUBSET Iface,    \* units torn down that were active
        err     : {"none", "deploy", "rollback", "other"}]

NewJob(v) ==
    [target |-> v, todo |-> Rendered[v], cur |-> {}, synced |-> FALSE, records |-> {},
     bak |-> [i \in Iface |-> NoPath], cbak |-> NoPath,
     restart |-> {}, restore |-> {}, err |-> "none"]

Target(d) == job[d].target

Step == {"idle", "start", "ready", "prepare", "sync", "conf", "upconf", "services", "teardown", "backup",
         "assets", "upload", "check", "restart", "probe", "rollback",
         "restore", "unconf", "return"}

TypeOK ==
    /\ node \in Node
    /\ lock \in Deployer \cup {Nobody}
    /\ pc \in [Deployer -> Step]
    /\ job \in [Deployer -> Job]
    /\ cancelled \in [Deployer -> BOOLEAN]
    /\ faults \in Nat
    /\ before \in Node \cup {NoNode}
    /\ overwritten \in BOOLEAN

Init ==
    /\ node \in InitialNodes
    /\ lock = Nobody
    /\ pc = [d \in Deployer |-> "idle"]
    /\ job = [d \in Deployer |-> NewJob(Minimal)]
    /\ cancelled = [d \in Deployer |-> FALSE]
    /\ faults = 0
    /\ before = NoNode
    /\ overwritten = FALSE

-----------------------------------------------------------------------------
(* SSH commands and what they do to the node *)

Fault == faults < MaxFaults /\ faults' = faults + 1

\* RunWithOutput and UploadText carry the deploy context; Run does not.
CtxOk(d)  == ~cancelled[d] /\ UNCHANGED faults
CtxErr(d) == (cancelled[d] /\ UNCHANGED faults) \/ (~cancelled[d] /\ Fault)
RunOk     == UNCHANGED faults
RunErr    == Fault

\* systemctl restart: the service runs what is on disk, or does not come up.
StartSingBox(content) == IF content \in ServiceOK THEN content ELSE Down
StartAwg(content)     == IF content \in AwgOK THEN content ELSE Down

\* performRollback's script restores a backup file that exists; after a backup
\* of nothing (first deploy) the file stays as it is.
Restored(content, bak) == IF bak = NoFile THEN content ELSE bak

RolledBackCfg(n, bak) ==
    LET c == Restored(n.cfg, bak)
    IN  [n EXCEPT !.cfg = c, !.run = StartSingBox(c)]

RolledBackConf(n, i, bak) ==
    LET c == Restored(n.conf[i], bak)
    IN  [n EXCEPT !.conf[i] = c, !.live[i] = StartAwg(c)]

Goto(d, s) == pc' = [pc EXCEPT ![d] = s]

SetJob(d, j) == job' = [job EXCEPT ![d] = j]

\* Go to step s with error e.
FailTo(d, s, e) ==
    /\ Goto(d, s)
    /\ SetJob(d, [job[d] EXCEPT !.err = e])

-----------------------------------------------------------------------------
(* deployOptsAndClient, without the host mutex *)

\* An apply that ends; the deployer may deploy again later.
End(d) ==
    /\ Goto(d, "idle")
    /\ SetJob(d, NewJob(Minimal))
    /\ cancelled' = [cancelled EXCEPT ![d] = FALSE]

\* The minimal config replaces the one on the node, in the middle of another
\* deployer's push too. The unprivileged upload ignores its error.
Install(d, v) ==
    /\ pc[d] = "idle"
    /\ \/ CtxOk(d) /\ node' = [node EXCEPT !.cfg = Minimal]
       \/ CtxErr(d) /\ \E c \in {node.cfg, Torn, Minimal} : node' = [node EXCEPT !.cfg = c]
    /\ \/ Goto(d, "start") /\ SetJob(d, NewJob(v)) /\ UNCHANGED cancelled
       \/ faults' # faults /\ End(d)
    /\ overwritten' = (lock # Nobody)
    /\ UNCHANGED <<lock, before>>

\* Restart, verifyServiceUp, then the AWG module, whose build may fail.
StartUnit(d) ==
    /\ pc[d] = "start"
    /\ \/ CtxOk(d) /\ node' = [node EXCEPT !.run = StartSingBox(node.cfg)]
       \/ CtxErr(d) /\ node' \in {node, [node EXCEPT !.run = StartSingBox(node.cfg)]}
    /\ \/ /\ CtxOk(d) /\ node'.run # Down
          /\ Goto(d, "ready") /\ UNCHANGED <<job, cancelled>>
       \/ End(d)
    /\ UNCHANGED <<lock, before, overwritten>>

-----------------------------------------------------------------------------
(* pushAWGConfs *)

\* Defect variant: the deployer does not take the host mutex.
LockUnguarded(d) ==
    /\ pc[d] = "ready"
    /\ lock' = d
    /\ before' = node
    /\ overwritten' = FALSE
    /\ Goto(d, IF Rendered[Target(d)] = {} THEN "teardown" ELSE "prepare")
    /\ UNCHANGED <<node, job, cancelled, faults>>

\* withHostLock; a push without kernel confs goes on with the sing-box config.
Lock(d) ==
    /\ pc[d] = "ready"
    /\ lock = Nobody
    /\ lock' = d
    /\ before' = node
    /\ overwritten' = FALSE
    /\ Goto(d, IF Rendered[Target(d)] = {} THEN "teardown" ELSE "prepare")
    /\ UNCHANGED <<node, job, cancelled, faults>>

\* awgConfDirExists and ensureIPForward
Prepare(d) ==
    /\ pc[d] = "prepare"
    /\ \/ CtxOk(d) /\ Goto(d, "sync") /\ UNCHANGED job
       \/ CtxErr(d) /\ FailTo(d, "return", "other")
    /\ UNCHANGED <<node, lock, cancelled, before, overwritten>>

\* The [Interface] section on disk is the new one and the unit is active.
PeerSyncApplies(d, i) ==
    /\ node.live[i] # Down
    /\ node.conf[i] \in Version
    /\ <<node.conf[i], Target(d)>> \in SameInterface

\* tryPeerSync on the next conf, before the file is overwritten: the live peers
\* become the new ones. A failed sync may have changed some of them.
PeerSync(d) ==
    /\ pc[d] = "sync"
    /\ \E i \in job[d].todo :
          \/ /\ CtxOk(d)
             /\ PeerSyncApplies(d, i)
             /\ node' = [node EXCEPT !.live[i] = Target(d)]
             /\ SetJob(d, [job[d] EXCEPT !.cur = {i}, !.synced = TRUE])
          \/ /\ CtxOk(d)
             /\ ~PeerSyncApplies(d, i)
             /\ SetJob(d, [job[d] EXCEPT !.cur = {i}, !.synced = FALSE])
             /\ UNCHANGED node
          \/ /\ CtxErr(d)
             /\ SetJob(d, [job[d] EXCEPT !.cur = {i}, !.synced = FALSE])
             /\ \/ UNCHANGED node
                \/ /\ PeerSyncApplies(d, i)
                   /\ node' = [node EXCEPT !.live[i] = Torn]
    /\ Goto(d, "conf")
    /\ UNCHANGED <<lock, cancelled, before, overwritten>>

\* createBackup of the current conf; a failure is only logged.
BackupConf(d) ==
    /\ pc[d] = "conf"
    /\ \E i \in job[d].cur :
          \/ /\ RunOk
             /\ SetJob(d, [job[d] EXCEPT !.bak[i] = node.conf[i]])
          \/ /\ RunErr
             /\ SetJob(d, [job[d] EXCEPT !.bak[i] = NoPath])
    /\ Goto(d, "upconf")
    /\ UNCHANGED <<node, lock, cancelled, before, overwritten>>

\* pushAWGConfFile. When it fails, only the files written before are rolled
\* back: not this one, whose content is the old, a torn or the new one.
PushConf(d) ==
    /\ pc[d] = "upconf"
    /\ \E i \in job[d].cur :
          \/ /\ CtxOk(d)
             /\ node' = [node EXCEPT !.conf[i] = Target(d)]
             /\ SetJob(d, [job[d] EXCEPT
                    !.todo = @ \ {i},
                    !.cur = {},
                    !.records = @ \cup {i},
                    !.restart = IF job[d].synced THEN @ ELSE @ \cup {i}])
             /\ Goto(d, IF job[d].todo = {i} THEN "services" ELSE "sync")
          \/ /\ CtxErr(d)
             /\ \E c \in {node.conf[i], Torn, Target(d)} :
                   node' = [node EXCEPT !.conf[i] = c]
             /\ FailTo(d, "unconf", "other")
    /\ UNCHANGED <<lock, cancelled, before, overwritten>>

\* enableAWGService for the units whose interface changed; a unit that does not
\* come up rolls all confs back.
EnableService(d) ==
    /\ pc[d] = "services"
    /\ \/ /\ job[d].restart = {}
          /\ Goto(d, "teardown")
          /\ UNCHANGED <<node, job, faults>>
       \/ \E i \in job[d].restart :
             \/ /\ CtxOk(d)
                /\ node' = [node EXCEPT !.live[i] = StartAwg(node.conf[i])]
                /\ \/ /\ node'.live[i] # Down
                      /\ SetJob(d, [job[d] EXCEPT !.restart = @ \ {i}])
                      /\ UNCHANGED pc
                   \/ /\ node'.live[i] = Down
                      /\ FailTo(d, "unconf", "other")
             \/ /\ CtxErr(d)
                /\ \/ UNCHANGED node
                   \/ node' = [node EXCEPT !.live[i] = StartAwg(node.conf[i])]
                /\ FailTo(d, "unconf", "other")
    /\ UNCHANGED <<lock, cancelled, before, overwritten>>

\* teardownAWGInterfaces remembers the units that were active. Errors are only
\* logged: a unit may then be stopped and not remembered.
Teardown(d) ==
    /\ pc[d] = "teardown"
    /\ LET ifaces == TornDown[Target(d)]
           stop(S) == [node EXCEPT !.live = [i \in Iface |-> IF i \in S THEN Down ELSE @[i]]]
       IN  \/ /\ CtxOk(d)
              /\ node' = stop(ifaces)
              /\ SetJob(d, [job[d] EXCEPT !.restore = {i \in ifaces : node.live[i] # Down}])
           \/ /\ CtxErr(d)
              /\ \E stopped \in SUBSET ifaces : \E known \in SUBSET stopped :
                    /\ node' = stop(stopped)
                    /\ SetJob(d, [job[d] EXCEPT
                           !.restore = {i \in known : node.live[i] # Down}])
    /\ Goto(d, "backup")
    /\ UNCHANGED <<lock, cancelled, before, overwritten>>

-----------------------------------------------------------------------------
(* pushConfigLocked: the sing-box config *)

BackupConfig(d) ==
    /\ pc[d] = "backup"
    /\ \/ RunOk /\ SetJob(d, [job[d] EXCEPT !.cbak = node.cfg])
       \/ RunErr /\ SetJob(d, [job[d] EXCEPT !.cbak = NoPath])
    /\ Goto(d, "assets")
    /\ UNCHANGED <<node, lock, cancelled, before, overwritten>>

\* ensureCertForTLSInbounds (best effort) and pushRuleSetAssets, which also
\* fails when the panel cannot download an asset.
PushAssets(d) ==
    /\ pc[d] = "assets"
    /\ \/ CtxOk(d) /\ Goto(d, "upload") /\ UNCHANGED job
       \/ (CtxErr(d) \/ UNCHANGED faults) /\ FailTo(d, "restore", "other")
    /\ UNCHANGED <<node, lock, cancelled, before, overwritten>>

\* A failed upload returns without a rollback of the config.
Upload(d) ==
    /\ pc[d] = "upload"
    /\ \/ /\ CtxOk(d)
          /\ node' = [node EXCEPT !.cfg = Target(d)]
          /\ Goto(d, "check")
          /\ UNCHANGED job
       \/ /\ CtxErr(d)
          /\ \E c \in {node.cfg, Torn, Target(d)} : node' = [node EXCEPT !.cfg = c]
          /\ FailTo(d, "restore", "other")
    /\ UNCHANGED <<lock, cancelled, before, overwritten>>

\* A failed check, restart or probe rolls back if there is a backup path.
Recover(d) ==
    IF job[d].cbak = NoPath
    THEN FailTo(d, "restore", "deploy")
    ELSE Goto(d, "rollback") /\ UNCHANGED job

Check(d) ==
    /\ pc[d] = "check"
    /\ \/ CtxOk(d) /\ node.cfg \in CheckOK /\ Goto(d, "restart") /\ UNCHANGED job
       \/ CtxOk(d) /\ node.cfg \notin CheckOK /\ Recover(d)
       \/ CtxErr(d) /\ Recover(d)
    /\ UNCHANGED <<node, lock, cancelled, before, overwritten>>

\* systemctl restart may report a service that does not come up, or leave that
\* to the probe.
Restart(d) ==
    /\ pc[d] = "restart"
    /\ \/ /\ CtxOk(d)
          /\ node' = [node EXCEPT !.run = StartSingBox(node.cfg)]
          /\ \/ Goto(d, "probe") /\ UNCHANGED job
             \/ node'.run = Down /\ Recover(d)
       \/ /\ CtxErr(d)
          /\ \/ UNCHANGED node
             \/ node' = [node EXCEPT !.run = StartSingBox(node.cfg)]
          /\ Recover(d)
    /\ UNCHANGED <<lock, cancelled, before, overwritten>>

\* probeServiceUp: an SSH error reads as "not active".
Probe(d) ==
    /\ pc[d] = "probe"
    /\ \/ CtxOk(d) /\ node.run # Down /\ Goto(d, "return") /\ UNCHANGED job
       \/ CtxOk(d) /\ node.run = Down /\ Recover(d)
       \/ CtxErr(d) /\ Recover(d)
    /\ UNCHANGED <<node, lock, cancelled, before, overwritten>>

\* Defect variant: the rollback restores the file and forgets the restart.
RollbackWithoutRestart(d) ==
    /\ pc[d] = "rollback"
    /\ RunOk
    /\ node' = [node EXCEPT !.cfg = job[d].cbak]
    /\ FailTo(d, "restore", "deploy")
    /\ UNCHANGED <<lock, cancelled, before, overwritten>>

\* performRollback of the config. The script's own failures are masked: the
\* panel sees an error only when the SSH command fails.
Rollback(d) ==
    /\ pc[d] = "rollback"
    /\ \/ /\ RunOk
          /\ node' = RolledBackCfg(node, job[d].cbak)
          /\ FailTo(d, "restore", "deploy")
       \/ /\ RunErr
          /\ UNCHANGED node \/ node' = RolledBackCfg(node, job[d].cbak)
          /\ FailTo(d, "restore", "rollback")
    /\ UNCHANGED <<lock, cancelled, before, overwritten>>

-----------------------------------------------------------------------------
(* Rolling the kernel layer back *)

\* restoreAWGInterfaces: under the deploy's context; errors are only logged.
RestoreInterface(d) ==
    /\ pc[d] = "restore"
    /\ \/ /\ job[d].restore = {}
          /\ Goto(d, "unconf")
          /\ UNCHANGED <<node, job, faults>>
       \/ \E i \in job[d].restore :
             /\ \/ CtxOk(d) /\ node' = [node EXCEPT !.live[i] = StartAwg(node.conf[i])]
                \/ CtxErr(d) /\ UNCHANGED node
             /\ SetJob(d, [job[d] EXCEPT !.restore = @ \ {i}])
             /\ UNCHANGED pc
    /\ UNCHANGED <<lock, cancelled, before, overwritten>>

\* Defect variant: after a failed rollback the same conf is retried for ever.
RollbackConfRetrying(d) ==
    /\ pc[d] = "unconf"
    /\ \/ /\ job[d].records = {}
          /\ Goto(d, "return")
          /\ UNCHANGED <<node, job, faults>>
       \/ /\ job[d].records # {}
          /\ UNCHANGED <<node, job, faults, pc>>
    /\ UNCHANGED <<lock, cancelled, before, overwritten>>

\* rollbackAWGConfs: a conf without a backup path is skipped, restart included.
RollbackConf(d) ==
    /\ pc[d] = "unconf"
    /\ \/ /\ job[d].records = {}
          /\ Goto(d, "return")
          /\ UNCHANGED <<node, job, faults>>
       \/ \E i \in job[d].records :
             /\ \/ /\ RunOk
                   /\ node' = IF job[d].bak[i] = NoPath
                              THEN node
                              ELSE RolledBackConf(node, i, job[d].bak[i])
                \/ RunErr /\ UNCHANGED node
             /\ SetJob(d, [job[d] EXCEPT !.records = @ \ {i}])
             /\ UNCHANGED pc
    /\ UNCHANGED <<lock, cancelled, before, overwritten>>

\* The deferred Unlock.
Return(d) ==
    /\ pc[d] = "return"
    /\ lock' = Nobody
    /\ before' = NoNode
    /\ overwritten' = FALSE
    /\ End(d)
    /\ UNCHANGED <<node, faults>>

\* The operator closes the page or the request times out.
Cancel(d) ==
    /\ pc[d] # "idle"
    /\ ~cancelled[d]
    /\ cancelled' = [cancelled EXCEPT ![d] = TRUE]
    /\ Fault
    /\ UNCHANGED <<node, lock, pc, job, before, overwritten>>

Push(d) ==
    \/ StartUnit(d) \/ Prepare(d) \/ PeerSync(d) \/ BackupConf(d) \/ PushConf(d)
    \/ EnableService(d) \/ Teardown(d)
    \/ BackupConfig(d) \/ PushAssets(d) \/ Upload(d) \/ Check(d)
    \/ Restart(d) \/ Probe(d) \/ Rollback(d)
    \/ RestoreInterface(d) \/ RollbackConf(d) \/ Return(d)

Next == \E d \in Deployer : (\E v \in Goals : Install(d, v)) \/ Lock(d) \/ Push(d) \/ Cancel(d)

\* Every SSH command has a deadline (runWithDeadline), so a push goes on.
Fairness == \A d \in Deployer : WF_vars(Push(d))

Spec == Init /\ [][Next]_vars /\ Fairness

-----------------------------------------------------------------------------
(* Properties *)

\* A push reports success only when the node runs its version in both layers,
\* whatever failed on the way and whoever else was deploying. withHostLock
\* promises "that no other apply (CLI, web, or background auto-apply) touches the
\* same node concurrently", and the installation, outside the lock, does: after
\* one, the sing-box layer may be its minimal config or what it tore or brought
\* down, but never a version that another deployer pushed, and the kernel layer
\* is the target's all the same.
SuccessRunsTarget ==
    \A d \in Deployer :
        pc[d] = "return" /\ job[d].err = "none" =>
            /\ \A i \in Rendered[Target(d)] :
                  node.conf[i] = Target(d) /\ node.live[i] = Target(d)
            /\ \/ node.cfg = Target(d) /\ node.run = Target(d)
               \/ /\ overwritten
                  /\ node.cfg \in {Target(d), Minimal, Torn}
                  /\ node.run \in {Target(d), Minimal, Down}

\* What a rollback can restore: the services run what is on disk, and the files
\* that version v writes are already there.
Settled(n, v) ==
    /\ n.cfg # NoFile
    /\ n.run = StartSingBox(n.cfg)
    /\ \A i \in Rendered[v] : n.conf[i] # NoFile /\ n.live[i] = StartAwg(n.conf[i])
    /\ \A i \in TornDown[v] : n.live[i] \in {Down, StartAwg(n.conf[i])}

\* pushConfigWithAWGTeardown: when the push fails, "the node returns to its
\* pre-deploy state for every layer". It does where no SSH command failed, the
\* push was not cancelled and the node was settled: a version that does not pass
\* the check, does not start or does not bring an interface up leaves both
\* layers as they were, and the kernel layer even when another deploy's
\* installation wrote the sing-box config meanwhile.
CleanFailureRestoresNode ==
    \A d \in Deployer :
        /\ pc[d] = "return"
        /\ job[d].err # "none"
        /\ faults = 0
        /\ ~cancelled[d]
        /\ Settled(before, Target(d))
        => /\ node.conf = before.conf /\ node.live = before.live
           /\ node = before \/ overwritten

\* The node lock is always released: no failure path leaves a push hanging.
PushEnds == \A d \in Deployer : lock = d ~> lock # d

\* A deploy that reports a successful rollback leaves the node with a config
\* that was deployed to it, not with the empty one of the installation.
RollbackRestoresService ==
    \A d \in Deployer :
        pc[d] = "return" /\ job[d].err = "deploy" /\ faults = 0 /\ ~cancelled[d] => node.run # Minimal
=============================================================================
