# Verification of the angry-box panel

angry-box is an orchestrator for a fleet of sing-box / AmneziaWG nodes: one Go
process (`cmd/angry-box`, `internal/web`) that keeps its whole state in one JSON
file, renders a configuration per node from it, and pushes it over SSH. This
directory models the parts in which the order of steps matters: the store, the
installation and push of a configuration, the deploys around it, the SSH
connections, the health of the nodes and their relocation, the placement of
inbound profiles, the chains over shared nodes with the traffic that their
merged configurations let through, and the takeover of a server that already
runs a VPN.

The modules are TLA+; `tlc -config X.cfg M` checks a run, `tlapm M.tla` checks
the proofs. `PROJECT.json` lists the runs, the source lines behind each
definition, the findings, the hazards and the theorems.

## 1. Inventory

### Components, their state and operations

| Component | State | Operations | Interacts with |
|---|---|---|---|
| Panel store (`chain/store.go`, `atomicwrite.go`) | one file (`storeFile`: hosts, chains, users, node infos, metrics, profiles, links, settings, known hosts, rules), a mutex per `Store` value | Save/Delete/Get/List per collection, `migrateOnce` on open | every handler, deploy and loop |
| Deploy push (`applier_push.go`, `awg_push.go`, `awg_peersync.go`, `hostlock.go`, `backend/singbox`) | files and services of the node, a mutex per host, backups | `deployOptsAndClient` (install), `pushConfigWithAWGTeardown`: confs, services, teardown, config, check, restart, probe, rollbacks | SSH client; called by deploys, relocation, takeover |
| Deploys (`autoapply.go`, `applier_build.go`, `deploystatus.go`, `web/chains.go`, `web/nodes.go`) | semaphore, wait group, `NodeInfo` with `LastDeployedHash` | `ScheduleAutoApply`, `runAutoDeploy`, `ApplyMergedNode`, `recordDeploySuccess`, the editing handlers | store, push |
| Graceful shutdown (`cmd/angry-box/shutdown.go`) | phase of the process | signal, drain (10 s), wait for background deploys, exit | HTTP server, auto-apply |
| Node health (`nodehealth.go`, `web/server.go`, `web/misc.go`, `web/nodes.go`) | `NodeMetrics` (state, counters) | metrics loop, manual Check, block, unblock, capture | store, auto-relocation |
| AWG traffic (`awgtraffic.go`) | per-peer snapshot in `NodeMetrics`, totals in users | fold of the kernel counters | metrics loop, store |
| SSH client and pool (`internal/ssh`, `web/dashboard.go`) | connections, an in-use flag per entry, the global host key hook, known hosts | `Run`, `RunWithOutput`, `UploadText`; `Connect`, `release`, `evict`, sweeper, `Close`; approval of a host key | all deploys |
| Relocation, auto-relocation, cloning (`relocate.go`, `autorelocate.go`, `clone.go`) | addresses in hosts, infos and chains; guard per node; spares | `RelocateNode`, `AutoRelocateDecision`, `ConsumeSpare`, `CloneNode` | metrics loop, deploys |
| Inbound profiles (`profile_deploy.go`, `chain_entry_material.go`, `web/inbounds.go`) | profiles, their materialisations in `NodeInfo.Inbounds` | `ApplyProfileToNodes`, deletion, `EnsureChainEntryMaterialization` | store, chains, auto-apply |
| Backup and restore (`backup*.go`) | export files | `ExportStore`, `ImportStore`, `ExportNode`, `ImportNode`, offsite copy | store |
| Takeover (`internal/takeover`) | the foreign service's backup | detect, convert, stop, deploy, restore | push, store |
| Chains and rendering (`merged_config.go`, `awg_tun_overlay.go`, `strategygroup.go`, `awg_deploy.go`, `web/chains.go`) | chains with levels and transit keys, pins of users | save, delete, `ApplyChain`; store to sing-box config and awg-quick confs | deploys, users |
| Material (`cryptogen.go`, `awg_cps.go`, presets) | none | random keys, obfuscation profiles | rendering |
| Users, client configs, subscriptions (`web/users.go`, `clientconfig.go`, `web/sub*.go`) | users | CRUD, rendering, push of static files | store, auto-apply |
| Web, authentication, i18n, bot, CLI | sessions, limiter | forms, pages, messages | everything |

### What is hard here

* Every handler and deploy is a series of store calls. The store makes one call
  atomic, at best; between two calls a copy of a record gets old.
* The mutex of the store belongs to a value, and the panel makes a value per
  request (`Server.store`).
* A push changes two layers of a remote machine by ten or more commands, each of
  which may fail, or take effect and then be reported as failed.
* Deploys come from handlers, from a bounded pool of goroutines and from loops,
  and a shutdown may come at any time.
* The config of a node is merged from all chains that pass through it, and a
  chain works only if the configs of all its nodes, deployed at different times
  from different states of the store, fit together.
* The health record has four writers (loop, Check, traffic fold, operator).
* A pooled connection has borrowers, a sweeper and checks that evict it, and the
  host key check of a dial is a global variable swapped for its duration.
* A relocation copies chains, saves and deploys them one by one and consumes the
  spare last; everything else goes on meanwhile.
* The port of a chain entry lives in three places (chain, profile, inbound).
* A takeover stops the service that works before its own works, over one
  connection and with the context of a browser request.

### What makes each part correct

* Store: methods work on the file they replace; each write is one revision; no
  deletion breaks a reference; secrets of users stay disjoint.
* Push: success means that both layers run the version; a failure puts both
  back; the host mutex is always released.
* Deploys: the semaphore counts; a stored hash names a config the node accepted;
  accepted edits are kept; a shutdown ends.
* Health: counters claim nothing that was not observed; incidents and recoveries
  need their number of probes; a lasting outage is flagged.
* Pool: no connection is lost or kept for ever, none is reused with an old key
  or past a changed host key.
* Relocation: success means that all neighbours have the new address, a spare is
  given to one node, the service of the moved node comes back.
* Placement: a chain keeps its inbound, subnets are disjoint, credentials are
  stable.
* Chains: connections of a chain in service reach its last level or the node the
  user is pinned to, whatever happens to chains beside it.
* Takeover: a rollback brings the old VPN back, no users are left over, the old
  config can be found, every attempt ends.

Not all of this holds of the code as it is. Where it does not, the properties say
how far it does, and section 3 lists what is missing.

The list of what could go wrong and is hard to test, line by line, is `hazards` in
`PROJECT.json`.

## 2. Modules

| Module | Models | Composes |
|---|---|---|
| `StoreFile` | contents of the file and the pure part of each method | |
| `PanelStore` | callers, mutexes, the file, crashes, migration | extends `StoreFile` |
| `AtomicStore` | what the store promises: each method is one step | extends `StoreFile` |
| `NodePush` | installation and push to one node by several deployers | |
| `Deploys` | deploys, edits, deletion, capture and shutdown around the `NodeInfo` | uses the promise of `AtomicStore` and the outcome of `NodePush` as single steps |
| `NodeHealth` | loop, Check, fold, operator around the `NodeMetrics` | the same |
| `SSHPool` | pool, dials, host key hook, known hosts, sweeper | |
| `Relocation` | automatic and manual relocation over chains, spares, cooldown | deploys of `NodePush` and the health of `NodeHealth` as single steps |
| `Placement` | profiles, and chains as their users | requests on the promise of `AtomicStore` |
| `MergedConfig` | the config rendered for a node from its chains, and how sing-box routes under it | |
| `Cascade` | chains saved, pinned, applied over shared nodes; the path of connections | extends `MergedConfig`; the deploys of `NodePush` as an installation and a push |
| `Takeover` | attempts to take over one node | the push of `NodePush` as one step with its outcomes |
| `PanelStore_proofs`, `NodeHealth_proofs`, `Deploys_proofs`, `NodePush_proofs`, `SSHPool_proofs`, `Takeover_proofs`, `Placement_proofs`, `Relocation_proofs` | theorems | each extends the module it is named after; `Deploys_proofs` also extends `Cascade` and has its theorems |
| `MCPanelStore`, `MCNodePush`, `MCDeploys`, `MCNodeHealth`, `MCSSHPool`, `MCRelocation`, `MCPlacement`, `MCCascade`, `MCTakeover` | instances for TLC | |

### StoreFile, PanelStore, AtomicStore

A collection is abstracted to what the methods look at: IDs of hosts, infos,
metrics and profiles; the nodes and profile references of a chain; the secret
and nodes of a user; the ends of a link. A method is two steps: `Lock` (mutex
and `readStore`) and its body (`HostMethod`, `ChainMethod`, `ProfileMethod`,
`UserMethod`, `LinkMethod`, `MigrateOnce`, or `ReturnUnwritten` for every error,
refusal and read). `writeStore` bumps the revision; the rename is atomic
(`atomicwrite.go` writes a temporary file, syncs and renames), so `Crash` loses
the copies and nothing else. Readers take a read lock in the code; here they
take the same lock as writers, which removes only overlaps of readers.
`InstanceOf` says which `Store` value a caller uses: one shared value in the run
`store`, one each, as the panel has it, in `store_per_request`. `NoCrossing` says
that callers with different values are not inside methods at the same time, which
nothing in the panel enforces; `StaleOnlyAcross` that nothing else makes a copy
stale.

### NodePush

`node` holds the sing-box config and service, and an awg-quick conf and service
per interface. A deployer deploys any version of `Goals`, as often as it likes.
`Install` and `StartUnit` are `deployOptsAndClient`, which every apply calls
before it pushes: the minimal config goes over the one on the node and sing-box
is restarted, without the host mutex, so also while another deployer holds it.
`overwritten` is a history variable: an installation wrote the config during the
push under way. From `Lock` on, each action is one SSH command (or one loop body)
of the code, in its order; `job` holds the local variables. A command that carries the context
fails when the context is cancelled; `Run`, used for backups and rollbacks, does
not look at it. A failed command may have taken effect. Systemd is external:
`StartSingBox` and `StartAwg` say that a restarted service runs what is on disk,
or is down. `MaxFaults` bounds failed commands and cancellations together.
Cancellation is an over-approximation: today's callers use
`context.Background()`. `before` is the node that the push found, which is what
`CleanFailureRestoresNode` is about.

### Deploys

Of a `NodeInfo` the model keeps the outbound list, the auto-apply switch and the
hash; the config is what was rendered from the list. A deploy is a task:
`AcquireSlot` and `LoadNode` (background only), `PersistMaterial`,
`ConnectAndRender`, `LockHost`, `PushConfig`, `StampRead`, `Stamp`, `End`. A
handler reads in `EditNode` and saves in `SaveAddedOutbound` or
`SaveDeletedOutbound`. The switch has no form in the panel; a clone, an import
or an older release sets it, so both values are initial states.
`ConnectAndRender` contains the installation, after which the node has the
minimal config. `CaptureNode` stores a node anew, and `PostCaptureInstall` is the
goroutine it may start, which no wait group knows of: `Exit` does not wait for it.
Errors of store writes, which the code logs and ignores, are left out.

### NodeHealth

`visit` is what a prober (the loop or a Check) holds between reading and saving
the record; `StartVisit`, `Record`, then the folds of two interfaces
(`ReadFold`, `SaveFold`, `SkipFold`). `NextState` with `GoodProbe` and
`FailedProbe` is the transition function of `nodehealth.go`. `Ask` and `Answer`
are block, unblock and capture. `failed` and `passed` are history variables: the
probes really observed since the last contrary one. When visits overlap, the
contrary probe may be lost with its save, and the history is not cut then.

### SSHPool

A borrower goes through `Begin`, `Lookup`, `Check`, `Mark` (a hit) or `Evict`,
`LockDial`, `DialBegin`, `DialSucceeds` or `DialFails`, `Put`, and later
`Release`; each is what happens between two acquisitions of the pool's mutex.
`mgr` is the global host key hook: `DialBegin` installs the capturing manager
under `dialCaptureMu`, `DialReturn` puts the old one back. `RawBegin` and
`RawEnd` are dials past the pool (a takeover), whose key goes through whatever
hook is installed. `TrustHostKey`, `RotateKey`, `Rekey` and `Break` are the
operator and the world. Passing time is `Expire`. A connection whose entry a
second first dial overwrote is remembered in `lost`: the code leaves it open.

### Relocation

`hosts`, `infos` and `chains` are the store; a chain has a flat node list and, if
it is in `Levelized`, levels, from which `SaveChain` derives the list again, as
the code does. `vps` is what runs where and whom it dials. `NewJob` starts a
relocation (from `EnterIncident` or `RelocateByHand`); its steps are the store
calls and deploys of `RelocateNode`: `SaveHost`, `ReadInfo`, `SaveInfo`,
`ListChains`, `SaveSnapshot`, then for each chain `Resolve`, `Preflight`,
`DeployNode` per node and `ChainDone`, then `Finish`, `ConsumeInfo`,
`ConsumeHost`, `StampRead`, `StampSave`. A deploy is one step, as `NodePush`
shows it: the node runs the config, is as before, or is left with the minimal
config of the installation. The transit keys of `ApplyChain` are in `Cascade`.
Probes and hysteresis are in `NodeHealth`; here an incident is one step. A
relocation that does not run is the record `NoJob`, whose place is "none": the guard
per node (`Server.relocating`) is `Idle`, and there is no other, so relocations of
different nodes and one by hand run side by side, to any address (`MaxAtOnce` is a
bound of the exploration). Two history variables: `beside` has the relocations that
another one ran beside, and `hand` the addresses operators gave.

### Placement

`profiles` has a port per profile, `inbounds` the materialisation of a profile on
a node (port, credentials, subnet), `chains` the entry nodes with their profile,
the other nodes and the `InboundRef` those keep from earlier. `op` is the
request under way: a placement (`RemoveStep`, `SyncStep`, `AddStep`, in this
order), a deletion, or the materialisation of the entries of a chain
(`EnsureStep`). `Fault` ends it after any step. What the renderer makes of the
inbounds is not part of it. Requests do not overlap, and the caddy mode is left
out.

### MergedConfig, Cascade

`MergedConfig` has no state. A chain has levels of nodes, an entry protocol
(VLESS, or AWG on a kernel interface), a transport between
nodes, and per node the generations of its keys, 0 for none. `RoleInbounds`,
`RoleHops`, `RoleGroup`, `PinRules` and `GenericRule` are what
`buildChainRoleInOut` and `buildMergedRoute` add for one role of a node,
`MergedNodeConfig` puts them together in the order of the store, with the
overlay of kernel AWG after the rules. A tag is a tuple of what the code formats
into it. `Accepted`, `Matches`, `Routed` and `Targets` are sing-box, modelled
from how the renderer uses it: first matching rule, then the `final` of a route
section, then the first outbound; a rule that names a missing outbound is
refused. A rule by source address matches on the inbounds named in `kept`.
`Survivals` has the three accounts the sources give of how far the address of an
AWG user gets: to every node (`merged_config.go:426-431`), to the entry only
(`clientconfig.go:72-74`: hops do not propagate the identity), or not even behind
the TUN of the entry (`awg_tun_overlay.go:187-189`, `roles.go:299-300`;
`CTO_REVIEW.md:60` calls it unverified). The properties quantify over them.

`Cascade` has the chains and pins of the store, the deploys in progress and the
config each node runs. Its initial states, steps and specification are
`CascadeInit`, `CascadeNext` and `CascadeSpec`, so that one module can extend it
beside `Deploys`. `SaveChain` keeps keys as `parseLevelsForm` does;
`StartApply`, `SaveKeys`, then `RenderHop`, `InstallHop` and `PushHop` per node
are `ApplyChain`, which works on the copy of its chain and on the other chains as
they are stored at that moment; `StartNodeApply`, `RenderNode`, `InstallNode`
and `PushNode` are `ApplyMergedNode`. Each of these may fail. `Ends` follows all
connections of a user from the entries in the client config from node to node:
a transport inbound answers to the credential that its config was rendered
with. `good` is a history variable: the chains whose last apply succeeded and
that have not been touched since.

Assumed: chains have levels (the form makes no others), a node is once in a
chain, and a node is the entry of one AWG chain (it has one `awg0`; a second
entry gets no peers there). Reality and XHTTP transports are built alike and are
one. Entry inbounds are placed (`Placement`) and addresses are right
(`Relocation`). Left out: DNS, presets, manual rules, MTProxy, the exit
balancer, AWG 3.0 entries, the caddy mode.

### Takeover

The content of a config is the set of clients it serves; `NativeUsers` and
`WithPSK` say which of them share an inbound that the converter has a type for,
and which have a preshared key. `node` has files, what runs and what is enabled
for sing-box and the old unit; `info` is the stored `NodeInfo`, `users` the
users made from peers; `job` the attempt with its own copy of the `NodeInfo`.
The actions are the numbered steps of `Takeover` in order, then
`rollbackToOldVPN`. Commands with the request's context fail once the browser is
gone (`Cancel`); the backup, the import and the rollback inside the push do not
look at it. `Crash` ends the attempt anywhere. A failed push may leave each layer
torn or unrestored, as in `NodePush`. Store errors that the code only logs are
there: the save of the backup's place (`Backup`), of a user made from a peer
(`Materialize`), the deletion of one (`DropUsers`, history `undeleted`) and the
final save (`SaveOutcome`). `excused` remembers the two ways in which the panel
lets go of the config the server came with, until an attempt makes up for it.

## 3. Runs

| Run | Bounds | Shows |
|---|---|---|
| `store` | 2 callers, 1 value, 2 nodes, 1 chain, 1 profile, 2 users, 1 secret, 2 links, 3 writes | type, `CopyIsCurrent`, `SecretsDisjoint`, `RevisionMonotonic`, `NoReferenceBroken`, refinement of `AtomicStore` |
| `store_per_request` | 2 callers, a value each | `RevisionMonotonic` violated: lost update |
| `push` | 2 deployers, 3 versions (a good one, one that does not start, one refused) any number of times, 2 interfaces, installations during the push of the other, 1 failed command or cancellation, 3 kinds of node | `SuccessRunsTarget`, `CleanFailureRestoresNode`, `PushEnds` |
| `install_rollback` | 1 deployer, nothing fails but the version | `RollbackRestoresService` violated |
| `deploys` | 1 node, 2 tasks, 2 handlers, 1 slot, 2 operator actions (captures among them), drain timeout | `SlotsCounted`, `HashWasApplied`, `DeployEnds`, `ShutdownEnds` |
| `health` | 1 node, thresholds 3 and 2 (the defaults), 1 Check, 1 operator request at a time, 3 in all | type, `CountersBacked`, `IncidentNeedsFailures`, `RecoveryNeedsSuccesses`, `OutageFlagged`, `RecoveryNoticed` |
| `pool` | 2 borrowers of one node, 1 dial past the pool of another, 2 dials, 1 change (host key, SSH key, broken connection) | `OpenIsOwned`, `KeyFresh`, `ReuseMatchesKnownHost`, `ConnectEnds`, `IdleIsSwept` |
| `relocate` | 2 nodes in 2 flat chains, 1 spare, 1 further VPS, 2 events (outages, failed deploys, actions of the operator), 2 relocations at once | `SuccessPropagates`, `SpareGivenOnce`, `RelocationHeals` |
| `relocate_levels` | the same with levels in one chain, 2 spares, 1 event | `SuccessPropagates` violated |
| `placement` | 2 nodes, 2 AWG profiles and 1 other, 2 chains, 2 ports, 3 subnets, 4 requests, 1 fault; nodes, chains, credentials and AWG profiles symmetric | `RefPlaced`, `SubnetsStayDisjoint`, `CredsStable` |
| `cascade` | 4 nodes, 2 chains in 2 forms each (reordered, other transport, grouped levels), 1 user, both route modes, 3 edits, 3 deploys, 2 generations of keys, 3 accounts of source addresses, one deploy at a time | `Delivered`, `PinHonoured` |
| `takeover` | 3 clients (2 in a native inbound, 1 with a preshared key), 3 kinds of VPN, 3 attempts, 2 failed commands or saves, 1 crash, cancellation | `RollbackRestores`, `NoPhantomUsers`, `OldConfigRecoverable`, `TakeoverEnds` |

Why the bounds are enough. Store: a lost update needs two callers, a clash two
users or two links, a broken reference a save and a deletion; three writes make
each of these and one more step. Push: nodes are independent (a mutex each), one
failed command reaches every error path, and a version that is refused or does not
start reaches the rollbacks without one, in which it may then happen; each deployer
meets every kind of version and what any earlier deploy or installation left. More
failed commands are left to the proofs, which bound none. Deploys:
one slot and two tasks make one wait for the other; two actions are an edit and
another edit, an Apply or a deletion. Health: nodes are independent, and four
writers of one record (loop, Check, fold, handler) are there at a time; counters
saturate at the larger threshold because they are only compared with thresholds.
Pool: two dials let one entry replace another, and entries of different nodes
share only the hook, which the dial past the pool exercises. Relocation: two
nodes with a common chain make each the neighbour of the other; two events are two
outages (two relocations of one tick, or a relocated node that fails again), an
outage and a failed deploy, or an outage and an operator who interferes; two
relocations at once are what one tick starts on two nodes. Placement: four requests
are two placements, a chain and an edit or removal.
Cascade: three edits and three deploys are two chains with an edit, a pin or a
deletion, each applied, and one more deploy, of a chain or of a node, that may
fail half-way; four nodes let each chain have a node of its own, share its
entry, and meet the other on the transit port. More users add nothing, as rules
name users one by one.
Takeover: three attempts are a failure, a success and a repetition; two failed
commands make a failed push and a failed rollback.

Deadlock is checked in `store`, `push`, `deploys` and `health`; the process that
has exited stutters (`Exited`). The other runs stop when the bounded requests,
dials, outages or attempts are used up, which is no deadlock of the program, and
what must not get stuck there is stated as liveness (`ConnectEnds`,
`RelocationHeals`, `TakeoverEnds`).

Every module has a `TypeOK` that says what its variables hold. The runs `store`
and `health` check it, because the proofs there stand on it. In the other
modules it documents the state; their proofs carry only what they need of it
(`Shapes`, `Core`), which says which fields a record has and no more.

### Fairness

* Every SSH command has a deadline (`runWithDeadline`, `UploadText`), so a push,
  a deploy, a Check and the loop go on: weak fairness of their steps.
* The ticker of the loop keeps firing: weak fairness of `LoopStep`.
* A Go channel serves senders in order of arrival and `sync.Mutex` switches to
  FIFO when a waiter starves: strong fairness of `AcquireSlot` and `LockHost`.
* `srv.Shutdown` and `WaitGroup.Wait` return when their condition holds: weak
  fairness of `Drain` and `Exit`.
* A dial has a timeout, borrowers close what they got (`defer client.Close()`),
  the pool's sweeper has a ticker and an idle connection outlives its TTL: weak
  fairness of a borrower's steps, of `Release`, `Expire` and `SweepOnce`.
  `dialCaptureMu` is a `sync.Mutex`: strong fairness of `DialBegin`.
* A relocation is a goroutine over commands with deadlines, and the metrics loop
  comes by: weak fairness of its steps, and of `EnterIncident` and `Recover`. The
  steps of a takeover are weakly fair for the same reason.
* Operators, nodes, signals, faults and cancellations get none.

### Findings

Three runs show that the code does not do what a comment or document of it says;
the quotes are in `PROJECT.json`:

1. One `Store` per request: the mutex does not serialise requests, a write can
   be lost and two states share a revision (`store_per_request`).
2. The installation that starts every deploy writes the minimal config over the
   one that serves, before the backup is made, so that a rollback brings the
   empty config back (`install_rollback`).
3. The relocation of a node in a chain with levels reports success, while the
   chain and the configs of its neighbours keep the old address
   (`relocate_levels`).

The models have further behaviours in which the code falls short of what it
says. No run states them as properties of their own; the properties that pass are
worded so that they hold with them, and name them as exceptions or outcomes:

* The installation takes no host lock (`applier_build.go:414-418`), although
  `hostlock.go:32` says that no other apply touches the node. One deploy uploads its
  config, the installation of another replaces it, and check, restart and probe of
  the first pass on the minimal config: success is reported for a node that serves
  nobody (`overwritten` in `SuccessRunsTarget`).
* Goroutines outside the wait group: an automatic relocation (`server.go:314`) and
  the installation after a capture (`nodes.go:410`) are cut off by the exit in the
  middle of their SSH work, against `shutdown.go:5-8`.
* A stored deploy hash may be older than the config the node accepted last:
  `handleApplyNode` saves the record it read before the deploy (`chains.go:381`).
  `HashWasApplied` says only that it was accepted at some time.
* Two relocations at once. Two nodes of one tick pick the same spare
  (`autorelocate.go:78`; `SpareGivenOnce` says when this can happen). Relocations
  that cross leave addresses of each other behind in chains both have read
  ("crossed" in `applied`). A save of the `NodeInfo` that crosses the stamp loses
  the cooldown. By hand, a node can be moved to an address another node has
  (`hand`).
* Overlapping deploys (`chains.go:318` and the slots of auto-apply). With two `Jobs`
  in `cascade`, two applies of a new chain make its keys twice and the second
  replaces the first in the store, and a config rendered before another deploy is
  pushed after it: `Delivered` does not hold. The run has one deploy at a time, and
  the theorems say so.
* The source address of an AWG user: see `Survivals` above. If it is not kept over
  hops, a pin to a node after the entry has no effect, against
  `merged_config.go:426-431`; if it is not kept behind the TUN, no pin has any.
* An entry of a protocol other than AWG listens on `chainEntryPort`, while the port
  check and the links of clients use the port of the inbound, which an edit of the
  profile changes: the check passes configs with a port bound twice, and links dial
  where nothing listens (`merged_config.go:852`, `web/users.go:630`). Not modelled.
* A takeover loses clients: later users of an inbound that the converter has a type
  for (`Convert`), AWG peers with a preshared key (`Pushed`), and peers for which no
  user could be made or one exists (`Materialize`), so that a second takeover of an
  AWG node pushes an `awg0.conf` without peers and reports success. The repository
  says otherwise ("preserves the imported server keypair + amnezia + peer list",
  `takeover.go:108-111`; "the SAME settings", `detect.go:3-5`, `README.md:148`).
* A rollback of a takeover ends with a start, which does nothing to a unit that
  runs: after one from sing-box to sing-box the node runs the scaffold until the
  next restart, although "old VPN restored and active" is reported
  (`RollbackRestores`). "Leave old running" (`takeover.go:198`) does not hold when
  the stop worked and the disable failed (`Disable`).
* A takeover goes on without a backup, or with one whose place is not stored
  (`takeover.go:91-96`), and a repeated one overwrites the place of an earlier
  backup (`takeover.go:65`): `excused` in `OldConfigRecoverable`. Users made from
  peers that cannot be deleted in a rollback stay, and are forgotten (`undeleted` in
  `NoPhantomUsers`).
* Capturing a node drops its inbounds, and `ensureMaterializedEntryInbound` makes
  the inbound of an entry again on 10.8.0.1/24 without asking who has that subnet
  now. With six requests in `placement` (place, save a chain on it, capture, place
  another, save a second chain on that, apply the first) two AWG inbounds of the
  node share it. The attempt to prove the subnets disjoint led here; what holds
  and is proved is `SubnetsStayDisjoint`, which excepts this case.
* A spare that the operator puts into a chain while it is being consumed keeps its
  `Host` and loses its `NodeInfo`. From then on two nodes claim one VPS, and after
  the relocated one has moved on, the chain of the spare may still be reported as
  applied while the VPS runs the config of the other. `Sharing` excepts it from
  `SuccessPropagates`.
* Without `AB_ROUTE_DNS=1` the strategy of a level has no effect: the group is
  rendered after its members, no rule names it, and the first member takes all
  connections. `Delivered` asks there only for some node of the last level. Chains
  that share a node get in each other's way in this mode, because one outbound
  or one `final` decides for all; `DefaultModeServes` says where they do not.
* A pin of a VLESS user to a hop after the entry is not honoured, because the
  hop knows the transport's user only (`merged_config.go:515` says that it
  leaves there). `PinHonoured` is about kernel AWG chains with one node per
  level: rules by position cannot name a member of a group.
* The config of a user of a kernel AWG chain names one entry, the first node of
  level one or the pinned one. Where that level is also the last one, its other
  nodes get no users; `Delivered` asks for all nodes of the last level in the
  other cases. The attempt to prove more for every chain led here.
* An AWG 3.0 entry inside sing-box gets neither the generic rule
  (`merged_config.go:534` leaves it to the overlay) nor an overlay
  (`awg_tun_overlay.go:366`): its users leave at the entry. Left out of
  `MergedConfig`.

Smaller ones are described with their lines under `hazards`, those with a note:
lost edits, repeated outbound IDs, torn configs without rollback, a connection
closed under its second borrower. Further ones: the purge of orphan node infos on
open never reaches the file (`MigrateOnce`); a deploy that ends after its node was
deleted stores its `NodeInfo` again (`StampRead`); a takeover writes its old copy
over the deploy hash just stored (`Record`, `SaveOutcome`), and reports
"rolled-back" with the old service down when the stop timed out after it took
effect (`Disable`); an apply that ends after its chain was deleted or edited
stores its own copy again (`SaveKeys`); a node taken out of a chain keeps its
config until something else is deployed to it.

## 4. Proofs

### PanelStore_proofs

For any sets of callers, nodes, chains, profiles, users, secrets and links:

* `TypeCorrect`: `Spec => []TypeOK`, whatever values the callers use.
* `StaleOnlyAcrossThm`: `Spec => StaleOnlyAcross`. Whatever values the callers use, a
  copy goes stale only through a caller with another `Store` value.
* `ChecksHold` (`SecretsDisjoint` and `LinksUnique`), whatever values they use: a lost
  update puts an older file back with one change, and that whole file passed the
  checks.
* For the behaviours in which callers with different values are not inside methods
  at the same time (`[]NoCrossing`): `CopiesAreCurrent` (`CopyIsCurrent`),
  `Refinement` (`ImplementsAtomicStore`), `RevisionsCount` (`RevisionMonotonic`),
  `ReferencesNeverBroken` (`NoReferenceBroken`).

The inductive invariant of the last four is `TypeOK /\ CopyIsCurrent`: the caller in
a body holds the mutex of its value and its copy is the file. From it every step of
a body is the step of `AtomicStore` on the file itself (with an unwritten return and
a crash as stutters), and the remaining theorems only look at what one such step
makes of the file. The panel does not enforce `NoCrossing`: `store_per_request`
shows what happens without it, and `StaleOnlyAcrossThm` that this is the only way.

### NodeHealth_proofs

For any fleet, numbers of checks and handlers, and positive thresholds:

* `TypeCorrect` (`TypeOK`), `CountersAreBacked` (`CountersBacked`),
  `IncidentHysteresis` (`IncidentNeedsFailures`), `RecoveryHysteresis`
  (`RecoveryNeedsSuccesses`).

The inductive invariant is `TypeOK /\ CountersBacked /\ BlockedIsReset`. The last
conjunct, a blocked record or copy has zero counters, is needed because a probe
of a blocked node saves the record as it is while the history goes on: with
counters left over, `CountersBacked` would break. Copies are part of
`CountersBacked` because a record is whatever copy was saved last.

### Deploys_proofs

For any fleet, numbers of tasks and handlers, slots and operator actions:
`SlotsCountedThm`, `HashWasAppliedThm`, and two that no run states, `CapacityThm` (never more background deploys than slots) and
`OnePushPerHostThm` (no two pushes to one node).

`IInv` is `Core` (shapes of tasks and handlers), `SlotInv` (the semaphore is the
cardinality of the set of background tasks past `AcquireSlot`), `CopiesHonest`
(every `NodeInfo` in the store, in a task or in a handler has a hash the node
accepted), `StampEarned` (the config a task is about to stamp was accepted) and
`HolderPushes` (who pushes to a node holds its mutex, and only that one does).
`HashWasApplied` alone is not inductive because copies are saved over the store: all
copies in flight have to be honest.

### Deploys_proofs, the part about Cascade

For any fleet, forms (within `CascadeAssumption`), users, pins, edits, failures and
numbers of deploys, and each account of the source addresses: `ChainsAreDelivered`
(`Delivered`) and `PinsAreHonoured` (`PinHonoured`), of every behaviour in which no
two deploys overlap (`[]OneDeploy`). The panel does not enforce that, and they do not
hold without it, see the overlapping deploys among the findings. What makes them hard
is that they are about configs of several nodes rendered at different times from
different states of the store, and about paths of any length.

`KInv` is inductive: `StateShapes` (chains are forms with keys, one of each name;
records of deploys) and `CopyCurrent` (the copy of an apply is the stored chain unless
that was edited since).

`GInv` is inductive relative to it. `Carries(cfg, n, c, pin, mode)` says what a
config has to do for one chain at one node, whatever other chains are in it: it
admits connections on the inbound with the credential of the link, and routes
each user to the next level, or out. `GoodCarried` says that every node of a chain in
service carries it or has the minimal config; `Pending` that a config that is
rendered and not yet pushed carries all chains in service of its node and the one
being applied; `Progress` that an apply without a failure so far left a config that
carries its chain on every node before the present one; `GoodClean` that an apply of
a chain in service applies it unedited.

The argument has three parts.

* `Rendered`: `MergedNodeConfig` of any list of chains with different names and
  ports carries each of them that has its keys. It rests on lemmas about the
  renderer: tags of different chains differ (`OutsFor`, `Foreign`), the first
  matching rule is a pin rule or the generic rule of the chain's own inbound or the
  catch-all of its overlay (`Decides`, `RoutedByRules`), at most one chain has a
  transport inbound on a node, because all want the transit port (`OneTransit`), and
  at most one the kernel interface (`OneAWGEntry`).
* `OneStep`, `AllServed`, `AllExits`, `PinnedExit`: if the nodes of a chain carry it,
  a connection is after k hops on level k + 1 or has left, so it ends at the last
  level or at the pin within as many hops as there are nodes. `Ends` is a recursive
  function of the number of hops. Its induction is done by hand, on the set of
  numbers for which the claim fails and its least element (`Least`, `UpTo`, from
  the well-foundedness of the naturals); `FlattenDefined` and `FlattenElements` do
  the same for concatenations of sequences.
* `GNext`: each step preserves `GInv`. An edit (`GEdit`) takes its chain out of
  service and leaves the others as they are; a push (`GPushHop`) brings a config that
  `Pending` speaks of, and the last one of an apply puts the chain into service.

### NodePush_proofs

For any deployers, interfaces, versions and numbers of failed commands:
`SuccessRunsTargetThm` and `CleanFailureRestoresNodeThm`, from `Invariance`, without
a further hypothesis: installations come at any time, and `overwritten` says of a
push whether one did.

`IInv` is `Shapes`, `Exclusive` (one deployer between `Lock` and `Return`),
`FaultsCounted`, and for each deployer `Progress` (what each program counter says
about the files, the services and the records of the push so far) and, while no
command of it failed, `Undoable` (what the node was, reconstructed from the backups
and records the rollback will use). The second is what a clean rollback needs: at
every step at which a push may give up, the undo list brings back the node found.

### SSHPool_proofs

For any borrowers, dialers past the pool, nodes, dials and key changes, also when a
dialer past the pool reaches a node of the pool: `OpenIsOwnedThm`, `KeyFreshThm` and
the action property `ReuseMatchesKnownHostThm`.

`IInv` is `Shapes`, `Placed` (where a borrower is determines what its call holds),
`KeysOrdered` (an entry claims no newer key than its connection was authenticated
with, because the dial resolves the key once more), `OpenIsOwned`,
`FingerprintsNamed` (a fingerprint on record for a node is of that node) and `Reached`
(a connection that is alive reaches the node as it is now, and what was captured for it
is that node's key or, when another dial got in between, another node's).

### Takeover_proofs

For any clients, kinds of old VPN, attempts, failed commands and crashes:
`NoPhantomUsersThm`, `OldConfigRecoverableThm`, `RollbackRestoresThm`.

`IInv` is `Core` (shapes), `UsersTracked` (the users of the store are those the attempt
found, with those it created from the push to their deletion and those it could not
delete afterwards), `Detected` (what was detected is sing-box or the VPN the server
came with, and how it was enabled), `BackupKnown` (the backup is of the file that was
detected), `RollingBack` (the file is back after `Restore`, the enablement after
`Revive`, the unit up after `Probe`) and `ConfigKept` (nothing happens to the original
config before its backup is stored, and the stored state names what the attempt's own
copy names). The properties speak of ended attempts; the middle conjuncts carry each
of them through the steps in between and over the next attempt.

### Placement_proofs

For any nodes, profiles, chains, ports and credentials and any number of requests and
failures: the action properties `RefPlacedThm`, `SubnetsStayDisjointThm` and
`CredsStableThm`.

`IInv` is `Shapes`, `References` (nodes and profiles of a stored chain exist) and
`Pending` (a request in progress has the picture it started with: the nodes left to
update carry the profile, the ones left to add do not, and the entries left to make are
those of its chain). That allocation finds a
free subnet rests on `Cardinality(Profiles) <= MaxSubnet`, an assumption of the
module: `FewSubnets` is the pigeonhole argument with the theorems on finite sets, and
`Least` takes the first free one from the well-foundedness of the naturals.

### Relocation_proofs

For any nodes, spares, VPSes, chains, outages, failed deploys, actions of the operator
and relocations at once: the action property `SpareGivenOnceThm`, without a further
hypothesis. For chains without levels (`Levelized = {}`), of every behaviour in which
relocations do not overlap (`[]OneAtATime`) and operators give addresses that no host
has (`[]FreshTarget`): `SuccessPropagatesThm`. The code demands neither of the two;
the run `relocate` checks the property with both kinds of behaviour, and
`relocate_levels` shows what becomes of levels.

`PInv` is for `SpareGivenOnce`: a relocation keeps its target (`Aimed`), and a node has
the address of a spare in the pool only while a relocation of it to that spare has not
consumed it yet, or if an operator gave the address (`PoolHeld`).

`AInv` is about addresses when relocations do not overlap: `Shapes`, `OneAtATime`,
`NodesKnown`, `SparesAtHome` (a spare of the pool is at its own address), `Apart` (nodes
have different addresses), `PoolFree`, `CopiesKnown`, and for the running relocation
`JobPlaced` and `TargetReserved` (nobody else gets the target between the choice and
the move).

`BInv` is about chains. A chain is current if its last apply succeeded and the running
relocation has not to apply it any more. Then the store has the address of each of its
members (`StoreCurrent`) and each member runs, at that address, what was rendered from
the stored chain (`Deployed`), with three exceptions the code has: a member that some
other, failed chain left with the minimal config (`Broken`), a spare whose host could
not be deleted and shares its VPS with the node moved there (`Burnt`), and the
relocation that deploys a chain with its own spare in it (`Tainted`). `SpareEdited` says that a chain that gained the
spare of a running relocation awaits its apply, `CopiesPlaced` what the copies of a
relocation have in common with the store, and `Loop` that the deploys of a chain were
good up to the current one. The argument is that every step of a relocation either
leaves current chains alone or touches a chain it still has to apply: `ListedB` states
this once for the steps between listing and the end, and each deploy is compared with
the chains that share its node.

### Assumptions

The named `ASSUME`s of the modules: absent values differ from present ones, bounds are
naturals, sets that are counted are finite, thresholds are positive. TLC evaluates
them in the runs. Hypotheses beyond those are written in the theorem, as conditions on
the behaviour that the code does not enforce: `[]NoCrossing` in four theorems of
`PanelStore_proofs`, `[]OneDeploy` in the two about `Cascade`, and `[]OneAtATime`,
`[]FreshTarget` and `Levelized = {}` in `SuccessPropagatesThm`.

### Only model-checked

Everything temporal under fairness (`PushEnds`, `DeployEnds`, `ShutdownEnds`,
`OutageFlagged`, `RecoveryNoticed`, `ConnectEnds`, `IdleIsSwept`,
`RelocationHeals`, `TakeoverEnds`), which TLAPS does not reach, and
`SuccessPropagates` with relocations that overlap or share an address. Every other
safety property of a passing run has its theorem. What the runs `store_per_request`,
`install_rollback` and `relocate_levels` refute is shown by TLC only.

## 5. Not modelled, and what is next

Of the implementation's lines about two fifths are templates that a generator
wrote (`src/web/templates/*_templ.go`), translations and static presets. Most of
the rest renders or parses text: sing-box configs, awg-quick confs, client
links, subscriptions, forms, foreign formats, install scripts, the bot. These
have no order of steps to get wrong; where their result decides something (which
chains a node routes, which clients a converted config serves, which address a
neighbour dials) the models have that result and not the text. The modules therefore map a
small share of all lines, and the larger part of those that change shared state.

Left out on purpose, with the reason in `PROJECT.json`: cloning, foreign panel
import, presets, subscriptions, routing and utilities, the login limiter, pages,
the bot. Backup and restore would need a store whose revision may go back, which
the proved `RevisionMonotonic` excludes.

Left out of modelled parts: overlapping requests in `Placement`, overlapping
attempts and docker sources in `Takeover` (and with them `StopImportSources`),
overlapping deploys in the `cascade` run (the module has them), automatic relocations
under a shutdown, traffic totals per user, settings, the audit log, at-rest
encryption.

Next:

1. Overlapping requests in `Placement`, on the detailed store.
2. Traffic totals per user against kernel counters with resets and lost saves.
