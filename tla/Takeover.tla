------------------------------ MODULE Takeover ------------------------------
(***************************************************************************)
(* Taking over a server that already runs a VPN: handleTakeover and        *)
(* Takeover with all they call (internal/web/takeover.go,                  *)
(* internal/takeover/{detect,convert,takeover,awg_takeover}.go,            *)
(* internal/chain/{takeover_helpers,awg_takeover_users}.go and the install *)
(* of internal/backend/singbox/singbox.go). The attempts on one node       *)
(* follow each other; overlapping ones are not modelled.                   *)
(*                                                                         *)
(* The node has two units: "sb" (sing-box) and "old" (xray, or             *)
(* awg-quick@awg0 when the old VPN is AmneziaWG; absent when it is         *)
(* sing-box itself). The content of a config file is the set of clients it *)
(* serves: the scaffold of a fresh install serves nobody, and neither does *)
(* the overlay pushed on top of AWG, whose clients are the peers of        *)
(* awg0.conf. The commands of an attempt carry the context of the browser's*)
(* request, except the backup, the import and the push's own rollback.     *)
(* The push is NodePush's; here it is one step with the outcomes it may    *)
(* have there.                                                             *)
(***************************************************************************)
EXTENDS Naturals, Sequences

CONSTANTS
    Client,
    NativeUsers,   \* the clients of the old config's inbound that the panel has a
                   \* type for, in its order; the others' inbounds stay raw JSON
    WithPSK,       \* the clients whose AWG peer has a preshared key
    OldKinds,      \* what the old VPN may be, a subset of {"singbox","xray","awg"}
    NoFile,        \* an absent or unusable file
    Down,          \* a unit that does not run
    MaxAttempts,   \* bound on the attempts
    MaxFaults,     \* bound on the failed commands
    MaxCrashes,    \* bound on the panel's crashes
    MayCancel      \* whether the browser may go away

ASSUME TakeoverAssumption ==
    /\ NativeUsers \in Seq(Client) /\ WithPSK \subseteq Client
    /\ OldKinds \subseteq {"singbox", "xray", "awg"}
    /\ \A c \in SUBSET Client : c # NoFile /\ c # Down
    /\ {MaxAttempts, MaxFaults, MaxCrashes} \subseteq Nat
    /\ MayCancel \in BOOLEAN

VARIABLES
    kind,      \* what the old VPN of this node is
    node,      \* files and units of the node
    info,      \* the stored NodeInfo: takeover state, AWG inbound, deploy hash
    users,     \* clients that have a User in the store
    job,       \* the running attempt: local variables of Takeover
    attempts, faults, crashes,
    excused    \* history: the ways in which the panel let go of the original config

vars == <<kind, node, info, users, job, attempts, faults, crashes, excused>>

Unit    == {"sb", "old"}
Content == {served : served \in SUBSET Client}
File    == {NoFile} \cup Content

Node == [file : [Unit -> File], run : [Unit -> {Down} \cup Content],
         enabled : [Unit -> BOOLEAN]]

\* Detection: the unit, whether it is active and enabled, the config read.
NoVPN     == [unit |-> "none", kind |-> "none", enabled |-> FALSE, content |-> NoFile]
Detection == [unit : Unit, kind : {"singbox", "xray", "awg"},
              enabled : BOOLEAN, content : File] \cup {NoVPN}

\* NodeInfo: Takeover.Status, OldConfigPath (by unit), OldConfigBackup (by content),
\* SynthesizedUserIDs, ForUsers of the inbound takeover-awg, LastDeployedHash (is it
\* the pushed config).
Status   == {"", "converting", "taken", "rolled-back", "failed-both"}
NodeInfo == [status : Status, unit : {"none"} \cup Unit, backup : File,
             synth : Content, forUsers : Content, deployed : BOOLEAN]
NewInfo  == [status |-> "", unit |-> "none", backup |-> NoFile, synth |-> {},
             forUsers |-> {}, deployed |-> FALSE]

PCs == {"idle", "convert", "connect", "backup", "scaffold", "start", "import",
        "materialize", "disable", "push", "drop", "restore", "revive", "probe",
        "record", "save"}

\* The clients some units serve now, and after a reboot.
Served(units)     == UNION {node.run[u] : u \in {v \in units : node.run[v] # Down}}
BootServed(units) == UNION {node.file[u] : u \in {v \in units : node.enabled[v] /\ node.file[v] # NoFile}}

Job == [pc : PCs, det : Detection, mem : NodeInfo, peers : File,
        cancelled : BOOLEAN,
        result : {"", "nothing", "failed", "error", "crashed"} \cup Status,
        rollback : BOOLEAN,   \* TakeoverResult.RollbackOccurred
        \* history of the attempt: whom the old VPN served when it began, now and
        \* after a reboot; the users of the store then; those it could not delete
        now : Content, boot : Content, had : Content, undeleted : Content]

\* The unit of the VPN the server came with; its config file served Client.
Home     == IF kind = "singbox" THEN "sb" ELSE "old"
Original == node.file[Home] = Client

Init ==
    /\ kind \in OldKinds
    /\ \E active, enabled \in BOOLEAN :
         node = [file    |-> [u \in Unit |-> IF u = Home THEN Client ELSE NoFile],
                 run     |-> [u \in Unit |-> IF u = Home /\ active THEN Client ELSE Down],
                 enabled |-> [u \in Unit |-> u = Home /\ enabled]]
    /\ info = NewInfo
    /\ users = {}
    /\ job = [pc |-> "idle", det |-> NoVPN, mem |-> NewInfo, peers |-> NoFile,
              cancelled |-> FALSE, result |-> "", rollback |-> FALSE,
              now |-> {}, boot |-> {}, had |-> {}, undeleted |-> {}]
    /\ attempts = 0 /\ faults = 0 /\ crashes = 0 /\ excused = {}

-----------------------------------------------------------------------------
\* Outcomes of a remote command. Done: it ran. CtxError: it failed, or the
\* request's context is gone. RunError: a command without that context, or a save
\* of the store, failed.
Done     == ~job.cancelled /\ UNCHANGED faults
RunError == faults < MaxFaults /\ faults' = faults + 1
CtxError == IF job.cancelled THEN UNCHANGED faults ELSE RunError

Goto(p) == job' = [job EXCEPT !.pc = p]
End(r)  == job' = [job EXCEPT !.pc = "idle", !.result = r]

Same   == UNCHANGED <<kind, attempts, crashes, excused>>
Stable == UNCHANGED <<kind, attempts, crashes>>

\* What a unit runs once (re)started from its file.
Starts(u, file) == IF file[u] = NoFile THEN Down ELSE file[u]

-----------------------------------------------------------------------------
\* DetectVPN. An empty sing-box config is the panel's own scaffold, not a VPN.
Foreign(u) == u = "sb" => node.file["sb"] \notin {NoFile, {}}
First(S)   == IF "sb" \in S THEN "sb" ELSE "old"

DetectVPN ==
    LET hits   == {u \in Unit : Foreign(u) /\ (node.run[u] # Down \/ node.enabled[u])}
        active == {u \in hits : node.run[u] # Down}
        confs  == {u \in Unit : Foreign(u) /\ node.file[u] # NoFile}
        pick   == IF active # {} THEN active ELSE IF hits # {} THEN hits ELSE confs
        unit   == First(pick)
    IN  IF pick = {} THEN NoVPN
        ELSE [unit |-> unit, kind |-> IF unit = "sb" THEN "singbox" ELSE kind,
              enabled |-> unit \in hits /\ node.enabled[unit], content |-> node.file[unit]]

\* handleTakeover: detection happens again for every request.
Begin ==
    /\ job.pc = "idle" /\ attempts < MaxAttempts
    /\ attempts' = attempts + 1
    /\ LET old   == {DetectVPN.unit} \cap Unit
           fresh == [job EXCEPT !.cancelled = FALSE, !.peers = NoFile, !.rollback = FALSE,
                        !.now = Served(old), !.boot = BootServed(old), !.had = users,
                        !.undeleted = {}]
       IN  \/ /\ job' = [fresh EXCEPT !.det = DetectVPN, !.result = "",
                            !.pc = IF DetectVPN = NoVPN THEN "idle" ELSE "convert"]
              /\ UNCHANGED faults
           \/ job' = [fresh EXCEPT !.det = NoVPN, !.result = "error"] /\ RunError
    /\ UNCHANGED <<kind, node, info, users, crashes, excused>>

\* Convert: of an inbound with a type of the panel's own the first user is kept,
\* of a raw one all.
Convert(S) ==
    {c \in S : \A i \in DOMAIN NativeUsers :
                  NativeUsers[i] = c => \A j \in 1..(i - 1) : NativeUsers[j] \notin S}

\* The config may be empty, not parse or have nothing the converter knows; AWG is
\* read later. The converted inbounds replace those of the NodeInfo, and a new
\* takeover state the one of an earlier attempt, the place of its backup included.
Prepare ==
    /\ job.pc = "convert"
    /\ \/ job.det.kind # "awg" /\ End("nothing") /\ UNCHANGED <<info, faults, excused>>
       \/ job.det.kind # "awg" /\ End("failed") /\ UNCHANGED <<info, faults, excused>>
       \/ /\ job.det.kind # "awg" => job.det.content \notin {NoFile, {}}
          /\ \/ /\ info' = [info EXCEPT !.status = "converting", !.unit = job.det.unit,
                                          !.backup = NoFile, !.synth = {}, !.forUsers = {}]
                /\ job' = [job EXCEPT !.mem = info', !.pc = "connect"]
                /\ excused' = IF info.backup = NoFile THEN excused ELSE excused \cup {"erased"}
                /\ UNCHANGED faults
             \/ End("error") /\ RunError /\ UNCHANGED <<info, excused>>
    /\ Stable /\ UNCHANGED <<node, users>>

Connect ==
    /\ job.pc = "connect"
    /\ \/ Goto("backup") /\ UNCHANGED faults
       \/ End("error") /\ RunError
    /\ Same /\ UNCHANGED <<node, info, users>>

Copied == job' = [job EXCEPT !.mem.backup = node.file[job.det.unit], !.pc = "scaffold"]

\* Mutant: the place of the backup is left to the save at the end.
BackupSavedLate ==
    /\ job.pc = "backup"
    /\ \/ Copied /\ UNCHANGED <<info, faults>> /\ excused' = IF Original THEN {} ELSE excused
       \/ /\ Copied \/ Goto("scaffold")
          /\ UNCHANGED info /\ RunError /\ excused' = excused \cup {"unsaved"}
    /\ Stable /\ UNCHANGED <<node, users>>

\* The old config is copied and its place stored. The cutover goes on without the
\* copy if there is none, and with a copy only the attempt knows of if the save fails.
Backup ==
    /\ job.pc = "backup"
    /\ \/ Copied /\ info' = job'.mem /\ UNCHANGED faults /\ excused' = IF Original THEN {} ELSE excused
       \/ /\ Copied \/ Goto("scaffold")
          /\ UNCHANGED info /\ RunError /\ excused' = excused \cup {"unsaved"}
    /\ Stable /\ UNCHANGED <<node, users>>

\* Install, first half: binary, unit and the minimal config, written over
\* whatever /etc/sing-box/config.json holds. Without sudo a failed write of the
\* minimal config is ignored.
Scaffold ==
    /\ job.pc = "scaffold"
    /\ \/ node' = [node EXCEPT !.file["sb"] = {}] /\ Goto("start") /\ Done
       \/ UNCHANGED node /\ CtxError /\ (Goto("start") \/ End("rolled-back"))
       \/ node' = [node EXCEPT !.file["sb"] = {}] /\ End("rolled-back") /\ CtxError
    /\ Same /\ UNCHANGED <<info, users>>

\* Install, second half: enable, restart, wait until the unit is up.
StartUnit ==
    /\ job.pc = "start"
    /\ LET up == [node EXCEPT !.enabled["sb"] = TRUE, !.run["sb"] = Starts("sb", node.file)]
       IN  \/ /\ node' = up /\ up.run["sb"] # Down /\ Done
              /\ Goto(IF job.det.kind = "awg" THEN "import" ELSE "disable")
           \/ node' = up /\ up.run["sb"] = Down /\ End("rolled-back") /\ UNCHANGED faults
           \/ /\ node' \in {node, up, [up EXCEPT !.run["sb"] = Down]}
              /\ End("rolled-back") /\ CtxError
    /\ Same /\ UNCHANGED <<info, users>>

\* ImportAWGConfigsViaClient: server section and peers of awg0.conf.
Import ==
    /\ job.pc = "import"
    /\ \/ /\ node.file["old"] # NoFile /\ UNCHANGED faults
          /\ job' = [job EXCEPT !.peers = node.file["old"], !.pc = "materialize"]
       \/ node.file["old"] = NoFile /\ End("rolled-back") /\ UNCHANGED faults
       \/ End("rolled-back") /\ RunError
    /\ Same /\ UNCHANGED <<node, info, users>>

\* MaterializeAWGPeersAsUsers: a peer that has a user already is skipped, one
\* that cannot be saved too. The inbound and the rendered awg0.conf know only
\* the users created here; neither is stored before the push has ended.
Materialize ==
    /\ job.pc = "materialize"
    /\ \E created \in SUBSET (job.peers \ users) :
         /\ IF created = job.peers \ users THEN UNCHANGED faults ELSE RunError
         /\ users' = users \cup created
         /\ job' = [job EXCEPT !.mem.synth = created, !.mem.forUsers = created,
                               !.pc = "push"]
    /\ Same /\ UNCHANGED <<node, info>>

\* DisableService: stop, then disable. AWG keeps running and skips it.
Disable ==
    /\ job.pc = "disable"
    /\ LET u == job.det.unit
           stopped == [node EXCEPT !.run[u] = Down]
           off     == [stopped EXCEPT !.enabled[u] = FALSE]
       IN  \/ node' = off /\ Goto("push") /\ Done
           \/ node' \in {node, stopped, off} /\ CtxError /\ End("rolled-back")
    /\ Same /\ UNCHANGED <<info, users>>

-----------------------------------------------------------------------------
\* The push: of the converted config, or of the overlay and a fresh awg0.conf with
\* the public keys and addresses of the created users.
Pushed ==
    [u \in Unit |-> IF job.det.kind # "awg" THEN IF u = "sb" THEN Convert(job.det.content) ELSE node.file[u]
                    ELSE IF u = "sb" THEN {} ELSE job.mem.synth \ WithPSK]

\* Layers a push writes.
Layers == IF job.det.kind = "awg" THEN Unit ELSE {"sb"}

\* A layer after a failed push: untouched, restored and restarted; or torn by a
\* failed upload, which nothing rolls back; or left by a rollback that failed, with
\* the new file, or with the restored one and the service down.
Untouched(u) == [file |-> node.file[u], run |-> node.run[u]]
Restored(u)  == [file |-> node.file[u], run |-> Starts(u, node.file)]
Broken(u)    ==      [file : {NoFile}, run : {node.run[u]}]
                \cup [file : {Pushed[u]}, run : {node.run[u], Pushed[u], Down}]
                \cup [file : {node.file[u]}, run : {Down}]

PushSucceeds ==
    /\ job.pc = "push" /\ Done
    /\ \A u \in Layers : Pushed[u] # NoFile
    /\ \E on \in {node.enabled["old"], TRUE} :   \* a peer sync does not enable the unit
         node' = [file    |-> Pushed,
                  run     |-> [u \in Unit |-> IF u \in Layers THEN Pushed[u] ELSE node.run[u]],
                  enabled |-> IF "old" \in Layers THEN [node.enabled EXCEPT !["old"] = on]
                              ELSE node.enabled]
    /\ Goto("record")
    /\ Same /\ UNCHANGED <<info, users>>

Calm(u)  == {Untouched(u)} \cup IF u \in Layers THEN {Restored(u)} ELSE {}
After(u) == Calm(u) \cup IF u \in Layers THEN Broken(u) ELSE {}

PushFails ==
    /\ job.pc = "push"
    /\ \E s \in After("sb"), o \in After("old") :
         /\ node' = [node EXCEPT !.file = [u \in Unit |-> IF u = "sb" THEN s.file ELSE o.file],
                                 !.run  = [u \in Unit |-> IF u = "sb" THEN s.run ELSE o.run]]
         /\ IF s \in Calm("sb") /\ o \in Calm("old") THEN UNCHANGED faults ELSE RunError
    /\ job' = [job EXCEPT !.rollback = TRUE, !.pc = "drop"]
    /\ Same /\ UNCHANGED <<info, users>>

\* Mutant: the created users are forgotten instead of deleted.
DropUsersForgotten ==
    /\ job.pc = "drop"
    /\ UNCHANGED <<users, faults>>
    /\ job' = [job EXCEPT !.mem.synth = {}, !.pc = "restore"]
    /\ Same /\ UNCHANGED <<node, info>>

\* The users the attempt created are deleted again. One that cannot be deleted is
\* only logged, and forgotten with the others.
DropUsers ==
    /\ job.pc = "drop"
    /\ \E left \in SUBSET job.mem.synth :
         /\ IF left = {} THEN UNCHANGED faults ELSE RunError
         /\ users' = users \ (job.mem.synth \ left)
         /\ job' = [job EXCEPT !.mem.synth = {}, !.undeleted = left, !.pc = "restore"]
    /\ Same /\ UNCHANGED <<node, info>>

-----------------------------------------------------------------------------
\* rollbackToOldVPN. Close puts the outcome into the attempt's copy of the NodeInfo,
\* which SaveOutcome stores.
Close(status) == job' = [job EXCEPT !.mem.status = status, !.pc = "save"]

Restore ==
    /\ job.pc = "restore"
    /\ \/ job.mem.backup = NoFile /\ Goto("revive") /\ UNCHANGED <<node, faults>>
       \/ /\ job.mem.backup # NoFile /\ Done
          /\ node' = [node EXCEPT !.file[job.det.unit] = job.mem.backup]
          /\ Goto("revive")
       \/ /\ job.mem.backup # NoFile /\ CtxError
          /\ node' \in {node, [node EXCEPT !.file[job.det.unit] = job.mem.backup]}
          /\ Close("failed-both")
    /\ Same /\ UNCHANGED <<info, users>>

\* enable (if it was) and start. Starting a unit that runs does nothing.
Revived(u) ==
    [node EXCEPT !.enabled[u] = @ \/ job.det.enabled,
                 !.run[u] = IF @ = Down THEN Starts(u, node.file) ELSE @]

Revive ==
    /\ job.pc = "revive"
    /\ \/ node' = Revived(job.det.unit) /\ Goto("probe") /\ Done
       \/ /\ node' \in {node, Revived(job.det.unit)} /\ CtxError
          /\ IF job.det.enabled THEN Close("failed-both") ELSE Goto("probe")
    /\ Same /\ UNCHANGED <<info, users>>

\* Mutant: the outcome of the probe is not looked at.
ProbeUnread ==
    /\ job.pc = "probe" /\ Close("rolled-back")
    /\ Same /\ UNCHANGED <<node, info, users, faults>>

\* Mutant: a unit that is not up is probed for ever.
ProbeUntilUp ==
    /\ job.pc = "probe"
    /\ \/ node.run[job.det.unit] # Down /\ Done /\ Close("rolled-back")
       \/ CtxError /\ Close("failed-both")
    /\ Same /\ UNCHANGED <<node, info, users>>

Probe ==
    /\ job.pc = "probe"
    /\ \/ node.run[job.det.unit] # Down /\ Done /\ Close("rolled-back")
       \/ node.run[job.det.unit] = Down /\ UNCHANGED faults /\ Close("failed-both")
       \/ CtxError /\ Close("failed-both")
    /\ Same /\ UNCHANGED <<node, info, users>>

-----------------------------------------------------------------------------
\* RecordDeploySuccess stores the hash in the NodeInfo, if it can.
Record ==
    /\ job.pc = "record"
    /\ \/ info' = [info EXCEPT !.deployed = TRUE] /\ UNCHANGED faults
       \/ UNCHANGED info /\ RunError
    /\ Close("taken")
    /\ Same /\ UNCHANGED <<node, users>>

\* SaveNodeInfo of the attempt's copy, which was made before the hash was stored.
\* A save that fails is only logged: the outcome is reported all the same.
SaveOutcome ==
    /\ job.pc = "save"
    /\ \/ info' = job.mem /\ UNCHANGED faults
       \/ UNCHANGED info /\ RunError
    /\ End(job.mem.status)
    /\ Same /\ UNCHANGED <<node, users>>

-----------------------------------------------------------------------------
\* The browser goes away: the request's context is cancelled.
Cancel ==
    /\ MayCancel /\ job.pc # "idle" /\ ~job.cancelled
    /\ job' = [job EXCEPT !.cancelled = TRUE]
    /\ Same /\ UNCHANGED <<node, info, users, faults>>

\* The panel's process ends: the attempt's local state is gone.
Crash ==
    /\ job.pc # "idle" /\ crashes < MaxCrashes
    /\ crashes' = crashes + 1
    /\ End("crashed")
    /\ UNCHANGED <<kind, node, info, users, attempts, faults, excused>>

Step ==
    \/ Prepare \/ Connect \/ Backup \/ Scaffold \/ StartUnit \/ Import
    \/ Materialize \/ Disable \/ PushSucceeds \/ PushFails \/ DropUsers
    \/ Restore \/ Revive \/ Probe \/ Record \/ SaveOutcome

Next == Begin \/ Step \/ Cancel \/ Crash

Spec     == Init /\ [][Next]_vars
FairSpec == Spec /\ WF_vars(Step)

-----------------------------------------------------------------------------
\* Every variable keeps its type.
TypeOK ==
    /\ kind \in {"singbox", "xray", "awg"} /\ node \in Node /\ info \in NodeInfo
    /\ users \in Content /\ job \in Job
    /\ attempts \in 0..MaxAttempts /\ faults \in 0..MaxFaults /\ crashes \in 0..MaxCrashes
    /\ excused \subseteq {"unsaved", "erased"}

Ended(results) == job.pc = "idle" /\ job.result \in results

\* A takeover whose push failed and that reports "rolled-back" ("old VPN restored and
\* active") has the old unit up, and after a reboot it serves everybody it would have
\* served before: its file and its enablement are back. The file comes from the backup,
\* without which only that of xray, which no push writes, is promised. The clients of
\* xray are served at once; those of sing-box and AWG may have to wait for a restart,
\* because EnableService starts a unit and never restarts one (the push's own rollback
\* brings sing-box up with the scaffold, and may leave AWG with the new conf).
RollbackRestores ==
    Ended({"rolled-back"}) /\ job.rollback =>
        /\ node.run[job.det.unit] # Down
        /\ job.det.kind = "xray" => job.now \subseteq node.run[job.det.unit]
        /\ job.mem.backup # NoFile \/ job.det.kind = "xray" =>
               job.boot \subseteq BootServed({job.det.unit})

\* After a takeover that was rolled back, or failed on both sides, the store has the
\* users it had, and of those the attempt created only the ones whose deletion failed
\* ("no phantom users survive a rollback", as far as DeleteUser works).
NoPhantomUsers ==
    Ended({"rolled-back", "failed-both"}) => users = job.had \cup job.undeleted

\* Through every attempt, failure and crash the config the server came with is where
\* it was, or where the stored takeover state says its backup is. It is let go in two
\* ways only: the cutover went on although the backup, or the save of its place,
\* failed (both are warnings at most); or a later attempt put a takeover state of its
\* own over one that names a backup. An attempt that finds the config in place and
\* stores its backup makes up for either.
OldConfigRecoverable ==
    \/ Original
    \/ info.unit = Home /\ info.backup = Client
    \/ excused # {}

\* Every attempt ends, whatever fails, and with it the operator's request.
TakeoverEnds == (job.pc # "idle") ~> (job.pc = "idle")
=============================================================================
