-------------------------- MODULE Takeover_proofs --------------------------
(***************************************************************************)
(* What a takeover keeps and gives back, for every set of clients, every   *)
(* old VPN and every number of attempts, failed commands and crashes.      *)
(***************************************************************************)
EXTENDS Takeover, TLAPS

-----------------------------------------------------------------------------
(* The shapes of the records *)

JobFields  == {"pc", "det", "mem", "peers", "cancelled", "result", "rollback", "now",
               "boot", "had", "undeleted"}
InfoFields == {"status", "unit", "backup", "synth", "forUsers", "deployed"}

Shapes ==
    /\ DOMAIN job = JobFields
    /\ DOMAIN job.mem = InfoFields
    /\ DOMAIN info = InfoFields
    /\ DOMAIN node = {"file", "run", "enabled"}
    /\ DOMAIN node.file = Unit /\ DOMAIN node.run = Unit /\ DOMAIN node.enabled = Unit

\* An attempt that runs has detected a unit.
UnitDetected == job.pc \in PCs /\ (job.pc # "idle" => job.det.unit \in Unit)

Core == Shapes /\ UnitDetected

-----------------------------------------------------------------------------
(* The invariant *)

\* The stages of an attempt: before the push, from the backup on, in the rollback.
BeforePush == {"convert", "connect", "backup", "scaffold", "start", "import",
               "materialize", "disable"}
PastBackup == {"scaffold", "start", "import", "materialize", "disable", "push", "drop",
               "restore", "revive", "probe", "record", "save"}

\* The outcome that waits to be saved.
Closing(statuses) == job.pc = "save" /\ job.mem.status \in statuses

\* The users of the store through an attempt: those it found, with those it
\* created from the push to their deletion, and then those it could not delete.
UsersTracked ==
    /\ job.pc \in BeforePush => users = job.had
    /\ job.pc \in BeforePush \cup {"push", "drop"} => job.undeleted = {}
    /\ job.pc \in BeforePush \ {"convert"} => job.mem.synth = {}
    /\ job.pc \in {"push", "drop"} =>
           users = job.had \cup job.mem.synth /\ job.mem.synth \cap job.had = {}
    /\ job.pc \in {"restore", "revive", "probe"} \/ Closing({"rolled-back", "failed-both"}) =>
           users = job.had \cup job.undeleted
    /\ job.pc = "save" => job.mem.status \in {"taken", "rolled-back", "failed-both"}
    /\ NoPhantomUsers

\* What was detected: sing-box, or the VPN the server came with. A server that came
\* with sing-box has no other; xray's file is written by no one.
Detected ==
    /\ kind \in {"singbox", "xray", "awg"}
    /\ job.pc # "idle" =>
         /\ job.det.unit \in Unit
         /\ job.det.unit = "sb" => job.det.kind = "singbox"
         /\ job.det.unit = "old" => job.det.kind = kind /\ kind \in {"xray", "awg"}
         /\ \A c \in job.boot : job.det.enabled /\ job.det.content # NoFile /\ c \in job.det.content
         /\ job.det.kind = "xray" => job.det.content = Client /\ job.now \subseteq Client
    /\ kind = "singbox" =>
           node.file["old"] = NoFile /\ node.run["old"] = Down /\ ~node.enabled["old"]
    /\ kind = "xray" => node.file["old"] = Client /\ node.run["old"] \in {Down, Client}

\* The backup is taken of the file that was detected.
BackupKnown ==
    /\ job.pc \in {"convert", "connect", "backup"} => node.file[job.det.unit] = job.det.content
    /\ job.pc \in {"connect", "backup"} => job.mem.backup = NoFile
    /\ job.pc \notin {"idle", "convert"} => job.mem.unit = job.det.unit
    /\ job.pc \notin {"idle", "convert"} /\ job.mem.backup # NoFile =>
           job.mem.backup = job.det.content

\* A rollback on its way: the old file is back after Restore, the unit is enabled as
\* it was after Revive, and it is up once the probe has said so.
RollingBack ==
    /\ job.pc \in BeforePush \cup {"push"} => ~job.rollback
    /\ (job.pc \in {"revive", "probe"} \/ Closing({"rolled-back"})) /\ job.mem.backup # NoFile =>
           node.file[job.det.unit] = job.det.content
    /\ (job.pc = "probe" \/ Closing({"rolled-back"})) /\ job.det.enabled =>
           node.enabled[job.det.unit]
    /\ Closing({"rolled-back"}) => node.run[job.det.unit] # Down
    /\ RollbackRestores

\* The stored takeover state names what the attempt's own copy names, and nothing
\* happens to the original config before its backup is stored.
ConfigKept ==
    /\ excused = {} /\ job.pc \in {"connect", "backup"} => Original
    /\ excused = {} /\ job.pc \in PastBackup =>
         /\ info.unit = job.mem.unit /\ info.backup = job.mem.backup
         /\ job.det.unit = Home => job.mem.backup = Client
         /\ job.det.unit # Home => Original
    /\ OldConfigRecoverable

IInv == Core /\ UsersTracked /\ Detected /\ BackupKnown /\ RollingBack /\ ConfigKept

-----------------------------------------------------------------------------
(* What the steps do to the attempt *)

Kept(changed) ==
    /\ DOMAIN job' = JobFields
    /\ \A f \in JobFields \ changed : job'[f] = job[f]

LEMMA KeptFields ==
    ASSUME NEW changed, Kept(changed)
    PROVE  /\ "pc" \notin changed => job'.pc = job.pc
           /\ "result" \notin changed => job'.result = job.result
           /\ "det" \notin changed => job'.det = job.det
           /\ "mem" \notin changed => job'.mem = job.mem
           /\ "had" \notin changed => job'.had = job.had
           /\ "peers" \notin changed => job'.peers = job.peers
           /\ "now" \notin changed => job'.now = job.now
           /\ "boot" \notin changed => job'.boot = job.boot
           /\ "rollback" \notin changed => job'.rollback = job.rollback
           /\ "undeleted" \notin changed => job'.undeleted = job.undeleted
BY DEF Kept, JobFields

LEMMA GotoKeeps ==
    ASSUME Shapes, NEW p, Goto(p)
    PROVE  Kept({"pc"}) /\ job'.pc = p
BY DEF Shapes, Goto, Kept, JobFields

LEMMA EndKeeps ==
    ASSUME Shapes, NEW r, End(r)
    PROVE  Kept({"pc", "result"}) /\ job'.pc = "idle" /\ job'.result = r
BY DEF Shapes, End, Kept, JobFields

LEMMA CloseKeeps ==
    ASSUME Shapes, NEW r, Close(r)
    PROVE  /\ Kept({"pc", "mem"}) /\ job'.pc = "save"
           /\ DOMAIN job'.mem = InfoFields /\ job'.mem.status = r
           /\ \A f \in InfoFields \ {"status"} : job'.mem[f] = job.mem[f]
BY DEF Shapes, Close, Kept, JobFields, InfoFields

LEMMA BeginKeeps ==
    ASSUME Shapes, Begin
    PROVE  /\ Kept({"cancelled", "peers", "now", "boot", "had", "rollback", "undeleted",
                    "det", "result", "pc"})
           /\ job'.had = users /\ ~job'.rollback /\ job'.undeleted = {}
           /\ LET old == {DetectVPN.unit} \cap Unit
              IN  job'.now = Served(old) /\ job'.boot = BootServed(old)
           /\ \/ /\ job'.det = DetectVPN /\ job'.result = ""
                 /\ job'.pc = IF DetectVPN = NoVPN THEN "idle" ELSE "convert"
              \/ job'.det = NoVPN /\ job'.result = "error" /\ job'.pc = "idle"
<1> USE DEF Shapes, JobFields, Kept
<1>1. job.pc = "idle"
  BY DEF Begin
<1> DEFINE old == {DetectVPN.unit} \cap Unit
           d == DetectVPN
           now == Served(old)
           boot == BootServed(old)
           fresh == [job EXCEPT !.cancelled = FALSE, !.peers = NoFile, !.rollback = FALSE,
                        !.now = now, !.boot = boot, !.had = users, !.undeleted = {}]
<1>2. \/ job' = [fresh EXCEPT !.det = d, !.result = "",
                             !.pc = IF d = NoVPN THEN "idle" ELSE "convert"]
      \/ job' = [fresh EXCEPT !.det = NoVPN, !.result = "error"]
  BY DEF Begin
<1> HIDE DEF d, now, boot
<1>3. /\ DOMAIN fresh = JobFields
      /\ \A f \in JobFields \ {"cancelled", "peers", "now", "boot", "had", "rollback",
                                "undeleted"} : fresh[f] = job[f]
      /\ fresh.now = now /\ fresh.boot = boot /\ fresh.had = users
      /\ ~fresh.rollback /\ fresh.undeleted = {}
  OBVIOUS
<1> HIDE DEF fresh
<1>4. CASE job' = [fresh EXCEPT !.det = d, !.result = "",
                             !.pc = IF d = NoVPN THEN "idle" ELSE "convert"]
  BY <1>3, <1>4 DEF d, now, boot
<1>5. CASE job' = [fresh EXCEPT !.det = NoVPN, !.result = "error"]
  BY <1>1, <1>3, <1>5 DEF d, now, boot
<1> QED BY <1>2, <1>4, <1>5

LEMMA PrepareFacts ==
    ASSUME Shapes, Prepare
    PROVE  /\ job.pc = "convert" /\ UNCHANGED <<kind, node, users>>
           /\ \/ /\ Kept({"pc", "result"}) /\ UNCHANGED <<info, excused>>
                 /\ job'.pc = "idle" /\ job'.result \in {"nothing", "failed", "error"}
              \/ /\ Kept({"pc", "mem"}) /\ job'.pc = "connect" /\ job'.mem = info'
                 /\ DOMAIN info' = InfoFields /\ info'.backup = NoFile /\ info'.synth = {}
                 /\ info'.unit = job.det.unit
                 /\ excused' = {} => excused = {} /\ info.backup = NoFile
<1>1. job.pc = "convert" /\ UNCHANGED <<kind, node, users>>
  BY DEF Prepare, Stable
<1>2. ASSUME NEW r \in {"nothing", "failed", "error"}, End(r), UNCHANGED <<info, excused>>
      PROVE  /\ Kept({"pc", "result"}) /\ UNCHANGED <<info, excused>>
             /\ job'.pc = "idle" /\ job'.result \in {"nothing", "failed", "error"}
  BY <1>2, EndKeeps
<1>3. ASSUME info' = [info EXCEPT !.status = "converting", !.unit = job.det.unit,
                                  !.backup = NoFile, !.synth = {}, !.forUsers = {}],
             job' = [job EXCEPT !.mem = info', !.pc = "connect"]
      PROVE  /\ Kept({"pc", "mem"}) /\ job'.pc = "connect" /\ job'.mem = info'
             /\ DOMAIN info' = InfoFields /\ info'.backup = NoFile /\ info'.synth = {}
             /\ info'.unit = job.det.unit
  BY <1>3 DEF Shapes, Kept, JobFields, InfoFields
<1>4. ASSUME excused' = IF info.backup = NoFile THEN excused ELSE excused \cup {"erased"}
      PROVE  excused' = {} => excused = {} /\ info.backup = NoFile
  BY <1>4
<1> QED BY <1>1, <1>2, <1>3, <1>4 DEF Prepare

LEMMA ConnectFacts ==
    ASSUME Shapes, Connect
    PROVE  /\ job.pc = "connect" /\ UNCHANGED <<kind, node, info, users, excused>>
           /\ \/ Kept({"pc"}) /\ job'.pc = "backup"
              \/ Kept({"pc", "result"}) /\ job'.pc = "idle" /\ job'.result = "error"
BY GotoKeeps, EndKeeps DEF Connect, Same

LEMMA BackupFacts ==
    ASSUME Shapes, Backup
    PROVE  /\ job.pc = "backup" /\ job'.pc = "scaffold" /\ UNCHANGED <<kind, node, users>>
           /\ Kept({"pc", "mem"}) /\ DOMAIN job'.mem = InfoFields
           /\ job'.mem.backup \in {job.mem.backup, node.file[job.det.unit]}
           /\ job'.mem.synth = job.mem.synth /\ job'.mem.unit = job.mem.unit
           /\ \/ /\ info' = job'.mem /\ job'.mem.backup = node.file[job.det.unit]
                 /\ excused' = {} => excused = {} \/ Original
              \/ UNCHANGED info /\ excused' # {}
<1>1. job.pc = "backup" /\ UNCHANGED <<kind, node, users>>
  BY DEF Backup, Stable
<1>2. ASSUME Goto("scaffold")
      PROVE  /\ Kept({"pc", "mem"}) /\ job'.pc = "scaffold" /\ job'.mem = job.mem
             /\ DOMAIN job'.mem = InfoFields
  BY <1>2 DEF Goto, Shapes, Kept, JobFields
<1>3. ASSUME Copied
      PROVE  /\ Kept({"pc", "mem"}) /\ job'.pc = "scaffold" /\ DOMAIN job'.mem = InfoFields
             /\ job'.mem.backup = node.file[job.det.unit]
             /\ job'.mem.synth = job.mem.synth /\ job'.mem.unit = job.mem.unit
  BY <1>3 DEF Copied, Shapes, Kept, JobFields, InfoFields
<1>4. CASE Copied /\ info' = job'.mem /\ excused' = IF Original THEN {} ELSE excused
  BY <1>1, <1>3, <1>4
<1>5. CASE /\ Copied \/ Goto("scaffold")
           /\ UNCHANGED info /\ excused' = excused \cup {"unsaved"}
  BY <1>1, <1>2, <1>3, <1>5
<1> QED BY <1>4, <1>5 DEF Backup

NodeShape ==
    /\ DOMAIN node' = {"file", "run", "enabled"}
    /\ DOMAIN node'.file = Unit /\ DOMAIN node'.run = Unit /\ DOMAIN node'.enabled = Unit

\* The old unit is as it was.
OldSame ==
    /\ NodeShape
    /\ node'.file["old"] = node.file["old"] /\ node'.run["old"] = node.run["old"]
    /\ node'.enabled["old"] = node.enabled["old"]

LEMMA ScaffoldFacts ==
    ASSUME Shapes, Scaffold
    PROVE  /\ job.pc = "scaffold" /\ UNCHANGED <<kind, info, users, excused>> /\ OldSame
           /\ \/ Kept({"pc"}) /\ job'.pc = "start"
              \/ Kept({"pc", "result"}) /\ job'.pc = "idle" /\ job'.result = "rolled-back"
<1>1. job.pc = "scaffold" /\ UNCHANGED <<kind, info, users, excused>>
  BY DEF Scaffold, Same
<1>2. Goto("start") \/ End("rolled-back")
  BY DEF Scaffold
<1>3. node' = [node EXCEPT !.file["sb"] = {}] \/ UNCHANGED node
  BY DEF Scaffold
<1>4. OldSame
  BY <1>3 DEF Shapes, OldSame, NodeShape, Unit
<1> QED BY <1>1, <1>2, <1>4, GotoKeeps, EndKeeps

LEMMA StartUnitFacts ==
    ASSUME Shapes, StartUnit
    PROVE  /\ job.pc = "start" /\ UNCHANGED <<kind, info, users, excused>> /\ OldSame
           /\ \/ /\ Kept({"pc"}) /\ node'.enabled["sb"]
                 /\ job'.pc = IF job.det.kind = "awg" THEN "import" ELSE "disable"
              \/ Kept({"pc", "result"}) /\ job'.pc = "idle" /\ job'.result = "rolled-back"
           /\ node'.file = node.file
<1> DEFINE up == [node EXCEPT !.enabled["sb"] = TRUE, !.run["sb"] = Starts("sb", node.file)]
           next == IF job.det.kind = "awg" THEN "import" ELSE "disable"
<1>1. job.pc = "start" /\ UNCHANGED <<kind, info, users, excused>>
  BY DEF StartUnit, Same
<1>2. /\ (Goto(next) /\ node' = up) \/ End("rolled-back")
      /\ node' \in {node, up, [up EXCEPT !.run["sb"] = Down]}
  BY DEF StartUnit
<1>3. /\ DOMAIN up = {"file", "run", "enabled"} /\ DOMAIN up.file = Unit
      /\ DOMAIN up.run = Unit /\ DOMAIN up.enabled = Unit
      /\ up.file = node.file /\ up.run["old"] = node.run["old"]
      /\ up.enabled["old"] = node.enabled["old"] /\ up.enabled["sb"]
  BY DEF Shapes, Unit
<1> HIDE DEF up
<1>5. OldSame /\ (node' = up => node'.enabled["sb"]) /\ node'.file = node.file
  BY <1>2, <1>3 DEF Shapes, OldSame, NodeShape, Unit
<1> HIDE DEF next
<1>4. \/ Kept({"pc"}) /\ job'.pc = next /\ node' = up
      \/ Kept({"pc", "result"}) /\ job'.pc = "idle" /\ job'.result = "rolled-back"
  BY <1>2, GotoKeeps, EndKeeps
<1> QED BY <1>1, <1>4, <1>5 DEF next

LEMMA ImportFacts ==
    ASSUME Shapes, Import
    PROVE  /\ job.pc = "import" /\ UNCHANGED <<kind, node, info, users, excused>>
           /\ \/ /\ Kept({"pc", "peers"}) /\ job'.pc = "materialize"
                 /\ job'.peers = node.file["old"] /\ node.file["old"] # NoFile
              \/ Kept({"pc", "result"}) /\ job'.pc = "idle" /\ job'.result = "rolled-back"
<1>1. job.pc = "import" /\ UNCHANGED <<kind, node, info, users, excused>>
  BY DEF Import, Same
<1>2. CASE /\ node.file["old"] # NoFile
           /\ job' = [job EXCEPT !.peers = node.file["old"], !.pc = "materialize"]
  BY <1>1, <1>2 DEF Shapes, Kept, JobFields
<1>3. CASE End("rolled-back")
  BY <1>1, <1>3, EndKeeps
<1> QED BY <1>2, <1>3 DEF Import

LEMMA MaterializeFacts ==
    ASSUME Shapes, Materialize
    PROVE  /\ job.pc = "materialize" /\ job'.pc = "push" /\ UNCHANGED <<kind, node, info, excused>>
           /\ Kept({"pc", "mem"})
           /\ DOMAIN job'.mem = InfoFields /\ job'.mem.backup = job.mem.backup
           /\ job'.mem.unit = job.mem.unit
           /\ job'.mem.synth \cap users = {}
           /\ users' = users \cup job'.mem.synth
<1>1. job.pc = "materialize" /\ UNCHANGED <<kind, node, info, excused>>
  BY DEF Materialize, Same
<1>2. PICK created \in SUBSET (job.peers \ users) :
         /\ users' = users \cup created
         /\ job' = [job EXCEPT !.mem.synth = created, !.mem.forUsers = created, !.pc = "push"]
  BY DEF Materialize
<1>3. /\ Kept({"pc", "mem"}) /\ job'.pc = "push"
      /\ DOMAIN job'.mem = InfoFields /\ job'.mem.backup = job.mem.backup
      /\ job'.mem.unit = job.mem.unit /\ job'.mem.synth = created
  BY <1>2 DEF Shapes, Kept, JobFields, InfoFields
<1> QED BY <1>1, <1>2, <1>3

LEMMA DisableFacts ==
    ASSUME Shapes, job.det.unit \in Unit, Disable
    PROVE  /\ job.pc = "disable" /\ UNCHANGED <<kind, info, users, excused>>
           /\ NodeShape /\ node'.file = node.file
           /\ \A u \in Unit : u # job.det.unit => node'.enabled[u] = node.enabled[u]
           /\ \A u \in Unit : node'.run[u] \in {Down, node.run[u]}
           /\ \/ Kept({"pc"}) /\ job'.pc = "push"
              \/ Kept({"pc", "result"}) /\ job'.pc = "idle" /\ job'.result = "rolled-back"
<1> DEFINE u == job.det.unit
           stopped == [node EXCEPT !.run[u] = Down]
           off     == [stopped EXCEPT !.enabled[u] = FALSE]
<1>1. job.pc = "disable" /\ UNCHANGED <<kind, info, users, excused>>
  BY DEF Disable, Same
<1>2. node' \in {node, stopped, off} /\ (Goto("push") \/ End("rolled-back"))
  BY DEF Disable
<1>3. /\ DOMAIN stopped = {"file", "run", "enabled"} /\ stopped.file = node.file
      /\ stopped.enabled = node.enabled /\ DOMAIN stopped.run = Unit
      /\ \A v \in Unit : stopped.run[v] \in {Down, node.run[v]}
  BY DEF Shapes, Unit
<1> HIDE DEF stopped
<1>4. /\ DOMAIN off = {"file", "run", "enabled"} /\ off.file = node.file
      /\ off.run = stopped.run /\ DOMAIN off.enabled = Unit
      /\ \A v \in Unit : v # u => off.enabled[v] = node.enabled[v]
  BY <1>3 DEF Shapes, Unit
<1> HIDE DEF off
<1>5. /\ NodeShape /\ node'.file = node.file
      /\ \A v \in Unit : v # u => node'.enabled[v] = node.enabled[v]
      /\ \A v \in Unit : node'.run[v] \in {Down, node.run[v]}
  BY <1>2, <1>3, <1>4 DEF Shapes, NodeShape
<1> QED BY <1>1, <1>2, <1>5, GotoKeeps, EndKeeps

LEMMA DropUsersFacts ==
    ASSUME Shapes, DropUsers
    PROVE  /\ job.pc = "drop" /\ job'.pc = "restore" /\ UNCHANGED <<kind, node, info, excused>>
           /\ Kept({"pc", "mem", "undeleted"}) /\ DOMAIN job'.mem = InfoFields
           /\ job'.mem.backup = job.mem.backup /\ job'.mem.unit = job.mem.unit
           /\ job'.undeleted \subseteq job.mem.synth
           /\ users' = users \ (job.mem.synth \ job'.undeleted)
<1>1. job.pc = "drop" /\ UNCHANGED <<kind, node, info, excused>>
  BY DEF DropUsers, Same
<1>2. PICK left \in SUBSET job.mem.synth :
         /\ users' = users \ (job.mem.synth \ left)
         /\ job' = [job EXCEPT !.mem.synth = {}, !.undeleted = left, !.pc = "restore"]
  BY DEF DropUsers
<1>3. /\ Kept({"pc", "mem", "undeleted"}) /\ DOMAIN job'.mem = InfoFields
      /\ job'.pc = "restore" /\ job'.undeleted = left
      /\ job'.mem.backup = job.mem.backup /\ job'.mem.unit = job.mem.unit
  BY <1>2 DEF Shapes, Kept, JobFields, InfoFields
<1> QED BY <1>1, <1>2, <1>3

LEMMA RecordFacts ==
    ASSUME Shapes, Record
    PROVE  /\ job.pc = "record" /\ UNCHANGED <<kind, node, users, excused>> /\ Close("taken")
           /\ DOMAIN info' = InfoFields /\ info'.backup = info.backup /\ info'.unit = info.unit
<1>1. job.pc = "record" /\ UNCHANGED <<kind, node, users, excused>> /\ Close("taken")
  BY DEF Record, Same
<1>2. info' = [info EXCEPT !.deployed = TRUE] \/ UNCHANGED info
  BY DEF Record
<1> QED BY <1>1, <1>2 DEF Shapes, InfoFields

LEMMA SaveOutcomeFacts ==
    ASSUME Shapes, SaveOutcome
    PROVE  /\ job.pc = "save" /\ UNCHANGED <<kind, node, users, excused>>
           /\ Kept({"pc", "result"}) /\ job'.pc = "idle" /\ job'.result = job.mem.status
           /\ info' \in {info, job.mem}
BY EndKeeps DEF SaveOutcome, Same

LEMMA CancelFacts ==
    ASSUME Shapes, Cancel
    PROVE  /\ job.pc # "idle" /\ UNCHANGED <<kind, node, info, users, excused>> /\ Kept({"cancelled"})
<1>1. job.pc # "idle" /\ UNCHANGED <<kind, node, info, users, excused>>
  BY DEF Cancel, Same
<1>2. Kept({"cancelled"})
  BY DEF Cancel, Kept, Shapes, JobFields
<1> QED BY <1>1, <1>2

LEMMA CrashFacts ==
    ASSUME Shapes, Crash
    PROVE  /\ job.pc # "idle" /\ UNCHANGED <<kind, node, info, users, excused>>
           /\ Kept({"pc", "result"}) /\ job'.pc = "idle" /\ job'.result = "crashed"
BY EndKeeps DEF Crash

LEMMA PushSucceedsFacts ==
    ASSUME Shapes, PushSucceeds
    PROVE  /\ job.pc = "push" /\ job'.pc = "record" /\ UNCHANGED <<kind, info, users, excused>>
           /\ Kept({"pc"}) /\ NodeShape /\ node'.file = Pushed
           /\ node'.run["sb"] = Pushed["sb"]
           /\ node'.run["old"] = IF job.det.kind = "awg" THEN Pushed["old"] ELSE node.run["old"]
           /\ job.det.kind = "awg" => Pushed["old"] # NoFile
           /\ node'.enabled["sb"] = node.enabled["sb"]
           /\ node.enabled["old"] => node'.enabled["old"]
           /\ job.det.kind # "awg" => node'.enabled["old"] = node.enabled["old"]
<1>1. /\ job.pc = "push" /\ UNCHANGED <<kind, info, users, excused>> /\ Goto("record")
      /\ \A u \in Layers : Pushed[u] # NoFile
  BY DEF PushSucceeds, Same
<1> DEFINE runs == [u \in Unit |-> IF u \in Layers THEN Pushed[u] ELSE node.run[u]]
<1>2. PICK on \in {node.enabled["old"], TRUE} :
         node' = [file    |-> Pushed,
                  run     |-> runs,
                  enabled |-> IF "old" \in Layers THEN [node.enabled EXCEPT !["old"] = on]
                              ELSE node.enabled]
  BY DEF PushSucceeds
<1> DEFINE ens == IF "old" \in Layers THEN [node.enabled EXCEPT !["old"] = on]
                  ELSE node.enabled
<1>3. /\ DOMAIN ens = Unit /\ ens["sb"] = node.enabled["sb"]
      /\ node.enabled["old"] => ens["old"]
      /\ job.det.kind # "awg" => ens["old"] = node.enabled["old"]
  BY DEF Shapes, Unit, Layers
<1>4. /\ DOMAIN runs = Unit /\ runs["sb"] = Pushed["sb"]
      /\ runs["old"] = IF job.det.kind = "awg" THEN Pushed["old"] ELSE node.run["old"]
  BY DEF Unit, Layers
<1>5. DOMAIN Pushed = Unit
  BY DEF Pushed
<1>6. job.det.kind = "awg" => Pushed["old"] # NoFile
  BY <1>1 DEF Layers, Unit
<1> HIDE DEF ens, runs
<1>7. /\ DOMAIN node' = {"file", "run", "enabled"} /\ node'.file = Pushed
      /\ node'.run = runs /\ node'.enabled = ens
  BY <1>2 DEF ens
<1> QED BY <1>1, <1>3, <1>4, <1>5, <1>6, <1>7, GotoKeeps DEF NodeShape

LEMMA PushFailsFacts ==
    ASSUME Shapes, PushFails
    PROVE  /\ job.pc = "push" /\ job'.pc = "drop" /\ UNCHANGED <<kind, info, users, excused>>
           /\ Kept({"pc", "rollback"}) /\ job'.rollback
           /\ NodeShape /\ node'.enabled = node.enabled
           /\ job.det.kind # "awg" => /\ node'.file["old"] = node.file["old"]
                                      /\ node'.run["old"] = node.run["old"]
<1>1. job.pc = "push" /\ UNCHANGED <<kind, info, users, excused>>
  BY DEF PushFails, Same
<1>2. job' = [job EXCEPT !.rollback = TRUE, !.pc = "drop"]
  BY DEF PushFails
<1>3. Kept({"pc", "rollback"}) /\ job'.rollback /\ job'.pc = "drop"
  BY <1>2 DEF Shapes, Kept, JobFields
<1>4. PICK s \in After("sb"), o \in After("old") :
         node' = [node EXCEPT !.file = [u \in Unit |-> IF u = "sb" THEN s.file ELSE o.file],
                              !.run  = [u \in Unit |-> IF u = "sb" THEN s.run ELSE o.run]]
  BY Zenon DEF PushFails
<1> DEFINE files == [u \in Unit |-> IF u = "sb" THEN s.file ELSE o.file]
           runs  == [u \in Unit |-> IF u = "sb" THEN s.run ELSE o.run]
<1>5. DOMAIN files = Unit /\ DOMAIN runs = Unit /\ files["old"] = o.file /\ runs["old"] = o.run
  BY DEF Unit
<1>6. node' = [node EXCEPT !.file = files, !.run = runs]
  BY <1>4
<1>7. ASSUME job.det.kind # "awg"
      PROVE  o.file = node.file["old"] /\ o.run = node.run["old"]
  <2>1. "old" \notin Layers
    BY <1>7 DEF Layers
  <2>2. o = Untouched("old")
    BY <2>1 DEF After, Calm
  <2> QED BY <2>2 DEF Untouched
<1> HIDE DEF files, runs
<1>8. /\ DOMAIN node' = {"file", "run", "enabled"} /\ node'.file = files /\ node'.run = runs
      /\ node'.enabled = node.enabled
  BY <1>6 DEF Shapes
<1> QED BY <1>1, <1>3, <1>5, <1>7, <1>8 DEF NodeShape, Shapes

LEMMA RestoreFacts ==
    ASSUME Shapes, job.det.unit \in Unit, Restore
    PROVE  /\ job.pc = "restore" /\ UNCHANGED <<kind, info, users, excused>>
           /\ NodeShape /\ node'.run = node.run /\ node'.enabled = node.enabled
           /\ \A u \in Unit : u # job.det.unit => node'.file[u] = node.file[u]
           /\ \/ node'.file[job.det.unit] = node.file[job.det.unit]
              \/ job.mem.backup # NoFile /\ node'.file[job.det.unit] = job.mem.backup
           /\ \/ /\ Kept({"pc"}) /\ job'.pc = "revive"
                 /\ job.mem.backup # NoFile => node'.file[job.det.unit] = job.mem.backup
              \/ Close("failed-both")
<1> DEFINE u == job.det.unit
           put == [node EXCEPT !.file[u] = job.mem.backup]
<1>1. job.pc = "restore" /\ UNCHANGED <<kind, info, users, excused>>
  BY DEF Restore, Same
<1>2. /\ DOMAIN put = {"file", "run", "enabled"} /\ DOMAIN put.file = Unit
      /\ put.run = node.run /\ put.enabled = node.enabled /\ put.file[u] = job.mem.backup
      /\ \A v \in Unit : v # u => put.file[v] = node.file[v]
  BY DEF Shapes
<1>3. \/ job.mem.backup = NoFile /\ Goto("revive") /\ UNCHANGED node
      \/ job.mem.backup # NoFile /\ node' = put /\ Goto("revive")
      \/ job.mem.backup # NoFile /\ node' \in {node, put} /\ Close("failed-both")
  BY DEF Restore
<1> HIDE DEF put
<1>4. /\ NodeShape /\ node'.run = node.run /\ node'.enabled = node.enabled
      /\ \A v \in Unit : v # u => node'.file[v] = node.file[v]
  BY <1>2, <1>3 DEF Shapes, NodeShape
<1>5. \/ node'.file[u] = node.file[u]
      \/ job.mem.backup # NoFile /\ node'.file[u] = job.mem.backup
  BY <1>2, <1>3
<1>6. \/ /\ Kept({"pc"}) /\ job'.pc = "revive"
         /\ job.mem.backup # NoFile => node'.file[u] = job.mem.backup
      \/ Close("failed-both")
  BY <1>2, <1>3, GotoKeeps
<1> QED BY <1>1, <1>4, <1>5, <1>6

LEMMA ReviveFacts ==
    ASSUME Shapes, job.det.unit \in Unit, Revive
    PROVE  /\ job.pc = "revive" /\ UNCHANGED <<kind, info, users, excused>>
           /\ NodeShape /\ node'.file = node.file
           /\ \A u \in Unit : u # job.det.unit =>
                  node'.run[u] = node.run[u] /\ node'.enabled[u] = node.enabled[u]
           /\ node'.run[job.det.unit] \in {node.run[job.det.unit], Starts(job.det.unit, node.file)}
           /\ node.enabled[job.det.unit] => node'.enabled[job.det.unit]
           /\ \/ /\ Kept({"pc"}) /\ job'.pc = "probe"
                 /\ job.det.enabled => node'.enabled[job.det.unit]
              \/ Close("failed-both")
<1> DEFINE u == job.det.unit
           on == node.enabled[u] \/ job.det.enabled
           st == Starts(u, node.file)
           rn == IF node.run[u] = Down THEN st ELSE node.run[u]
           rev == [node EXCEPT !.enabled[u] = on, !.run[u] = rn]
<1>1. job.pc = "revive" /\ UNCHANGED <<kind, info, users, excused>>
  BY DEF Revive, Same
<1>0. Revived(u) = rev
  BY DEF Revived
<1>2. \/ node' = rev /\ Goto("probe")
      \/ /\ node' \in {node, rev}
         /\ \/ job.det.enabled /\ Close("failed-both")
            \/ ~job.det.enabled /\ Goto("probe")
  BY <1>0 DEF Revive
<1>3. rn \in {node.run[u], st} /\ (node.enabled[u] => on) /\ (job.det.enabled => on)
  OBVIOUS
<1> HIDE DEF on, rn, st
<1>4. /\ DOMAIN rev = {"file", "run", "enabled"} /\ rev.file = node.file
      /\ DOMAIN rev.run = Unit /\ DOMAIN rev.enabled = Unit
      /\ \A v \in Unit : v # u => rev.run[v] = node.run[v] /\ rev.enabled[v] = node.enabled[v]
      /\ rev.run[u] = rn /\ rev.enabled[u] = on
  BY DEF Shapes
<1> HIDE DEF rev
<1>5. /\ NodeShape /\ node'.file = node.file
      /\ \A v \in Unit : v # u => node'.run[v] = node.run[v] /\ node'.enabled[v] = node.enabled[v]
  BY <1>2, <1>4 DEF Shapes, NodeShape
<1>6. node'.run[u] \in {node.run[u], st} /\ (node.enabled[u] => node'.enabled[u])
  BY <1>2, <1>3, <1>4
<1>7. \/ /\ Kept({"pc"}) /\ job'.pc = "probe"
         /\ job.det.enabled => node'.enabled[u]
      \/ Close("failed-both")
  BY <1>2, <1>3, <1>4, GotoKeeps
<1> QED BY <1>1, <1>5, <1>6, <1>7 DEF st

LEMMA ProbeFacts ==
    ASSUME Shapes, Probe
    PROVE  /\ job.pc = "probe" /\ UNCHANGED <<kind, node, info, users, excused>>
           /\ \/ node.run[job.det.unit] # Down /\ Close("rolled-back")
              \/ Close("failed-both")
BY DEF Probe, Same

\* DetectVPN: the unit found, its kind and the file it was read from.
LEMMA DetectFacts ==
    LET d == DetectVPN
    IN  \/ d = NoVPN
        \/ /\ d.unit \in Unit /\ d.content = node.file[d.unit]
           /\ d.unit = "sb" => d.kind = "singbox"
           /\ d.unit = "old" => d.kind = kind
           /\ node.enabled[d.unit] => d.enabled
           /\ node.file[d.unit] # NoFile \/ node.run[d.unit] # Down \/ node.enabled[d.unit]
<1> DEFINE hits   == {u \in Unit : Foreign(u) /\ (node.run[u] # Down \/ node.enabled[u])}
           active == {u \in hits : node.run[u] # Down}
           confs  == {u \in Unit : Foreign(u) /\ node.file[u] # NoFile}
           pick   == IF active # {} THEN active ELSE IF hits # {} THEN hits ELSE confs
           unit   == First(pick)
           en     == unit \in hits /\ node.enabled[unit]
<1>1. DetectVPN = IF pick = {} THEN NoVPN
                  ELSE [unit |-> unit, kind |-> IF unit = "sb" THEN "singbox" ELSE kind,
                        enabled |-> en, content |-> node.file[unit]]
  BY DEF DetectVPN
<1>2. \A u \in pick : /\ u \in Unit /\ Foreign(u)
                      /\ node.file[u] # NoFile \/ node.run[u] # Down \/ node.enabled[u]
  OBVIOUS
<1>3. pick # {} => unit \in pick
  BY <1>2 DEF First, Unit
<1>4. pick # {} /\ node.enabled[unit] => en
  BY <1>2, <1>3
<1> HIDE DEF unit, en, pick
<1>5. CASE pick = {}
  BY <1>1, <1>5
<1>6. CASE pick # {}
  BY <1>1, <1>2, <1>3, <1>4, <1>6 DEF Unit
<1> QED BY <1>5, <1>6

\* Begin: either nothing was found, or an attempt starts on the unit found, and now
\* and boot are the clients that unit serves.
LEMMA BeginFacts ==
    ASSUME Shapes, Begin
    PROVE  /\ UNCHANGED <<kind, node, info, users, excused>> /\ job'.mem = job.mem
           /\ job'.had = users /\ ~job'.rollback /\ job'.undeleted = {}
           /\ \/ job'.pc = "idle" /\ job'.result \in {"", "error"}
              \/ /\ job'.pc = "convert" /\ job'.det.unit \in Unit
                 /\ job'.det.content = node.file[job'.det.unit]
                 /\ job'.det.unit = "sb" => job'.det.kind = "singbox"
                 /\ job'.det.unit = "old" => job'.det.kind = kind
                 /\ \/ node.file[job'.det.unit] # NoFile
                    \/ node.run[job'.det.unit] # Down \/ node.enabled[job'.det.unit]
                 /\ \A c \in job'.now :
                        node.run[job'.det.unit] # Down /\ c \in node.run[job'.det.unit]
                 /\ \A c \in job'.boot : /\ job'.det.enabled /\ job'.det.content # NoFile
                                         /\ c \in job'.det.content
<1> DEFINE d == DetectVPN
           old == {d.unit} \cap Unit
<1>1. UNCHANGED <<kind, node, info, users, excused>>
  BY DEF Begin
<1>2. /\ job'.now = Served(old) /\ job'.boot = BootServed(old)
      /\ job'.had = users /\ ~job'.rollback /\ job'.undeleted = {} /\ job'.mem = job.mem
      /\ \/ /\ job'.det = d /\ job'.result = ""
            /\ job'.pc = IF d = NoVPN THEN "idle" ELSE "convert"
         \/ job'.det = NoVPN /\ job'.result = "error" /\ job'.pc = "idle"
  <2>1. job'.mem = job.mem
    BY BeginKeeps DEF Kept, JobFields
  <2> QED BY <2>1, BeginKeeps
<1>3. \/ d = NoVPN
      \/ /\ d.unit \in Unit /\ d.content = node.file[d.unit]
         /\ d.unit = "sb" => d.kind = "singbox"
         /\ d.unit = "old" => d.kind = kind
         /\ node.enabled[d.unit] => d.enabled
         /\ node.file[d.unit] # NoFile \/ node.run[d.unit] # Down \/ node.enabled[d.unit]
  BY DetectFacts
<1> HIDE DEF d
<1>4. ASSUME NEW u \in Unit
      PROVE  /\ \A c \in Served({u}) : node.run[u] # Down /\ c \in node.run[u]
             /\ \A c \in BootServed({u}) : /\ node.enabled[u] /\ node.file[u] # NoFile
                                            /\ c \in node.file[u]
  BY DEF Served, BootServed
<1>5. d.unit \in Unit => old = {d.unit}
  OBVIOUS
<1>6. CASE job'.det = d /\ job'.result = "" /\ d # NoVPN
  <2>1. /\ job'.pc = "convert" /\ d.unit \in Unit /\ job'.now = Served({d.unit})
        /\ job'.boot = BootServed({d.unit})
    BY <1>2, <1>3, <1>5, <1>6
  <2>2. /\ \A c \in job'.now : node.run[d.unit] # Down /\ c \in node.run[d.unit]
        /\ \A c \in job'.boot : /\ node.enabled[d.unit] /\ node.file[d.unit] # NoFile
                                 /\ c \in node.file[d.unit]
    BY <1>4, <2>1
  <2> QED BY <1>1, <1>2, <1>3, <1>6, <2>1, <2>2
<1> QED BY <1>1, <1>2, <1>6

-----------------------------------------------------------------------------
(* Every step preserves the invariant *)

LEMMA InitFacts ==
    ASSUME Init
    PROVE  /\ Core /\ job.pc = "idle" /\ job.result = "" /\ Original
           /\ kind \in {"singbox", "xray", "awg"}
           /\ kind = "singbox" =>
                node.file["old"] = NoFile /\ node.run["old"] = Down /\ ~node.enabled["old"]
           /\ kind = "xray" => node.file["old"] = Client /\ node.run["old"] \in {Down, Client}
<1>1. /\ DOMAIN job = JobFields /\ job.mem = NewInfo /\ job.pc = "idle" /\ job.result = ""
      /\ info = NewInfo
  BY DEF Init, JobFields
<1>2. DOMAIN NewInfo = InfoFields
  BY DEF NewInfo, InfoFields
<1>3. PICK active, enabled \in BOOLEAN :
         node = [file    |-> [u \in Unit |-> IF u = Home THEN Client ELSE NoFile],
                 run     |-> [u \in Unit |-> IF u = Home /\ active THEN Client ELSE Down],
                 enabled |-> [u \in Unit |-> u = Home /\ enabled]]
  BY DEF Init
<1> DEFINE files == [u \in Unit |-> IF u = Home THEN Client ELSE NoFile]
           runs == [u \in Unit |-> IF u = Home /\ active THEN Client ELSE Down]
           ens == [u \in Unit |-> u = Home /\ enabled]
<1>4. node = [file |-> files, run |-> runs, enabled |-> ens]
  BY <1>3
<1>5. /\ DOMAIN files = Unit /\ DOMAIN runs = Unit /\ DOMAIN ens = Unit
      /\ files[Home] = Client /\ runs["old"] \in {Down, Client}
      /\ kind = "singbox" => files["old"] = NoFile /\ runs["old"] = Down /\ ~ens["old"]
      /\ kind = "xray" => files["old"] = Client
  BY DEF Unit, Home
<1> HIDE DEF files, runs, ens
<1>6. /\ DOMAIN node = {"file", "run", "enabled"} /\ node.file = files /\ node.run = runs
      /\ node.enabled = ens
  BY <1>4
<1>7. kind \in {"singbox", "xray", "awg"}
  BY TakeoverAssumption DEF Init
<1> QED BY <1>1, <1>2, <1>5, <1>6, <1>7 DEF Core, Shapes, UnitDetected, PCs, Original

LEMMA CoreStep == ASSUME Core, Next PROVE Core'
<1>0. Shapes /\ job.pc \in PCs /\ (job.pc # "idle" => job.det.unit \in Unit)
  BY DEF Core, UnitDetected
<1> DEFINE Goes == /\ DOMAIN job' = JobFields /\ job'.pc \in PCs
                   /\ job'.pc # "idle" => job'.det.unit \in Unit
\* The node and the NodeInfo as they were, or with their shapes.
<1>1. ASSUME Goes, UNCHANGED node \/ NodeShape,
             UNCHANGED info \/ DOMAIN info' = InfoFields, DOMAIN job'.mem = InfoFields
      PROVE  Core'
  BY <1>0, <1>1 DEF Core, UnitDetected, Shapes, NodeShape
<1>2. ASSUME NEW F, Kept(F), "mem" \notin F PROVE DOMAIN job'.mem = InfoFields
  BY <1>0, <1>2 DEF Shapes, Kept, JobFields
<1>3. ASSUME NEW F, Kept(F), "det" \notin F, "mem" \notin F, job.pc # "idle", job'.pc \in PCs
      PROVE  Goes /\ DOMAIN job'.mem = InfoFields
  BY <1>0, <1>2, <1>3 DEF Kept, JobFields
<1>4. ASSUME NEW F, Kept(F), "det" \notin F, job.pc # "idle", job'.pc \in PCs
      PROVE  Goes
  BY <1>0, <1>4 DEF Kept, JobFields
<1>5. ASSUME NEW r, Close(r), job.pc # "idle", UNCHANGED node \/ NodeShape,
             UNCHANGED info \/ DOMAIN info' = InfoFields
      PROVE  Core'
  <2>1. Kept({"pc", "mem"}) /\ job'.pc = "save" /\ DOMAIN job'.mem = InfoFields
    BY <1>0, <1>5, CloseKeeps
  <2>2. Goes
    BY <1>4, <1>5, <2>1 DEF PCs
  <2> QED BY <1>1, <1>5, <2>1, <2>2
<1> HIDE DEF Goes
<1>6. CASE Begin
  <2>1. DOMAIN job'.mem = InfoFields /\ UNCHANGED <<node, info>>
    BY <1>0, <1>6, BeginFacts DEF Shapes
  <2>3. Goes
    BY <1>0, <1>6, BeginKeeps, BeginFacts DEF Goes, Kept, PCs
  <2> QED BY <1>1, <2>1, <2>3
<1> USE DEF PCs
<1>7. CASE Prepare
  BY <1>0, <1>1, <1>3, <1>4, <1>7, PrepareFacts
<1>8. CASE Connect
  BY <1>0, <1>1, <1>3, <1>8, ConnectFacts
<1>9. CASE Backup
  BY <1>0, <1>1, <1>3, <1>4, <1>9, BackupFacts
<1>10. CASE Scaffold
  BY <1>0, <1>1, <1>3, <1>10, ScaffoldFacts DEF OldSame
<1>11. CASE StartUnit
  BY <1>0, <1>1, <1>3, <1>11, StartUnitFacts DEF OldSame
<1>12. CASE Import
  BY <1>0, <1>1, <1>3, <1>12, ImportFacts
<1>13. CASE Materialize
  BY <1>0, <1>1, <1>4, <1>13, MaterializeFacts
<1>14. CASE Disable
  <2>1. job.det.unit \in Unit
    BY <1>0, <1>14 DEF Disable
  <2> QED BY <1>0, <1>1, <1>3, <1>14, <2>1, DisableFacts
<1>15. CASE PushSucceeds
  BY <1>0, <1>1, <1>3, <1>15, PushSucceedsFacts
<1>16. CASE PushFails
  BY <1>0, <1>1, <1>3, <1>16, PushFailsFacts
<1>17. CASE DropUsers
  BY <1>0, <1>1, <1>4, <1>17, DropUsersFacts
<1>18. CASE Restore
  <2>1. job.det.unit \in Unit /\ job.pc = "restore"
    BY <1>0, <1>18 DEF Restore
  <2> QED BY <1>0, <1>1, <1>3, <1>5, <1>18, <2>1, RestoreFacts
<1>19. CASE Revive
  <2>1. job.det.unit \in Unit /\ job.pc = "revive"
    BY <1>0, <1>19 DEF Revive
  <2> QED BY <1>0, <1>1, <1>3, <1>5, <1>19, <2>1, ReviveFacts
<1>20. CASE Probe
  BY <1>0, <1>5, <1>20, ProbeFacts
<1>21. CASE Record
  BY <1>0, <1>5, <1>21, RecordFacts
<1>22. CASE SaveOutcome
  BY <1>0, <1>1, <1>3, <1>22, SaveOutcomeFacts DEF Shapes
<1>23. CASE Cancel
  <2>1. UNCHANGED <<node, info>> /\ job'.pc = job.pc /\ job.pc # "idle" /\ Kept({"cancelled"})
    BY <1>0, <1>23, CancelFacts DEF Kept, JobFields
  <2> QED BY <1>0, <1>1, <1>3, <2>1
<1>24. CASE Crash
  BY <1>0, <1>1, <1>3, <1>24, CrashFacts
<1> QED BY <1>6, <1>7, <1>8, <1>9, <1>10, <1>11, <1>12, <1>13, <1>14, <1>15, <1>16, <1>17,
           <1>18, <1>19, <1>20, <1>21, <1>22, <1>23, <1>24 DEF Next, Step

LEMMA UsersStep == ASSUME Core, UsersTracked, Next PROVE UsersTracked'
<1>1. Shapes /\ job.pc \in PCs /\ (job.pc # "idle" => job.det.unit \in Unit) /\ UsersTracked
  BY DEF Core, UnitDetected
<1> USE DEF UsersTracked, NoPhantomUsers, Ended, Closing, BeforePush
<1>2. CASE Begin
  BY <1>1, <1>2, BeginFacts DEF InfoFields
<1>3. CASE Prepare
  BY <1>1, <1>3, PrepareFacts, KeptFields DEF InfoFields
<1>4. CASE Connect
  BY <1>1, <1>4, ConnectFacts, KeptFields DEF InfoFields
<1>5. CASE Backup
  BY <1>1, <1>5, BackupFacts, KeptFields DEF InfoFields
<1>6. CASE Scaffold
  BY <1>1, <1>6, ScaffoldFacts, KeptFields DEF InfoFields
<1>7. CASE StartUnit
  BY <1>1, <1>7, StartUnitFacts, KeptFields DEF InfoFields
<1>8. CASE Import
  BY <1>1, <1>8, ImportFacts, KeptFields DEF InfoFields
<1>9. CASE Materialize
  BY <1>1, <1>9, MaterializeFacts, KeptFields DEF InfoFields
<1>10. CASE Disable
  BY <1>1, <1>10, DisableFacts, KeptFields DEF InfoFields, Disable
<1>11. CASE PushSucceeds
  BY <1>1, <1>11, PushSucceedsFacts, KeptFields DEF InfoFields
<1>12. CASE PushFails
  BY <1>1, <1>12, PushFailsFacts, KeptFields DEF InfoFields
<1>13. CASE DropUsers
  BY <1>1, <1>13, DropUsersFacts, KeptFields DEF InfoFields
<1>14. CASE Restore
  BY <1>1, <1>14, RestoreFacts, KeptFields, CloseKeeps DEF InfoFields, Restore
<1>15. CASE Revive
  BY <1>1, <1>15, ReviveFacts, KeptFields, CloseKeeps DEF InfoFields, Revive
<1>16. CASE Probe
  BY <1>1, <1>16, ProbeFacts, KeptFields, CloseKeeps DEF InfoFields
<1>17. CASE Record
  BY <1>1, <1>17, RecordFacts, KeptFields, CloseKeeps DEF InfoFields
<1>18. CASE SaveOutcome
  BY <1>1, <1>18, SaveOutcomeFacts, KeptFields DEF InfoFields
<1>19. CASE Cancel
  BY <1>1, <1>19, CancelFacts, KeptFields DEF InfoFields
<1>20. CASE Crash
  BY <1>1, <1>20, CrashFacts, KeptFields DEF InfoFields
<1> QED BY <1>2, <1>3, <1>4, <1>5, <1>6, <1>7, <1>8, <1>9, <1>10,
           <1>11, <1>12, <1>13, <1>14, <1>15, <1>16, <1>17, <1>18, <1>19, <1>20 DEF Next, Step

LEMMA DetectedStep == ASSUME IInv, Next PROVE Detected'
<1>1. Shapes /\ job.pc \in PCs /\ (job.pc # "idle" => job.det.unit \in Unit) /\ UsersTracked
      /\ Detected /\ BackupKnown /\ RollingBack /\ ConfigKept
  BY DEF Core, UnitDetected, IInv
<1> USE DEF Detected, Unit, PCs
<1>2. CASE Begin
  BY <1>1, <1>2, BeginFacts
<1>3. CASE Prepare
  BY <1>1, <1>3, PrepareFacts, KeptFields
<1>4. CASE Connect
  BY <1>1, <1>4, ConnectFacts, KeptFields
<1>5. CASE Backup
  BY <1>1, <1>5, BackupFacts, KeptFields
<1>6. CASE Scaffold
  BY <1>1, <1>6, ScaffoldFacts, KeptFields DEF OldSame
<1>7. CASE StartUnit
  BY <1>1, <1>7, StartUnitFacts, KeptFields DEF OldSame
<1>8. CASE Import
  BY <1>1, <1>8, ImportFacts, KeptFields
<1>9. CASE Materialize
  BY <1>1, <1>9, MaterializeFacts, KeptFields
<1>10. CASE Disable
  BY <1>1, <1>10, DisableFacts, KeptFields DEF Disable
<1>11. CASE PushSucceeds
  BY <1>1, <1>11, PushSucceedsFacts, KeptFields DEF Pushed
<1>12. CASE PushFails
  BY <1>1, <1>12, PushFailsFacts, KeptFields
<1>13. CASE DropUsers
  BY <1>1, <1>13, DropUsersFacts, KeptFields
<1>14. CASE Restore
  BY <1>1, <1>14, RestoreFacts, KeptFields, CloseKeeps DEF BackupKnown, Restore
<1>15. CASE Revive
  BY <1>1, <1>15, ReviveFacts, KeptFields, CloseKeeps DEF Starts, Revive
<1>16. CASE Probe
  BY <1>1, <1>16, ProbeFacts, KeptFields, CloseKeeps
<1>17. CASE Record
  BY <1>1, <1>17, RecordFacts, KeptFields, CloseKeeps
<1>18. CASE SaveOutcome
  BY <1>1, <1>18, SaveOutcomeFacts, KeptFields
<1>19. CASE Cancel
  BY <1>1, <1>19, CancelFacts, KeptFields
<1>20. CASE Crash
  BY <1>1, <1>20, CrashFacts, KeptFields
<1> QED BY <1>2, <1>3, <1>4, <1>5, <1>6, <1>7, <1>8, <1>9, <1>10,
           <1>11, <1>12, <1>13, <1>14, <1>15, <1>16, <1>17, <1>18, <1>19, <1>20 DEF Next, Step

LEMMA BackupStep == ASSUME IInv, Next PROVE BackupKnown'
<1>1. Shapes /\ job.pc \in PCs /\ (job.pc # "idle" => job.det.unit \in Unit) /\ UsersTracked
      /\ Detected /\ BackupKnown /\ RollingBack /\ ConfigKept
  BY DEF Core, UnitDetected, IInv
<1> USE DEF BackupKnown, PCs, InfoFields
<1>2. CASE Begin
  BY <1>1, <1>2, BeginFacts
<1>3. CASE Prepare
  BY <1>1, <1>3, PrepareFacts, KeptFields
<1>4. CASE Connect
  BY <1>1, <1>4, ConnectFacts, KeptFields
<1>5. CASE Backup
  BY <1>1, <1>5, BackupFacts, KeptFields
<1>6. CASE Scaffold
  BY <1>1, <1>6, ScaffoldFacts, KeptFields
<1>7. CASE StartUnit
  BY <1>1, <1>7, StartUnitFacts, KeptFields
<1>8. CASE Import
  BY <1>1, <1>8, ImportFacts, KeptFields
<1>9. CASE Materialize
  BY <1>1, <1>9, MaterializeFacts, KeptFields
<1>10. CASE Disable
  BY <1>1, <1>10, DisableFacts, KeptFields DEF Disable
<1>11. CASE PushSucceeds
  BY <1>1, <1>11, PushSucceedsFacts, KeptFields
<1>12. CASE PushFails
  BY <1>1, <1>12, PushFailsFacts, KeptFields
<1>13. CASE DropUsers
  BY <1>1, <1>13, DropUsersFacts, KeptFields
<1>14. CASE Restore
  BY <1>1, <1>14, RestoreFacts, KeptFields, CloseKeeps DEF Restore
<1>15. CASE Revive
  BY <1>1, <1>15, ReviveFacts, KeptFields, CloseKeeps DEF Revive
<1>16. CASE Probe
  BY <1>1, <1>16, ProbeFacts, KeptFields, CloseKeeps
<1>17. CASE Record
  BY <1>1, <1>17, RecordFacts, KeptFields, CloseKeeps
<1>18. CASE SaveOutcome
  BY <1>1, <1>18, SaveOutcomeFacts, KeptFields
<1>19. CASE Cancel
  BY <1>1, <1>19, CancelFacts, KeptFields
<1>20. CASE Crash
  BY <1>1, <1>20, CrashFacts, KeptFields
<1> QED BY <1>2, <1>3, <1>4, <1>5, <1>6, <1>7, <1>8, <1>9, <1>10,
           <1>11, <1>12, <1>13, <1>14, <1>15, <1>16, <1>17, <1>18, <1>19, <1>20 DEF Next, Step

LEMMA RollingBackStep == ASSUME IInv, Next PROVE RollingBack'
<1>1. Shapes /\ job.pc \in PCs /\ (job.pc # "idle" => job.det.unit \in Unit) /\ UsersTracked
      /\ Detected /\ BackupKnown /\ RollingBack /\ ConfigKept
  BY DEF Core, UnitDetected, IInv
<1> USE DEF RollingBack, RollbackRestores, Ended, Closing, BeforePush, PCs, InfoFields
<1>2. CASE Begin
  BY <1>1, <1>2, BeginFacts
<1>3. CASE Prepare
  BY <1>1, <1>3, PrepareFacts, KeptFields
<1>4. CASE Connect
  BY <1>1, <1>4, ConnectFacts, KeptFields
<1>5. CASE Backup
  BY <1>1, <1>5, BackupFacts, KeptFields
<1>6. CASE Scaffold
  BY <1>1, <1>6, ScaffoldFacts, KeptFields
<1>7. CASE StartUnit
  BY <1>1, <1>7, StartUnitFacts, KeptFields
<1>8. CASE Import
  BY <1>1, <1>8, ImportFacts, KeptFields
<1>9. CASE Materialize
  BY <1>1, <1>9, MaterializeFacts, KeptFields
<1>10. CASE Disable
  BY <1>1, <1>10, DisableFacts, KeptFields DEF Disable
<1>11. CASE PushSucceeds
  BY <1>1, <1>11, PushSucceedsFacts, KeptFields
<1>12. CASE PushFails
  BY <1>1, <1>12, PushFailsFacts, KeptFields
<1>13. CASE DropUsers
  BY <1>1, <1>13, DropUsersFacts, KeptFields
<1>14. CASE Restore
  BY <1>1, <1>14, RestoreFacts, KeptFields, CloseKeeps DEF BackupKnown, Restore
<1>15. CASE Revive
  BY <1>1, <1>15, ReviveFacts, KeptFields, CloseKeeps DEF Revive
<1>16. CASE Probe
  BY <1>1, <1>16, ProbeFacts, KeptFields, CloseKeeps
<1>17. CASE Record
  BY <1>1, <1>17, RecordFacts, KeptFields, CloseKeeps
<1>18. CASE SaveOutcome
  <2>1. /\ job.pc = "save" /\ UNCHANGED <<kind, node>> /\ job'.pc = "idle"
        /\ job'.result = job.mem.status /\ job'.mem = job.mem /\ job'.det = job.det
        /\ job'.now = job.now /\ job'.boot = job.boot /\ job'.rollback = job.rollback
    BY <1>1, <1>18, SaveOutcomeFacts, KeptFields
  <2>2. SUFFICES ASSUME job.mem.status = "rolled-back" PROVE RollbackRestores'
    BY <2>1
  <2> DEFINE u == job.det.unit
             up == node.run[u]
  <2>3. /\ u \in Unit /\ up # Down /\ (job.det.enabled => node.enabled[u])
        /\ job.mem.backup # NoFile => node.file[u] = job.det.content
    BY <1>1, <2>1, <2>2
  <2>4. job.det.kind = "xray" => u = "old" /\ kind = "xray"
    BY <1>1, <2>1 DEF Detected, Unit
  <2>5. job.det.kind = "xray" => job.now \subseteq up /\ node.file[u] = job.det.content
    BY <1>1, <2>1, <2>3, <2>4 DEF Detected
  <2>6. ASSUME node.file[u] = job.det.content
        PROVE  job.boot \subseteq BootServed({u})
    BY <1>1, <2>1, <2>3, <2>6 DEF Detected, BootServed
  <2>7. BootServed({u})' = BootServed({u})
    BY <2>1 DEF BootServed
  <2> QED BY <2>1, <2>3, <2>5, <2>6, <2>7
<1>19. CASE Cancel
  BY <1>1, <1>19, CancelFacts, KeptFields
<1>20. CASE Crash
  BY <1>1, <1>20, CrashFacts, KeptFields
<1> QED BY <1>2, <1>3, <1>4, <1>5, <1>6, <1>7, <1>8, <1>9, <1>10,
           <1>11, <1>12, <1>13, <1>14, <1>15, <1>16, <1>17, <1>18, <1>19, <1>20 DEF Next, Step

LEMMA ConfigStep == ASSUME IInv, Next PROVE ConfigKept'
<1>1. Shapes /\ job.pc \in PCs /\ (job.pc # "idle" => job.det.unit \in Unit) /\ UsersTracked
      /\ Detected /\ BackupKnown /\ RollingBack /\ ConfigKept
  BY DEF Core, UnitDetected, IInv
<1> USE DEF ConfigKept, OldConfigRecoverable, Original, Home, PastBackup, PCs, InfoFields, Unit
<1>2. CASE Begin
  BY <1>1, <1>2, BeginFacts DEF BackupKnown, Detected
<1>3. CASE Prepare
  BY <1>1, <1>3, PrepareFacts, KeptFields, TakeoverAssumption DEF BackupKnown, Detected
<1>4. CASE Connect
  BY <1>1, <1>4, ConnectFacts, KeptFields DEF BackupKnown, Detected
<1>5. CASE Backup
  BY <1>1, <1>5, BackupFacts, KeptFields DEF BackupKnown, Detected
<1>6. CASE Scaffold
  BY <1>1, <1>6, ScaffoldFacts, KeptFields DEF Detected, OldSame, BackupKnown
<1>7. CASE StartUnit
  BY <1>1, <1>7, StartUnitFacts, KeptFields DEF BackupKnown, Detected
<1>8. CASE Import
  BY <1>1, <1>8, ImportFacts, KeptFields DEF BackupKnown, Detected
<1>9. CASE Materialize
  BY <1>1, <1>9, MaterializeFacts, KeptFields DEF BackupKnown, Detected
<1>10. CASE Disable
  BY <1>1, <1>10, DisableFacts, KeptFields DEF BackupKnown, Detected, Disable
<1>11. CASE PushSucceeds
  BY <1>1, <1>11, PushSucceedsFacts, KeptFields DEF Pushed, Detected, BackupKnown
<1>12. CASE PushFails
  BY <1>1, <1>12, PushFailsFacts, KeptFields DEF BackupKnown, Detected
<1>13. CASE DropUsers
  BY <1>1, <1>13, DropUsersFacts, KeptFields DEF BackupKnown, Detected
<1>14. CASE Restore
  BY <1>1, <1>14, RestoreFacts, KeptFields, CloseKeeps DEF BackupKnown, Detected, Restore
<1>15. CASE Revive
  BY <1>1, <1>15, ReviveFacts, KeptFields, CloseKeeps DEF BackupKnown, Detected, Revive
<1>16. CASE Probe
  BY <1>1, <1>16, ProbeFacts, KeptFields, CloseKeeps DEF BackupKnown, Detected
<1>17. CASE Record
  BY <1>1, <1>17, RecordFacts, KeptFields, CloseKeeps DEF BackupKnown, Detected
<1>18. CASE SaveOutcome
  BY <1>1, <1>18, SaveOutcomeFacts, KeptFields DEF BackupKnown, Detected
<1>19. CASE Cancel
  BY <1>1, <1>19, CancelFacts, KeptFields DEF BackupKnown, Detected
<1>20. CASE Crash
  BY <1>1, <1>20, CrashFacts, KeptFields DEF BackupKnown, Detected
<1> QED BY <1>2, <1>3, <1>4, <1>5, <1>6, <1>7, <1>8, <1>9, <1>10,
           <1>11, <1>12, <1>13, <1>14, <1>15, <1>16, <1>17, <1>18, <1>19, <1>20 DEF Next, Step

-----------------------------------------------------------------------------
(* The theorems *)

LEMMA InitInv == Init => IInv
<1> SUFFICES ASSUME Init PROVE IInv
  OBVIOUS
<1>1. /\ Core /\ job.pc = "idle" /\ job.result = "" /\ Original
      /\ kind \in {"singbox", "xray", "awg"}
      /\ kind = "singbox" =>
           node.file["old"] = NoFile /\ node.run["old"] = Down /\ ~node.enabled["old"]
      /\ kind = "xray" => node.file["old"] = Client /\ node.run["old"] \in {Down, Client}
  BY InitFacts
<1>2. UsersTracked /\ BackupKnown /\ RollingBack
  BY <1>1 DEF UsersTracked, NoPhantomUsers, BackupKnown, RollingBack, RollbackRestores, Ended,
              Closing, BeforePush
<1>3. Detected /\ ConfigKept
  BY <1>1 DEF Detected, ConfigKept, OldConfigRecoverable, PastBackup
<1> QED BY <1>1, <1>2, <1>3 DEF IInv

LEMMA StepInv == IInv /\ [Next]_vars => IInv'
<1> SUFFICES ASSUME IInv, [Next]_vars PROVE IInv'
  OBVIOUS
<1>1. CASE Next
  BY <1>1, CoreStep, UsersStep, DetectedStep, BackupStep, RollingBackStep, ConfigStep DEF IInv
<1>2. CASE UNCHANGED vars
  BY <1>2 DEF vars, IInv, Core, Shapes, UnitDetected, UsersTracked, NoPhantomUsers, Detected,
         BackupKnown, RollingBack, RollbackRestores, ConfigKept, OldConfigRecoverable, Original,
         Home, Ended, Closing, BootServed
<1> QED BY <1>1, <1>2

LEMMA Inductive == Spec => []IInv
BY InitInv, StepInv, PTL DEF Spec

\* After an attempt that ends in a rollback, complete or not, the users in the store
\* are those it found and those DeleteSynthesizedAWGUsers failed to delete: every
\* failure before the push happens before MaterializeAWGPeersAsUsers has created one.
THEOREM NoPhantomUsersThm == Spec => []NoPhantomUsers
<1>1. IInv => NoPhantomUsers
  BY DEF IInv, UsersTracked
<1> QED BY <1>1, Inductive, PTL

\* Over any number of attempts, failures and crashes the config the server came with is
\* in its place or where the stored takeover state says, unless the cutover went on
\* without a stored backup or a later attempt replaced the record of one.
THEOREM OldConfigRecoverableThm == Spec => []OldConfigRecoverable
<1>1. IInv => OldConfigRecoverable
  BY DEF IInv, ConfigKept
<1> QED BY <1>1, Inductive, PTL

\* What "old VPN restored and active" means after a failed push: the unit is up, and
\* with a backup (for xray also without) its file and its enablement are what they
\* were, whatever the push and its own rollback left behind.
THEOREM RollbackRestoresThm == Spec => []RollbackRestores
<1>1. IInv => RollbackRestores
  BY DEF IInv, RollingBack
<1> QED BY <1>1, Inductive, PTL
=============================================================================
