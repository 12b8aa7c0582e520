-------------------------- MODULE CompletionTasks --------------------------
(***************************************************************************)
(* The checkpoints of lib/install_ict, which turn what was transferred     *)
(* into a system that starts: one action for each, in the order in which   *)
(* the automated and the text installer register them.                     *)
(*                                                                         *)
(* A checkpoint is a sequence of commands and file operations; any of them *)
(* may raise, and then what was done before it stays and the engine stops. *)
(* The target is the set of what is in place on it.                        *)
(***************************************************************************)
EXTENDS Naturals, Sequences, SequencesExt, FiniteSets

CONSTANTS
    Installs,   \* installations: who installs, and what there is to complete
    None

VARIABLES
    install,
    todo,       \* checkpoints not executed yet
    target,     \* what is in place on the target
    archive,    \* what was in place when the boot archive was made
    snapshot,   \* what was in place when the snapshot was taken
    failed
ictVars == <<install, todo, target, archive, snapshot, failed>>

(* What comes with the transfer, and the changes a checkpoint makes.       *)
SentMedia == {"media_files", "media_packages", "work_files", "repository"}
Marks == SentMedia \cup {"save", "saved_config", "mnttab", "uuid", "profile_links", "dumpadm",
                        "devices", "profile_dir", "archive", "snapshot"}
(* Swap devices and profiles are no other things of the target.            *)
ASSUME InstallsAssumption ==
    \A i \in Installs :
        /\ i.by \in {"ai", "zone", "text"}
        /\ i.swap \in Seq(STRING \ Marks) /\ i.profiles \in Seq(STRING \ Marks)

Puts(x) == [puts |-> {x}, takes |-> {}]
Takes(x) == [puts |-> {}, takes |-> {x}]
Failing == [puts |-> {}, takes |-> None]
Apply(s, e) == (s \ e.takes) \cup e.puts
PutsEach(seq) == [k \in DOMAIN seq |-> Puts(seq[k])]

-----------------------------------------------------------------------------
(* The effects of each execute(); a dry run has none, with one exception.  *)

(* The configuration saved by the transfer goes back to its place before   *)
(* its copy is removed.  "packages" are those that are there and for whose *)
(* removal pkg makes a plan; without a plan the checkpoint carries on.     *)
CleanupSaveFirst(i) ==
    IF i.dry THEN IF i.save THEN <<Takes("save")>> ELSE <<>>
    ELSE <<Puts("mnttab"), Takes("work_files")>>
         \o (IF i.save THEN <<Takes("save"), Puts("saved_config")>> ELSE <<>>)
         \o (IF i.packages THEN <<Takes("media_packages")>> ELSE <<>>)
         \o <<Puts("uuid"), Takes("media_files")>>
CleanupCPIOInstall(i) ==
    IF i.dry THEN IF i.save THEN <<Takes("save")>> ELSE <<>>
    ELSE <<Puts("mnttab"), Takes("work_files")>>
         \o (IF i.save THEN <<Puts("saved_config"), Takes("save")>> ELSE <<>>)
         \o (IF i.packages THEN <<Takes("media_packages")>> ELSE <<>>)
         \o <<Puts("uuid"), Takes("media_files")>>
(* The repository goes, so that the first start imports it anew.           *)
InitializeSMF(i) ==
    IF i.dry THEN <<>>
    ELSE <<Puts("profile_links"), Takes("repository")>>
(* Without a dump device there is no file to copy.                         *)
UpdateDumpAdm(i) == IF i.dry \/ ~i.dump THEN <<>> ELSE <<Puts("dumpadm")>>
(* A line for each swap slice or volume of the target.                     *)
SetupSwap(i) ==
    IF i.dry THEN <<>> ELSE PutsEach(i.swap)
DeviceConfig(i) == IF i.dry THEN <<>> ELSE <<Puts("devices")>>
(* Each profile is validated before it is copied; an invalid one raises,   *)
(* a profile or directory that is not there is no error.                   *)
Profile(p, i) == IF p \in i.invalid THEN Failing ELSE Puts(p)
ApplyUnchecked(i) ==
    IF i.dry \/ i.profiles = <<>> THEN <<>>
    ELSE <<Puts("profile_dir")>> \o PutsEach(i.profiles)
ApplySysConfig(i) ==
    IF i.dry \/ i.profiles = <<>> THEN <<>>
    ELSE <<Puts("profile_dir")>> \o [k \in DOMAIN i.profiles |-> Profile(i.profiles[k], i)]
(* A file that is not there is skipped.                                    *)
TransferFiles(i, files) ==
    IF i.dry THEN <<>>
    ELSE PutsEach(SetToSeq(files \ i.missing))
ZpoolCacheFiles(i) == {"zpool.cache"} \cup IF i.x86 THEN {"hostid"} ELSE {}
LogFiles(i) ==
    CASE i.by = "text" -> {"messages"}
      [] i.by = "zone" -> {"manifest"}
      [] OTHER -> {"manifest", "messages", "service_logs"}

-----------------------------------------------------------------------------
(* The order of registration; boot-configuration is in BootMenu.           *)
AutoLate(i) ==
    <<"initialize-smf", "update-dump-adm", "setup-swap", "device-config",
      "apply-sysconfig", "boot-archive", "transfer-zpool-cache", "transfer-files",
      "create-snapshot">>
AutoCheckpoints(i) ==
    IF i.by = "zone"
    THEN <<"initialize-smf", "setup-swap", "apply-sysconfig", "transfer-files", "create-snapshot">>
    ELSE <<"initialize-smf", "update-dump-adm", "setup-swap", "device-config",
           "apply-sysconfig", "transfer-zpool-cache", "boot-archive", "transfer-files",
           "create-snapshot">>
TextCheckpoints ==
    <<"cleanup", "initialize-smf", "update-dump-adm", "device-config", "apply-sysconfig",
      "boot-archive", "transfer-files", "create-snapshot">>
Checkpoints(i) == IF i.by = "text" THEN TextCheckpoints ELSE AutoCheckpoints(i)

(* All the effects, or those before the operation that raises.             *)
Executes(name, effects) ==
    /\ todo # <<>> /\ Head(todo) = name /\ ~failed
    /\ \E n \in 0 .. Len(effects) :
          /\ \A k \in 1 .. n : effects[k] # Failing
          /\ target' = FoldLeft(Apply, target, SubSeq(effects, 1, n))
          /\ failed' = (n < Len(effects))
    /\ todo' = IF failed' THEN <<>> ELSE Tail(todo)
    /\ UNCHANGED install
Task(name, effects) == Executes(name, effects) /\ UNCHANGED <<archive, snapshot>>

Cleanup == Task("cleanup", CleanupCPIOInstall(install))
Smf == Task("initialize-smf", InitializeSMF(install))
Dump == Task("update-dump-adm", UpdateDumpAdm(install))
Swap == Task("setup-swap", SetupSwap(install))
Devices == Task("device-config", DeviceConfig(install))
SysConfigTask == Task("apply-sysconfig", ApplySysConfig(install))
ZpoolCache == Task("transfer-zpool-cache", TransferFiles(install, ZpoolCacheFiles(install)))
Logs == Task("transfer-files", TransferFiles(install, LogFiles(install)))
(* bootadm and the snapshot take what is there.                            *)
BootArchive ==
    /\ Executes("boot-archive", IF install.dry THEN <<>> ELSE <<Puts("archive")>>)
    /\ archive' = IF failed' \/ install.dry THEN archive ELSE target
    /\ UNCHANGED snapshot
CreateSnapshot ==
    /\ Executes("create-snapshot", IF install.dry THEN <<>> ELSE <<Puts("snapshot")>>)
    /\ snapshot' = IF failed' \/ install.dry THEN snapshot ELSE target
    /\ UNCHANGED archive

Transferred(i) == SentMedia \cup (IF i.save THEN {"save"} ELSE {})
IctInit ==
    /\ install \in Installs
    /\ todo = Checkpoints(install)
    /\ target = Transferred(install)
    /\ archive = None /\ snapshot = None /\ failed = FALSE
IctNext == Cleanup \/ Smf \/ Dump \/ Swap \/ Devices \/ SysConfigTask \/ ZpoolCache \/ Logs
              \/ BootArchive \/ CreateSnapshot
IctSpec == IctInit /\ [][IctNext]_ictVars

-----------------------------------------------------------------------------
(* Properties                                                              *)

(* Nothing reaches the target that svccfg did not accept: with a profile   *)
(* that is invalid the installation fails before the snapshot.             *)
ProfilesValid ==
    snapshot # None =>
        Range(install.profiles) \subseteq snapshot \ install.invalid

(* auto_install.py, on zpool.cache and hostid: "This transfer must happen  *)
(* before the boot archive is updated".  What the archive was made of is   *)
(* not changed after it, but for logs.                                     *)
ArchiveFresh ==
    archive # None => target \ archive \subseteq LogFiles(install) \cup {"archive", "snapshot"}

(* The initial snapshot has what the checkpoints were to put in place, and *)
(* of the media nothing is left; it has the saved configuration, which at  *)
(* no time is in neither place.                                            *)
SnapshotComplete ==
    /\ snapshot # None =>
          /\ "profile_links" \in snapshot /\ "repository" \notin snapshot
          /\ install.by # "zone" => "archive" \in snapshot /\ archive \subseteq snapshot
          /\ install.by # "zone" /\ install.dump => "dumpadm" \in snapshot
          /\ install.by # "text" =>
                Range(install.swap) \subseteq snapshot
          /\ install.by = "text" => snapshot \cap {"media_files", "work_files", "save"} = {}
    /\ install.save /\ ~install.dry /\ install.by = "text" => target \cap {"save", "saved_config"} # {}

(* The target at each stage of its completion, with any checkpoint failing.*)
CompletionSound == ProfilesValid /\ ArchiveFresh /\ SnapshotComplete
=============================================================================
