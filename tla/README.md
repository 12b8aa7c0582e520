# A TLA+ verification of the Caiman installer

Caiman is the installer of OpenSolaris derivatives: an execution engine that
runs *checkpoints*; the applications that drive it (text installer, automated
installer, distribution constructor); the libraries the checkpoints work with
(data object cache, target, transfer, boot configuration, completion tasks);
the server side of the automated installer (`installadm`, its web server and
manifest database, its multicast DNS daemon); and what converts the releases
before it (`installadm-convert`, `js2ai`).

Paths below are relative to `src/usr/src`; a number in parentheses is a line of
the file under discussion. In every module a definition that differs from its
neighbour in one detail, and is used nowhere, is a plausible bug: put in the
neighbour's place it makes the property named in `PROJECT.json` fail, which
shows that the property depends on that code.

## The modules

| module | models | run |
|---|---|---|
| `InstallEngine` | `lib/install_engine/__init__.py` in one process: registration, execution in both modes, rollback, cleanup, cancel | `engine_callback`, `engine_carry_on`, `engine_forgets_failure` |
| `EngineContract`, `EngineRefinement` | what the engine promises an application, and the mapping by which `InstallEngine` implements it | `engine_callback` |
| `EngineResume` | the engine with a ZFS dataset: DOC files, snapshots, crashes, resumption by a later process | `resume_builds`, `resume_after_crash` |
| `DistroConstLock` | lock file and dataset set-up of `cmd/distro_const/__init__.py` | `resume_builds` |
| `TextInstall` | `cmd/text-install/ti_install.py`, composed with `InstallEngine` | `text_install`, `text_snapshot_fails` |
| `ManifestStore` | `cmd/ai-webserver`: database thread, commands on manifests, criteria and profiles, the choice for a client | `server_store` |
| `DhcpServer` | `cmd/installadm/dhcp.py`: the configuration file and its edits | `server_store`, `install_server` |
| `ServiceConversion` | `installadm-convert` | `server_store` |
| `JumpStart` | `cmd/js2ai/modules/conv.py`: a JumpStart profile becomes a manifest | `server_store` |
| `SysidConfig` | `cmd/js2ai/modules/conv_sysidcfg.py`, `__init__.py`: a sysidcfg file becomes a system configuration profile | `server_store` |
| `JumpRules` | `cmd/js2ai/modules/__init__.py`, `conv.py`: the rules, their criteria, and the directories of their profiles | `server_store` |
| `InstallServices` | `cmd/installadm`: services, aliases, clients, menus, mounts, with `DhcpServer` inside | `install_server` |
| `AimdnsDaemon` | the mDNS daemon, its signals and pid file, the SMF methods | `install_server` |
| `TargetSelection` | `cmd/auto-install/checkpoints/target_selection.py` | `targets` |
| `DiskLayout` | `lib/install_target/physical.py` and `shadow/physical.py`: one disk's partitions and slices | `targets` |
| `InstallScreens` | `lib/terminalui`, the screens of `text-install` and `system-config` | `targets` |
| `AIClient` | `cmd/auto-install`: both SMF services, discovery, derived manifests, the program | `install_client` |
| `Transfer` | `lib/install_transfer`: IPS, P5I, CPIO, SVR4 and the progress monitor | `install_client` |
| `PoolInstantiation` | `lib/install_target/instantiation.py`, `logical.py` | `install_client` |
| `BootMenu` | `lib/bootmgmt`, `lib/install_boot` | `install_client` |
| `CompletionTasks` | `lib/install_ict` | `install_client` |
| `DataTree` | `lib/install_doc/data_object` | `libraries` |
| `LinkedList`, `ListContract` | `lib/libspmicommon/common_linklist.c`, pointer by pointer, and what it promises | `libraries` |
| `ErrorService` | `lib/liberrsvc` and `liberrsvc_pymod` | `libraries` |
| `SchemaData` | `lib/install_manifest_input/process_dtd.py`: what a DTD says about the place and number of elements | `libraries` |
| `ManifestInput` | `lib/install_manifest_input/mim.py`, `cmd/aimanifest`: the evolving file of a derived manifest | `libraries` |
| `InstallEngineProofs`, `EngineContractProofs` | theorems about the engine and its contract | TLAPS |
| `DistroConstProofs` | theorems about `EngineResume`, `DistroConstLock` and `BootMenu` | TLAPS |
| `TextInstallProofs` | theorems about `TextInstall` | TLAPS |
| `ServerProofs` | theorems about `ManifestStore`, `AimdnsDaemon` and `DhcpServer` | TLAPS |
| `LibraryProofs` | theorems about `ErrorService` and `InstallScreens` | TLAPS |
| `ClientProofs` | theorems about `AIClient`, `CompletionTasks`, `PoolInstantiation` and `Transfer` | TLAPS |
| `DataLemmas` | lemmas on numbers, sequences and folds that several of them cite | TLAPS |

The `MC*` modules hold the finite instances. Five of them put several
components side by side: a variable (`subject`, `store`) says which of them is
looked at, the others keep one initial state, so that one run explores the sum
of their state spaces and not the product. Components that do interact are
composed instead: `TextInstall` conjoins its actions with those of
`InstallEngine`, `InstallServices` carries a DHCP server in its state.

## Inventory

Each entry: what it keeps, what is hard about it, what makes it correct.

- **Install engine.** Registered checkpoints with a completed flag and a DOC
  snapshot each, the checkpoint thread, the cancel event and a lock. Cancel
  against every step of the thread, failure of any step, long sequences of legal
  calls. Completed checkpoints are a prefix of the list; a run reports once and
  the truth; a cancel holds and returns.
- **Distribution constructor.** Dataset, DOC files and ZFS snapshots between
  processes, the lock file. Crashes between the writes that make up a snapshot,
  edited lists. A resumed build contains the finished work of exactly the
  checkpoints before the resume point; no lock stays behind.
- **Text installer.** Installation status, progress socket. Its user interface
  is the only reader of the socket and the thread that cancels. Success only for
  a complete installation, and every installation ends.
- **AI web server and manifest database, AI profiles.** Two tables, the files
  beside them, one request queue and one database thread. A caller stops waiting
  while its request stays. One manifest fits a client best; tables and files agree.
- **installadm services, clients, DHCP server, images and boot menus.**
  Configuration files, menus, mounts, images, boot files, the DHCP file. Commands
  of many stages, each of which may fail. What a client boots is what its
  service has, through renames and changes of base.
- **installadm conversion, js2ai.** A program that may stop between any two
  steps and be started over what it left; lines that contradict each other, statements
  that continue over lines, directories of an earlier conversion. What is reported
  as converted is complete, what is not stays usable or is reported.
- **Multicast DNS registration.** Processes, a pid file, signals. One daemon
  that advertises what is enabled.
- **Derived manifests.** One file between the commands of a script, each of which
  reads, changes and writes it; paths that have to name one place; elements that
  have to go where the DTD wants them. A command changes what it names and nothing
  else, and one that fails leaves the file alone.
- **AI client.** Files under `/system/volatile` between two
  services that are restarted, exit codes, stop and resume of the installer.
- **AI target selection, target library.** Manifest, discovered and desired
  targets; partitions and slices with the errors their validation leaves;
  pools and volumes made by commands that may fail. What is accepted can be
  installed, and what is to be kept is kept.
- **Transfer.** An image, temporary files, a monitor thread, a cancellation.
- **Boot configuration, install completion tasks.** A menu and its commit in
  steps; a fixed order of tasks that prepare one another.
- **Terminal user interface, system configuration.** The list of screens with
  its way back, the profile they fill in.
- **Data object cache.** A tree in which children and parent pointers have to
  agree, its snapshots and manifests.
- **Error service, linked lists.** References counted by hand over two
  languages; pointers.
- **Logging and progress.** Only the blocking `ProgressHandler.send()` matters here.
- **Target bindings, manifest parser and writer, C libraries, common helpers,
  live media.** See "Not modelled".

`PROJECT.json` names the hazards of each at the lines where they bite.

## The runs

| run | distinct states | instance |
|---|---|---|
| `engine_callback` | 3.5 million | 3 checkpoints, 3 runs, 2 cancels by one thread, callback, stop on error, snapshots may fail |
| `engine_carry_on` | 1.3 million | 3 checkpoints, 2 runs, 2 cancels, no stop on error; fair |
| `resume_builds` | 64 000 | 4 processes of 2 runs each with edited lists; 3 invocations of `distro_const` |
| `text_install` | 900 | 3 checkpoints, a quit at any time, 2 messages through a socket for 2, a display that may raise; fair |
| `server_store` | 1.8 million | see "Server stores" |
| `install_server` | 725 000 | up to 3 services and a client, once with boot arguments and once with a command that meets a fault; for mDNS one service and 3 processes, and 2 of each |
| `targets` | 1.9 million | see "Targets" |
| `libraries` | 27 000 | one list and three links; two errors; trees of four objects; scripts of two aimanifest commands |
| `install_client` | 61 000 | see "Client"; fair |
| `engine_forgets_failure`, `resume_after_crash`, `text_snapshot_fails` | | each expects its one property to be violated |


Deadlock is checked in the engine runs and in those of the text installer. In the
others commands, invocations and sessions end, and their cfg says so.

A property whose name ends in `Sound` (and `StoreAgrees`,
`StoppedCanResume`, `BootFilesCurrent`, `OlderReleaseConverted`) is a
conjunction of the named parts that are listed below; each part has its own
definition and comment in the module. Where a component has a history variable
(`clean`, `lost`, `flawed`, `edited`, `targets`, `results`) it is named as one in
the module and no action of the code reads it.

## The engine (`InstallEngine`)

One process without a dataset, as the text and automated installers use it.

| variable | code |
|---|---|
| `checkpoints`, `completed`, `files` | `_checkpoints`, `CheckpointData.completed`, what is readable at `data_cache_path` |
| `doc` | the records below `_engine_doc_root` |
| `thread`, `threadRun` | `checkpoint_thread`: none, a thread, or the `_PseudoThread` of the blocking mode |
| `pc`, `execList`, `pos`, `status`, `failed` | where `_execute_checkpoints()` is, and its locals |
| `executing`, `cancelEvent` | `__currently_executing`, `_cancel_event` |
| `cancelPc`, `joinRun` | where each canceller is in `cancel_checkpoints()`, the thread it joins |
| `run`, `results`, `cancels`, `targets` | history: calls, statuses reported, cancels requested while a run was on |

One action stands for a section of code no other thread can look into: the
section under `_checkpoint_lock` (`TakeNext`, `CancelCheckpoints`), loading the
list, a snapshot, `execute()` of one checkpoint, the `finally` clause, the
callback, the death of the thread. `join()`, reading `checkpoint_thread` and
clearing the event are separate steps of a canceller because the code does them
outside the lock.

`execute_checkpoints()` is one action in two alternatives, `Continue`, from the
first incomplete checkpoint, and `RollbackAndExecute`, and ends with
`checkpoint_thread` set (`pc = "created"`, line 547); `StartThread` is
`thread.start()` (548). Between the two a canceller finds a thread that was never
started: its `join()` raises, as it does on a pseudo thread, and `clear()` is
skipped (`cancelPc = "raised"`). Calls that raise before
they change anything are not actions. A rollback whose list is refused
afterwards stands, in the model as in the code. In the blocking mode an internal
error is raised instead of reported, and `checkpoint_thread` keeps the pseudo
thread. The model's application waits for the end of an execution before it
starts another, as all applications in the repository do; the engine itself does
not insist.

Properties:

- `CompletedPrefix`: order of execution, whatever is registered in the middle,
  failed, canceled, rolled back or cleaned up. (`OrderlyExecution`, the action
  property behind it, is proved and not run.)
- `DocRecordsCompleted`, `RollbackReady`: the DOC and the DOC snapshots agree
  with the completed flags.
- `EventCleared`, `CancelHoldsExecution`: the event is set only while a cancel is
  in progress or behind one whose `join()` raised; while one is in progress no
  checkpoint is started.
- `ReportTruthful`: status and failed list agree with the flags.
- `ThreadReports`, `CancelReturns`: every thread reports and every cancel returns.
- `ImplementsContract`: see below.

Three checkpoints are what it takes to have one completed, one executing and one
ahead, and to insert one between two others; three runs allow for a failed or
canceled one, a rollback and a continuation; the second cancel meets what the
first has left behind. Checkpoint names and cancelling threads are
interchangeable, so `engine_callback` uses symmetry; the liveness run does not.

*Fairness* (`FairSpec`). `WF(CheckpointThread)`: the `execute()` of a checkpoint
terminates and Python schedules the thread. `WF(CancelStep(c))`: a thread in
`cancel_checkpoints()` keeps going. Nobody is obliged to call anything.

### What the engine promises (`EngineContract`, `EngineRefinement`)

`EngineContract` is the engine as an application sees it: the checkpoints that
are completed, what the run in progress has left, whether one failed, who asked
for a cancel, and what was reported. It knows no threads, locks, events or
snapshots. `EngineRefinement` maps `InstallEngine` to it: flags, rest of the
list, failed checkpoints that are not completed, results. `ImplementsContract` is
checked with three names, and proved for every number of them.

The conditions, stop on error and callback mode, are needed. Working on the proof
showed why: a step of the proof for a rollback could not be closed without stop
on error, and the run `engine_forgets_failure` is that step. With `stop_on_error`
off a later checkpoint can be completed while an earlier one failed; an execution
that starts from the later one first rolls back to it, which marks everything
registered before it as completed (1196-1202), and only then are incomplete
checkpoints looked for. The docstring promises a `CheckpointOrderError`.

## Stop and resume (`EngineResume`)

The engine with a dataset, driven as `distro_const` does: a process registers
its list, runs the internal checkpoints (`Prelude`) before the dataset is set,
and then either rolls the build dataset back to `@empty` and executes, or resumes.
`live` is the dataset (DOC files by age, work done), `snaps` its snapshots by age,
the rest is the memory of the process and lost with it. Every part of a snapshot
is a step of its own (open and truncate the file, write it, destroy the old ZFS
snapshot, take the new one), since a process may die between any two. ZFS and the file
system are external and modelled from how `logical.py` and `cache.py` use them.

`Resumable` is `get_resumable_checkpoints()`: registrations that agree with those
in the newest DOC file, whose snapshots exist and were taken in list order, and the
first incomplete one. `SnapFor` and `RestoreBefore` are `_rollback()`.

- `ConsistentBuild`: whenever a run in which nothing failed takes its next
  checkpoint, dataset, DOC and flags all show the finished work of exactly the
  checkpoints before it, whatever crashed or older processes left.
- `StoppedCanResume`: as long as no process died inside a run, everything listed
  can be resumed from, and listing does not raise (`StoppedReadable`).

`resume_builds` has four processes, two execute calls each, lists of two or three
checkpoints that differ in arguments, in a checkpoint replaced and in one appended,
and stop on error on or off per process. Two processes make and use a snapshot; the
third and the fourth meet what a resumed one has left.

`resume_after_crash` expects `ResumableCanResume` to be violated: after a crash
between the DOC file and its ZFS snapshot `get_resumable_checkpoints()` lists a
checkpoint whose rollback is refused.

## Lock file (`DistroConstLock`)

Invocations on one dataset, each at its own place in `setup_build_dataset()`,
`Lockfile.__enter__()`, the build and `__exit__()`; any may be killed while it holds
the lock, the file may not be created, and its removal may fail. `LockSound` (3
invocations, one of them resuming, beside the builds of `resume_builds`) is two things.
`NoStaleLock`: only a kill or a failed removal leaves the file behind. `OneBuild`: as
long as no two invocations have met between `os.path.exists()` and `open()` (`raced`),
at most one is inside and the file is what keeps the others out. Two that do meet both
build; the property then says nothing until both have left.

## Text installer (`TextInstall`)

`TextInstall` extends `InstallEngine` and conjoins its actions with those of the
installer: the first checkpoint runs blocking, the rest with `exec_callback()`; the
user interface polls the socket, one message per turn, and on a confirmed quit calls
`cancel_checkpoints()` in its own thread. The checkpoints report progress, and so
does the engine itself while it loads them and after each (lines 857, 942).
`sendall()` blocks when `Capacity` messages are unread; the run has two, with up to
four messages, so the socket fills up. Reading or showing a message may raise
(`UiMayRaise`), and so may the cancel: `report_status()` logs it and returns, whatever
the engine is at (`uiPc = "blind"`). `Decide` is the end of `do_ti_install()` and `perform_ti_install()`: what
follows the run may fail, and does when nothing was put on the target.
`processingQuit`, `told` and the two steps of `exec_callback()` are there because
the user interface can look between them.

- `SuccessIsComplete`: success is declared only when every checkpoint completed.
- `ConcludedWhenIdle`: and never while one executes. Both properties except a
  conclusion drawn *early*: after an exception in `report_status()` and before the
  engine has told its result. There the code does declare success over an
  engine at work (see "Where the code does otherwise"); a conclusion after an exception
  that finds the result told is covered.
- `InstallConcludes`: every installation comes to an end, unless it reaches `Stuck`:
  the user interface has quit and joins the checkpoint thread, which waits in
  `sendall()` for the user interface to read. The run reaches that deadlock, and the
  property says that it is the only one. *Fairness*: both threads
  keep running; the user need not quit, checkpoints need not report.

`text_snapshot_fails`: a snapshot that cannot be written ends the run with
FATAL_INTERNAL, and `do_ti_install()` tests only for two other statuses (269): the
installation is declared successful.

## Server stores (`server_store`)

**Manifests and profiles** (`ManifestStore`). `db` is the two tables, `mfiles`
and `pfiles` the directories beside them, `cmd` the command that runs and `pend`
its request that the database thread has not run yet. `Put`, `DbRun`, `DbFails` and
`WaitTimesOut` are the request queue: a statement may fail (190-246) and a caller
stops waiting after 15 seconds (155) while its request stays. Either way the caller
reads None. create-profile and delete-profile act on that; create-manifest and
delete-manifest do not look at it, and place or remove the file all the same
(data_files.py 264-269, delete_manifest.py 107-120). `lost` names those manifests,
and the manifests and profile files whose request was not answered in time. One criterion with a list of values
and one with a range stand for their kinds, so that the SQL that chooses a
manifest (`Weight`, `Fits`) keeps its shape. Commands are create, delete (whole
or an instance), set criteria, of manifests and of profiles.

- `OneManifestEach`: no client fits two manifests of the same weight.
- `StoreAgrees`: the default can be sent; but for what `lost` names, tables and
  files name the same manifests and the same profiles, whatever failed or was late for others.

**DHCP configuration** (`DhcpServer`, here alone). `RangesDisjoint`: no address in
two ranges, though only last octets are compared. `EditsKeepOthers`: an edit for one
client leaves the stanzas of all others. A subnet of 8 addresses spans two
leading parts of 4 each, which is where comparing last octets could go wrong.

**Conversion** (`ServiceConversion`). `steps` is the rest of `main()`; `Stop` may
end the program between any two, and it can be started twice. `begun` records what
SMF, the directories and the clients were when it was started last, and the parts of
`ConversionSound` are asked at every start: `RangesExact` (what the addresses of
clients become), `ConvertedIsWhole` (a service that this run found and did not give
up is whole), `UnconvertedClientsKept` (the clients of one it gave up are as it found
them). `server.faulty` says at which services commands and moves may fail; a move that
fails may leave nothing, a part or everything moved. Seven old servers: three services that share an image, the
default among them, with one or another faulty, also as a dry run with and without
`/var/ai/service`; one with an image that cannot be copied and a service
named by its port; two with a service whose directory is gone. What a
second start does not mend is in the findings.

**js2ai** (`JumpStart`). A profile of up to three lines out of 28 is converted in
the three passes of `__process_profile`: `ScanLine` finds what says where the root
disk is, `ConvertPoolLine` handles the pool, `ConvertLine` the rest in order. `conv` is the
object with its settings, disks, pools and error report; a handler's checks keep
their order. Three lines: one that makes something, one that contradicts it, and one that
sets the stage (the architecture or the root disk). The parts of `ProfilesSound`:
`SlicesApart`, `SlicesInPools`, `OneRootPool`, `ArchSettled`, `UsedisksUnused`,
`CleanIsComplete` (what the profile asks for is in the manifest, or an error was
reported), `PackagesOneWay`.

**sysidcfg** (`SysidConfig`). `ReadLine` reads the lines with what continues them;
`ConvertStatement` converts the statements in their order, and `ConvertNetwork`
the interface that was chosen, last, since what it becomes depends on the name
service. Files of up to two lines out of 47 forms and of three out of half of them: a
statement, one that contradicts it or repeats it, and one that splits it over lines. The parts of
`SysidcfgSound`: `ReadAsItStands`, `ServicesOnce`, `NetworkConfigured`,
`FirstCounts`, `InterfaceConverted`, `NameServiceConverted`.

**Rules** (`JumpRules`). The rules are read, every profile they name is converted
in a directory of its own over what an earlier conversion left there, and the
criteria of each rule are written. Up to three lines out of 28. The parts of
`RulesSound`: `RulesReadAsTheyStand`, `DirectoriesRenewed`, `CriteriaWritten`.

`OlderReleaseConverted` joins these conversions.

Bounds: one manifest name beside the default, two values and two addresses (a
range inside another, overlapping and apart), two profiles and three of their
files, two clients and three stanzas of a DHCP file.

## Install server (`install_server`)

**Services** (`InstallServices`). One action is one `installadm` command; the
functions it calls are operators on a snapshot `S` of the state, which carry the
exception in flight, so that "the other stages continue" and "give up" are where the
code has them. A command meets at most one kind of fault, which makes every operation
of its kind fail. The parts of `ServicesSound`: `ServicesResolve` (every service
has an image of its own or an alias's base has), `ServerFollowsServices` (maintenance,
mounts and status agree after commands without a fault). Of `BootFilesCurrent`:
`MenusCurrent`, `BootArgsOwn`, `DefaultBootfileExists`. `ClientsAreOwned`: boot
files and DHCP entries of a client exist only while one service has it. Bounds: one
name the program picks, one the administrator gives, the default alias, one
client; failing unmounts and SMF transitions (a failing mount or boot-time mount
was run on its own and passes). The subject `services` has boot arguments and no
fault, `failures` has faults and no arguments: what is said of arguments is said of
servers without a fault, and the product of the two would be explored for nothing.
`daemons` and `adverts` are the daemon below.

**Multicast DNS** (`AimdnsDaemon`). A daemon stores its pid, registers, installs
its handler and waits; a signal before that kills it. The methods of
`svc-install-server` and `setup-service.sh` read the pid file to decide between a
signal and a new daemon. Commands and methods come at any time: registering sleeps
for five seconds and disabling not at all, so nothing is made of the wait. A daemon
may end with any error of registering, at its start or at a signal (`RegisterFails`,
its exit handler removes the pid file), or die where it stands (`Crash`, a signal before
the handler; the pid file stays). Three histories say what the code does not promise:
`crossed` (a daemon was started while another one was starting that had not stored its pid: both may
live, finding below), `ended` (how the last daemon ended, until a refresh or a start could have
known), `unseen` (services switched off that the daemon has not found off since). `OneDaemon`
says that this is the only way to two daemons, and that after a crash a start, after
an error also a refresh, brings one; `AdvertisesEnabled` that what the daemon of the pid file
advertises is what is enabled, at its port, but for `unseen` services. The subject `daemons` has one
service and three processes (the third finds the pid file of the second), `adverts` two
services and two processes; ports are two, so that a service can come back with another.
Process ids are not used again: that a stale pid file names a stranger is left out.

## Targets (`targets`)

**Selection** (`TargetSelection`). A manifest of up to two pools and two disks is
written line by line (`NamePool`, `NameDisk`) and then goes through the phases of
`select_targets()`: pools, disks, placement of swap and dump, validation. Whatever
raises is `refused`. The parts of `SelectionSound`: `SelTypeOK`, `RootInstallable`,
`EnoughDevices`, `KeptPoolsIntact`, `OthersSpared`. Three disks: one with a
slice of a pool and one of its own, the boot disk, which has two names and is named by either,
one with a slice of a second pool.

**Layout of a disk** (`DiskLayout`). Partitions and slices under three changes in
a row, with cylinders of 3 sectors on a disk of 25 so that every rounding happens. Parts of
`LayoutSound`: `UnflawedIsSound` (a caller that found no error after its changes
has no overlap), `GapsUsable`, `PreservedSurvives`; and the action property
`ResizeFinds`: what was resized, a logical partition included, is in the list under its
name, on the disk (a logical one in its extended partition) and clear of the others,
measured by starts and sizes and not by the code's own error flags.

**Screens** (`InstallScreens`). The lists of screens of `text-install` and
`sysconfig`, F2, F3 and F6 on each of them, what stands on a screen and what it
stores, the desired disk with its backups. Three keys that do not lead forward: back,
change something, help or back again. The date's fields keep the flags of the year and
of the month (`isValid`): a key that is refused leaves its flag down and the field as it was, and
with the flag of the month down every day up to 31 is taken. A date that does not exist
ends the session in `on_continue()` (`DateRaises`). One country of the instance is in two
regions. Parts of `SessionSound`: `VisitedInOrder`, `ProfileAccepted`, `ZoneKnown` (a zone of the
country, in a region of the country), `AcceptedDateExists` (a date that does not exist is
taken only while the flag of the month is down), `LayoutValidated`.

## Libraries (`libraries`)

**Linked lists** (`LinkedList`, `ListContract`). Every call, pointer by pointer,
and the contract: a list is a sequence with a current link. `ImplementsLists` is the
refinement. Callers add and destroy only links that are in no list (`Careful`).

**Error service** (`ErrorService`). `RefsExact`: the references of an object are those of the
error list, of the lists given out and of its creator.

**Data object cache** (`DataTree`). Insertion, deletion, snapshots, import and
export of manifests. Parts of `DataTreeSound`: `TreeSound`, `SearchExact` (against a
definition of depth-first search), `PathFinds`, `SnapshotRestores`,
`ManifestReadBack`. Three calls on four objects beside the cache's three: a parent, a
child with a sibling, and a grandchild.

**Derived manifests** (`ManifestInput`, `SchemaData`). One command of a script is
`Read`, the work of `set`, `add`, `get`, `load` or `validate`, and the
commit; the file is in the state between commands. `SchemaData` is the table that
`process_dtd.py` makes of a DTD and answers where an element goes and whether there
may be several. Parts of `ManifestInputSound`: `FailureKeepsFile`,
`CommitReadBack`, `SetChangesOne`, `AddAddsOne`, `StaysPlaced`, `OverlayKeeps`, and
`GivenBack`, which compares the table with the content models themselves: a child
taken out of any accepted children, up to four of them, goes back to where the DTD accepts it. Scripts
of two commands: one that makes the document and one that meets what it made.
`DocumentsSound` joins `DataTreeSound` and `ManifestInputSound`.

## Client (`install_client`)

**AI client** (`AIClient`). `manifest-locator` discovers services, asks each for
a manifest and profiles and puts them under `/system/volatile`;
`auto-installer` starts the program, which runs the derived manifest, selects and
instantiates targets, transfers and completes. Both may be started twice, in one boot
and so with the same boot arguments; the second search may find another service. The list of
services has one line, as the code writes no longer one: `ai_sd` stops at the first service it
finds (one asked for by name, else the default) and the fallback of `manifest-locator` is written
over it. Parts of
`ClientSound`: `NetworkOfClient` (the address without the bits past the prefix), `ExitTruthful`,
`RebootComplete`, `ProfilesOfOneAnswer`. `ClientConcludes`: a locator or an installer that has
begun comes to an end, or it stays for ever where others keep it: at the prompt, at a server that
does not answer, or at a checkpoint that does not end.

**Transfer** (`Transfer`). Estimate, execution item by item, monitor and
cancellation at any moment. Parts of `TransferSound`: `SuccessIsTransferred`,
`PublishersAsAsked`, `NothingLeftBehind`. `TransferEnds`: every execution ends, but
for the one below.

**Pools** (`PoolInstantiation`): the commands of `execute()` in their order, any of
which may fail, before or after its dataset was made (its mountpoint, `swap -a` and
`dumpadm` come after). Which swap or dump device is meant is a comparison of texts
(`LooksLike`), and systems of the instance have volumes whose names begin alike. Parts of `PoolsSound`: `KeptUntouched`, `DoneIsInstantiated`,
`DryRunHarmless`, `DevicesThere`.

**Boot menus** (`BootMenu`): up to three edits of a loaded configuration, or a
checkpoint, then the commit in steps, any of which may fail or be the last. Clients
with and without `set_bootfs_on_commit`; a disk with another boot environment that is active.
Parts of `BootSound`: `OneDefault`, `MenuWhole`, `CommittedIsWritten`, `InstalledStarts`.

**Completion** (`CompletionTasks`): the checkpoints of four kinds of installation
in the order in which they are registered. Parts of `CompletionSound`:
`ProfilesValid`, `ArchiveFresh`, `SnapshotComplete`.

*Fairness*. Of the client only what it does by itself (`WF(OnItsOwn)`): discovery, which has
a time limit, the manifest of the media, the program between its checkpoints, and the start and
end of the services. There is none for a person at the prompt (`get_manifest` asks "while true"),
for the server (the connection of `ai_get_http_file` and the methods have no time limit) or for
the work of a checkpoint (a script that derives a manifest may never end). Of a transfer, both
threads keep running (`WF(TransferStep)`, `WF(MonitorStep)`).

## Where the code does otherwise

Three disagreements between the code and its own text are runs of their own
(`engine_forgets_failure`, `resume_after_crash`, `text_snapshot_fails`). The rest
of what modelling brought up is listed here. "With X" names the change to a cfg or
MC module that shows it; a property in this list that is not in the table of runs is
defined in its module, commented, and can be put into the cfg.

*Engine.* `cancel_checkpoints()` is documented as "If no checkpoints are currently
running, this is a no-op" (1206). When it meets the pseudo thread of a blocking
execution, that of one that raised before (557), or a thread between lines 547 and 548,
`join()` raises and `clear()` is skipped (1217-1219), so that the execution at hand, or
the next one, ends with FATAL_INTERNAL or EXEC_CANCELED, and every later one until a
cancel returns. (`EventCleared` without its clause for such calls: quantify over
`cancelPc[c] \in {"idle", "raised"}`.) Registration and
cleanup are accepted during a blocking execution (1273). With two cancellers one
may clear the request of the other (1219, `CancelHoldsExecution`). A cancel before the
first checkpoint reads the name of `None` and reports FATAL_INTERNAL (815). Without
stop on error no snapshot is taken after a failure (823, `RollbackReady`). An empty list
calls no callback (531). A second execution is not refused while the first one's
thread lives (535).

*Resume, distribution constructor.* With a checkpoint removed from the middle of the
list, `_rollback()` finds the snapshot by name alone and goes on with the removed
checkpoint's work (`ConsistentBuild` with such a list). After a resume the
checkpoints before it have no `data_cache_path` (1149). A dataset is rolled back before the
lock is taken, on the strength of an earlier look at it (`BuildUndisturbed`). Two
invocations that meet inside `Lockfile.__enter__()` (99, 104) both build, although the
lock is there "to prevent multiple invocations of distro_const from running at the same
time" (86): `OneBuild` without `~raced`. A lock file that cannot be removed (114) ends in an
error and keeps every later invocation out.

*Text installer.* When the socket is full, a quit leaves the two threads waiting
for each other (logger.py 239; `InstallConcludes` without `Stuck`). The comment at
logger.py 240, "A small timeout in case the socket buffer is full", stands behind the
`sendall()` that blocks. An exception in `report_status()` (135) ends the loop while the
engine works; the status is the EXEC_SUCCESS of the constructor (104), and a
populated target is reported as a complete installation (`SuccessIsComplete` and
`ConcludedWhenIdle` without `uiPc # "early"`).

*Manifests and profiles.* The late INSERT of a create-profile that gave up leaves a
row without a file (create_profile.py 277, `SentProfilesExist`). `insert_SQL` ignores its
answer and the deletion of a manifest too (data_files.py 264-269, delete_manifest.py
107-120): when the statement fails the file is there without its row, or the row without its
file (`StoreAgrees` without `lost`). A client that asks between INSERT and the placement of the file gets a traceback
(cgi_get_manifest.py 320). `set-criteria -a` compares bounds as text and lets
manifests collide (publish_manifest.py 499; `OneManifestEach` with `Appends = TRUE`), as does
common_profile.py 307. A late or failing answer to the reading of a delete-manifest
removes the file of a manifest that is still there (delete_manifest.py 159).

*Services.* `server.is_online and not svc_cmd` tests the method, not its answer
(service.py 1490). A rename whose registration fails loses the clients
(rename_service.py 157; `RenameKeepsClients`). `update_basesvc` sets the alias before
an unmount that may fail (service.py 834-842). `remove_host` compares case
(dhcp.py 915, 956).

*Multicast DNS.* A refresh while a daemon starts (svc-install-server 215) starts a second one; one of them finds
the other running and removes the pid file of that
one on its way out (aimdnsd.py 114), so that a third is started beside it. After a daemon was killed
the stale pid file sends refreshes to nobody until the server is started again. A service that is
created again before the daemon found it gone keeps its old port until it is
switched off and found off (aimdns_mod.py 535); one that is disabled while a lookup does not find
it stays advertised (setup-service.sh 151). Addresses are compared by prefix (403).

*Conversion.* A dry run writes `isc_dhcp.conf` (1875, `DryRunHarmless`) and gives up services
when `/var/ai/service` is not there (1325-1329). The SMF group goes before anything is
converted, so that a service at which a run stopped or that it gave up afterwards is not
found by a second start, and nothing mends it: `ConvertedIsWhole` speaks of what a
run finds. A second start does not know the image copies of the first, since SMF is not
updated (1670-1696), and a service may share its image with one converted earlier. A move that is
repeated after a part was moved ends inside that part (`shutil.move`, 1350-1376); that
directory is excepted in `ConvertedIsWhole`. A client that was removed and could not be created is lost (1487-1514). A dictionary
changes while it is iterated (1969-1981). A network without clients is an
IndexError (215).

*js2ai.* `device.split("s")` (824) raises for a name that is a disk, so that
`partitioning default` with `fdisk c0t0d0 solaris all` ends the whole conversion
(`~conv.raised`). The loop over usedisk (2350) iterates the list that
`__add_device` takes from, so that every other disk is left out. A pool line that is
refused has given its name already (1703), and later lines put slices into a pool that is not
there. On SPARC slices are looked for below the disk's name, and none is found
to be there twice (842). Two unnamed mirrors of swap make two pools
"rpool_swap". A mirror whose second slice is refused is still a mirror. A package
that was added twice and then deleted is in both lists.

*sysidcfg.* The reader gives a bare `dhcp` the value None, and the converter
takes what is None for absent, so that DHCP is never seen; the tests give the converter
an empty text instead (test_conv_sysidcfg.py 264, 391). LDAP does not record that a name
service was converted, so that a second one is converted beside it, nor does
`timeserver` record itself. An interface without options ends the conversion of the
network early where there is a name service, and other interfaces go unreported. Half
an address ("10.0") passes the test for digits and then raises; so does
`protocol_ipv6` without a value. Text behind a closing brace is dropped, and a
file whose brace is never closed is converted all the same.

*Rules.* A profile whose name is part of an earlier one's is not converted and keeps its
old directory: the names converted so far are searched as a text (`__init__.py` 899). "No
rules found" cannot be said, since the index of rules starts at 1. A continued line
with a blank line below ends in an empty word, which takes the place of the finish script,
so that the finish script is taken for the profile. Criteria are written beside no manifest
when the profile is missing or refused.

*Target selection.* A disk with two names counts for two devices and twice its size
(878-881): a mirror of this one disk has enough devices, and one slice may stand for a root pool of
twice its size. `EnoughDevices` and `RootInstallable` except vdevs with such a disk, and
are violated without the exception. A root pool that is kept
(`use_existing`) is refused (1907-1918); so is "delete" of one (483-491).
`delete_children(new_fs)` removes nothing (562, 656); the map of swap volumes is asked
for an object (637, 652); options are counted over all pools (1262-1331).

*Disk layout.* A gap in front of a logical partition overlaps its boot record
(`BootRecordsApart`); a primary partition may reach past the disk, its size being
computed and never tested (`PrimariesOnDisk` with `Starts = {0, 7, 9}` and
`Sizes = {2, 6, 13, 18, 22}`). Deleting an extended partition leaves its logicals.
`resize()` deletes first, so that a ValueError loses the partition. Names used twice make
`_update_partition_table` loop forever (1437). Errors are cleared by the next insertion.

*Screens.* A country of two regions keeps the zones of the first (timezone.py
184): its zone may be of another region than the one chosen. A key that the month refuses
(date_time.py 431-445) marks the month invalid and is then dropped from the field (edit_field.py
236-240), which is not validated again; the days of the month are 31 from then on (350-352),
30 February is accepted and line 330 raises ValueError. Coming back to the disk screen throws
away a layout the user made (controller.py 290; `LayoutKept`). Date fields that are not
edited after another zone was chosen set the clock wrong (date_time.py 150). Deleting the
Solaris partition and going on is a ValueError (fdisk_partitions.py 153). F7 in slice
mode inserts None (disk_window.py 595). The network type can not be chosen
(network_type.py 191). Groups of network without identity, or date without
location, end in a traceback.

*Libraries.* `LLAddLink` accepts a link that is in a list (common_linklist.c 240,
`InUseRefused` with `Careful = FALSE`); a sort whose compare callback fails leaks its links.
Errors created from Python lose a reference when C frees them (errsvc.c 580-587; `RefsExact`
with `Makers = {"c", "python"}`). `delete()` of a data object misses every other child
(1072, `DeleteFrom`), and keeps its parent, which physical.py 296 relies on. Names with a
"." are not found by their path. A list to insert with one bad object leaves the earlier
ones in.

*Derived manifests.* An overlay on a root without children drops the DOCTYPE of the
file; with `AIM_DTD` set, commit() writes its line over the only one there is (mim.py 381-387),
and the file can no longer be read. A document that names another DTD is validated
against the one before. Comments before an element that is appended come out in reverse
order, those behind the last element of an overlay are lost. An element all of whose
followers are optional and absent goes to the end. `((arg|arglist)+)` is taken for a
choice of one. A commit on a full disk leaves a file that is cut.

*AI client.* Profiles of an earlier manifest are applied with a later one that has
none (`ProfilesOfThisManifest`). A checkpoint named by `-s` that comes after the target's
is reported as success and may reboot (624-655). A dry run can end with exit 64. A
first interface with IPv6 only is an exception of `ai_get_manifest`.

*Transfer.* After a cancel work goes on (ips.py 707-711, `CancelStops`). A dry run onto
a destination that is not there hangs in `startmonitor` (prog.py 100). The exit
status of cpio is not looked at (cpio.py 403). The caller's own file list is removed
(433-439). `ssl_key` and `ssl_cert` are refused after they became arguments (943-949); of
a p5i file only the last publisher's packages are taken (p5i.py 80-91). An item that
repeats an earlier one is left out (ips.py 994-995), whatever came between: of
install, uninstall and install of the same package only the first two are done. This
is why `TransferIsSound` has the hypothesis `NoneUndone`.

*Pools, boot, completion.* A volume that dumpadm holds is warned about and then not
created (logical.py 782-786). The test is whether its path is found in dumpadm's line, so that
with `rpool/dump2` in use `rpool/dump` is neither destroyed nor made anew, and execute() returns;
`DoneIsInstantiated` excepts it (`HeldByDump`). In the same way swap -d is called for a swap
device that only begins like the volume (765), and fails. File systems of a pool to be deleted are still created (337-348). A
configuration that found its instances itself lets two be the default (bootconfig.py
178-183, against the docstring of 669-671) when another boot environment is active: the menu
then starts the last of them. `OneDefault` and the menu's part of `InstalledStarts` say
`OthersInactive`, and a job of the run is the other case. A commit never clears `dirty`; changes of
boot variables alone are not written (386-390). A dry run of cleanup removes the saved
configuration (cleanup_cpio_install.py 201), one of an ISO image appends to `.image_info`.

## What is proved

For every value of the constants and every sequence of calls:

| theorem | assumed besides the constants' types | argument |
|---|---|---|
| `TypeCorrect` | | `TypeOK` is inductive; it says that names are distinct, that the thread belongs to an accepted run and that `pos` points at `executing` |
| `CanceledWasAskedHolds` | | `AskedInv`: an event met with `executing # None` was set during this run, since the run tested it before it took that checkpoint |
| `CancelHolds` | one canceller | `HoldInv`: the event is set until the call's own `clear()`, so `TakeNext` takes nothing |
| `EventClearedHolds` | | inductive with `TypeOK`: the step that ends a call clears the event, or the call has raised |
| `CompletedPrefixHolds`, `OrderlyExecutionHolds`, `DocRecordsCompletedHolds`, `RollbackReadyHolds` | stop on error, no blocking executions | `OrderInv` |
| `ReportTruthfulHolds` | no blocking executions | `ReportInv` |
| `EngineImplementsContract` | stop on error, no blocking executions | step simulation from `OrderInv`, `ReportInv`, `AskedInv`, `ReportOnce` and `ReportFits` |
| `ResumesAfterCompletedHolds` | the same | from `OrderInv`; `engine_forgets_failure` shows that stop on error is needed |
| `ConsistentBuildHolds`, `StoppedCanResumeHolds` | a name is at one position in all lists (`SamePositions`) | `IInv`, about what the snapshots hold |
| `LockSoundHolds` | | `LockInv`, from one lemma about leaving (`LeavingKeeps`) |
| `SuccessIsCompleteHolds`, `ConcludedWhenIdleHolds` | snapshots do not fail | `TextInv` follows both runs of the engine |
| `OneManifestEachHolds` | `Appends` FALSE | `StoreInv` |
| `StoreAgreesHolds` | | `AgreeInv` |
| `RangesDisjointHolds`, `EditsKeepOthersHolds` | | `DhcpInv` |
| `OneDaemonHolds`, `AdvertisesEnabledHolds` | | `AimdnsInv` |
| `RefsExactHolds` | errors are created through the C interface | `Held` |
| `SessionSoundHolds` | the clock shows a date that exists (`NowAssumption`) | `VisitInv`, `ProfInv`, `ZoneInv`, `TargetInv` |
| `ClientIsSound` | the bits of a network mask are its upper ones, made-up names are names (`AIClientAssumption`) | `ClientInv` |
| `CompletionIsSound` | a swap device or a profile is none of the other things put in place (`InstallsAssumption`) | `IctInv` |
| `PoolsAreSound` | the target and what is found fit together (`PoolsAssumption`) | `PoolInv` |
| `TransferCleansUp` | none but the types of the manifest's nodes and of images (`TransferAssumption`) | `TransferInv` |
| `TransferIsSound` | and no item of an IPS node is asked for again after one against it (`NoneUndone`) | `TransferInv` |
| `BootIsSound` | the jobs are of their types (`BootAssumption`) | `BootInv` |

**Engine.** `OrderInv` is needed because none of its four properties is inductive: what
`CheckpointReturns` appends to the DOC and marks completed is `execList[pos]`, and
nothing in the properties says where that is in the list. `RunAt(b)` does: the
run's list is the section of the registered list after position `b`, and exactly
the first `b + pos - 1` checkpoints are completed. Registration cannot disturb it
while a thread is on; rollback re-establishes it at its start position, from
`RollbackReady`, which is why the four are proved together.

`ReportInv` says of a run what it has to show so far (`RunSoFar`: nothing it passed
is lost, and what it noted as failed it has passed) and what it claims when the callback is due
(`Claim`). It holds with stop on error off as well, where failures are only remembered.

The refinement adds `ReportOnce` (a run has not reported before its callback) and
`ReportFits` (what it will report agrees with the rest of its list), and then has one
lemma per action of the engine that shows which action of the contract it is, or that the contract
does not see it.

**Resume.** A snapshot is good when it holds the DOC of its own checkpoint and the
finished work of exactly that DOC, and when that DOC is as long as the checkpoint's
position says (`GoodSnapshot`). The DOCs of the snapshots are beginnings of one another in the
order in which they were taken (`SnapshotsGood`), and beginnings of the newest DOC file
unless that is torn (`NewestGood`). A process that resumes has found its list to agree
with the newest DOC file, so it agrees with the snapshot it rolls back to
(`RunGood`). For `StoppedCanResume`, `NoneMissing` says that without a crash the snapshot
of every DOC file is there.

`SamePositions` came out of the attempt without it. Snapshots are found by name: with
the lists A, D, B and then A, B a process that resumes at B rolls back to the snapshot of
B, which holds D's work. Replacing a checkpoint by another, changing its
arguments and appending one, which the run does, keep positions; `EditedLists` satisfies
the hypothesis, `ShortenedLists` (in `MCEngineResume`) does not and TLC finds that build.

**Text installer.** `TextInv` says where the two runs of the engine are (the first
executes only the first checkpoint, which is not the one that populates the target), what
was registered and completed at each of these points, and what may be concluded
from the second run's status (`Verdict`). A conclusion after an exception of the display
is covered when the result was told before it, and excepted by the properties when not. It is proved over the actions of the engine as
composed, on top of `TypeOK`. That snapshots do not fail is
needed, as `text_snapshot_fails` shows.

**Server.** `StoreInv` says that rows of the table with different names are exclusive (no client
fits both with the same weight) and that the one request under way, if it adds criteria,
adds exclusive ones. `CollisionTest` is its core: what the two functions that look for
colliding criteria let through is exclusive. A request nobody waits for any more is
covered, since no command starts before it was executed.

`AgreeInv` says by what tables and files may differ while a command is at each of
its steps: in its own name or file (`NameHalfway`, `FileHalfway`), and in what `lost`
names; between commands the first is nothing. A request that was given up and is executed later
is about something in `lost` or changes nothing (`Late`, `LateRequest`).

`RangesDisjoint` compares last octets, the property compares addresses. Two ranges of
one stanza differ in the octets, since the code refuses overlaps there; two of different stanzas
are in different subnets, since a range lies in the subnet of its stanza and there is one
stanza per subnet (`FileSound`). `EditsKeepOthers` needs that there is one stanza per client,
too.

`AimdnsInv` has `Daemons` (unless starts crossed: one at most, named by the pid file once it stored its
pid; one that ended with an error left no pid file, so that the next refresh starts
another) and `Advertised` (records are out of date only for services in `unseen`, and
what is missing a signal will bring). Neither
property is inductive: without the part of `Advertised` that every record is of
a service the daemon remembers, a refresh could leave a record behind.

**Error service.** `Held` counts references: those of the list of errors, of each of the
lists given out, and of the creator, whose reference every error in the list still
has. With errors from Python it fails, since `es_free_errors()` drops a reference that
those never had. The model keeps lists as sets, as an error is in a list once.

**Screens.** The screens have ranks, which every list of them keeps (`ListSorted`), so the
next screen leaves none of the list out (`NextScreen`). `VisitInv` keeps the visited
screens below the screen that is shown, in the order of the ranks. A screen is past when it is
before the one the session is at (or from which help was asked); only a step ahead
makes a screen past, and it is the one that is left (`PastMoves`). The other invariants
say what holds of the screens that are past, which is what F2 accepted: F3 and F6 store what
was not checked, but then the screen is not past. `ProfInv` is about the host name
and the date, `ZoneInv` about the zone and the lists it was chosen from, `TargetInv` about the
layout, up to where the last editor of the machine validates it. None of the parts of
`SessionSound` is inductive: that a date is accepted at the summary does not say that
coming back to the date takes it away.

The list of a country's zones is kept as long as the country is chosen again, so all that
`ZoneInv` can say of it is that it is the country's list in one of its regions. About the date,
`ProfInv` says that with the flag of the month up the fields show a date that exists. That the
clock shows one (`NowAssumption`) is assumed: the fields start with it.

**AI client.** Of the four parts of `ClientSound` only `ProfilesOfOneAnswer` is inductive.
`ClientInv` adds what the program knows between its two executions of the engine
(`AIInv`): while it is executing (`Executing`), what is done and what is to do
are together what `configure_checkpoints()` registered, and the target is mounted once it was
instantiated, unless in a dry run; a program that ended with 0 or 64 can show for it
(`Truthful`), and one that was started by the service and asks for a reboot (64) is
`Complete`. The reboot is the service's, after the program has ended, so
`RebootComplete` follows from the last part. `OneImage` is the lemma behind the image: the
first IPS transfer creates one and the others are told to use it.
`NetworkNamed` is about the bits: a mask is all bits above its lowest one, so the
length of the prefix determines it.

**Completion.** `IctInv` gives the checkpoints executed so far a position in the order of
registration (`Reached`); what each of them was to do is done (`Completed`), and
no later one undoes it (`CompletedStays`). `Order` says what the proof needs of the four
orders: the snapshot is last, after the archive only logs are transferred, nothing
comes before the cleanup. The saved configuration is followed command by command
(`CleanupOrder`), as the property is about every prefix of the commands: any of them may raise. What
the commands of a checkpoint do together is a fold over them, about which the next
paragraph says how it is proved; the effects are then monotone (`StageKeeps`, `StageLacks`).

**Pools.** `PoolInv` says of the list of work that its items stand in the order of their ranks
(`InRanks`: swap volumes are released first, then the rest of what goes, what is made
comes last), and that each stands for something of the target (`Rightful`). From the
order follows that nothing was made as long as something is to be destroyed
(`EarlyShape`), and that swap is gone when its pool is destroyed (`SwapGone`).
What is done holds (`Held`), and no later command undoes it (`DoneHeld`): a destruction
would have to come after it. What is new lies above something the target asks for
(`MadeAbove`, since a dataset is made with its parents), and a swap volume that was
made is in use (`SwapNew`). `PoolsAssumption` says that the names in a
target's shadow list are distinct, that ZFS puts nothing beneath a volume and that what is
found lies in a pool that is there and is not the installer's own.

**Transfer.** `Standing(items, k)` is what the first k operations of a list leave
transferred, of what they are about (`Touched`): those whose last operation on it did
not take it away. `TransferInv` says that the destination has exactly that after the
operations the loop has gone by (`DoneSoFar`), and that the list the loop goes through
stands for the node (`ListFits`). The latter is needed since the list is not the node: the
items of an IPS node are noted once, again when `get_size()` parsed the node before, and
those of SVR4 are not read twice (`NotedAll`, `NotedAgain`, `SVR4Parsed`). `Repeated` shows that an
operation that is left out would have done nothing, which is where `NoneUndone` is
used. The publishers of the image are those of the node that were added up to now
(`AddedRight`), and the temporary files are of the kind that the cleanup of
this kind of transfer removes (`FilesOf`).

**Boot configurations.** `BootInv` gives every job its place in its script (`StepShape`: of the
`Total` steps `Gone` are behind, and the k-th is `Stage(k)`), and says by that number what there
is so far: what kind of list the instances are (`Configured`), the menu that was there before step
`MenuAt` and the whole of the new one from it on, one step earlier in its temporary
place (`Menus`), one loader for each device gone by (`Loaders`), and `bootfs` at the
end (`Bootfs`). A client's list knows its instances (`EditLists`), so that making one the default
clears the other; a checkpoint's list does not, and has one default only as long as what it found
had none besides the target, which is `OthersInactive`. Once the entry of what was
installed is the default, a manifest's entry may replace it but starts the same file system
(`InstalledLists`). The other parts of `BootSound` do not need it, and the theorem has no hypothesis. `BootAssumption` says besides the types that
two boot environments are two file systems, and that only a checkpoint makes a dry run.

**Inductions.** `DataLemmas` proves the induction that these arguments need from least
elements: a set of natural numbers that is not empty has a least one, which follows from the
finiteness of the intervals. A fold is recursive in the library's definition. `FoldGraph`
shows that there is a function of all its stages (with the least length for which
there were none), and `FoldApply` that the fold of `CompletionTasks` is its last stage. `FlattenStages` does
the same for flattened lists, the work of the pools and the entries of a menu that stay, and `RangeOfAll` says what is in them.

**Only model-checked.** Liveness (`ThreadReports`, `CancelReturns`, `InstallConcludes`,
`ClientConcludes`, `TransferEnds`), since liveness under fairness and ENABLED are out of the
prover's reach. What recursive definitions compute for every input (`DataTree`,
`SchemaData`, `ManifestInput`), which needs induction over an operator. What is computed by filters,
flattened sequences and nested folds over data (`InstallServices`, `DiskLayout`, `TargetSelection`, `SysidConfig`, `JumpRules`, `JumpStart`,
`ServiceConversion`): the way `CompletionTasks`, `PoolInstantiation`, `Transfer` and `BootMenu` were
proved about would have to be gone for each operator. The refinement of the linked lists, whose mapping
folds along the pointers.

## Not modelled

- **Target bindings, C libraries, common helpers**: declarations of system
  libraries and wrappers around them; what they do to the system is external.
- **Manifest parser and writer**: validation against a DTD and XSLT. That a
  manifest is read back is checked for the object tree (`ManifestReadBack`).
- **Live media**: SMF methods and desktop files.
- **Target library**: discovery, and the XML form of the objects; their content is
  the instance (`DiscDisks`, `Layouts`).
- **Logging**: all but the socket of `ProgressHandler`.
- **Distribution constructor**: its checkpoints run external tools in a straight line.
- **System configuration**: users, name services, unconfiguration; the text of the SMF profile.
- **js2ai**: the lines of a profile are taken as split into words; validation of the
  result against the DTD and the reports on the terminal are left out.
- **Derived manifests**: the syntax of paths and of DTDs; attributes' types.
- **Web server**: parsing of requests and the listing pages. Service browsing, which only reads.

## Plan

What would be next, in this order: a proof of `ServicesResolve`, for which `InstallServices` would have to give its
commands' snapshots a type of their own; the linked list's refinement, by a mapping
that does not fold; target discovery, whose result is an input today.
