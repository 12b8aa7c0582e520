------------------------------ MODULE EngineResume ------------------------------
(***************************************************************************)
(* Stop and resume: the engine (install_engine/__init__.py) with a ZFS     *)
(* dataset, as distro_const drives it.  Before and after every checkpoint  *)
(* the engine writes the DOC into a file of the dataset and takes a ZFS    *)
(* snapshot of it; a later process, whose list of checkpoints may differ,  *)
(* asks which checkpoints it may resume from, rolls the dataset back to    *)
(* one of them and goes on.                                                *)
(*                                                                         *)
(* What a checkpoint does to the dataset is the record of its own          *)
(* registration in "work", marked partial until execute() returns.         *)
(*                                                                         *)
(* ZFS (external): a snapshot saves the files and the work, rollback -r    *)
(* restores both and destroys the snapshots taken later.                   *)
(***************************************************************************)
EXTENDS Naturals, Sequences, SequencesExt, FiniteSets

CONSTANTS
    Lists,        \* lists of registrations a process may come with
    Prelude,      \* how many leading ones run before the dataset is set
    Torn,         \* content of a DOC file that was truncated and not rewritten
    None,         \* the checkpoint of the @empty snapshot: no checkpoint's name
    StopOnError,  \* values of stop_on_error that manifests ask for
    MaxProcesses, \* bound on the processes
    MaxRuns       \* bound on the execute calls of one process

\* A registration (CheckpointRegistrationData) is a name and its arguments.
Registration(name, args) == [name |-> name, args |-> args]

Registrations == UNION {Range(l) : l \in Lists}

ASSUME ResumeAssumption ==
    /\ StopOnError \subseteq BOOLEAN
    /\ MaxProcesses \in Nat /\ MaxRuns \in Nat /\ Prelude \in Nat \ {0}
    /\ \A l \in Lists :
        /\ l \in Seq(Registrations)
        /\ \A n \in 0 .. Len(l) : SubSeq(l, 1, n) # Torn
        /\ \A i, j \in DOMAIN l : l[i].name = l[j].name => i = j
        /\ Len(l) > Prelude
        /\ \A m \in Lists : SubSeq(l, 1, Prelude) = SubSeq(m, 1, Prelude)

VARIABLES
    live,       \* the dataset: its DOC files, the newest one's name, its work
    snaps,      \* its snapshots in creation order
    up,         \* a process is running
    list,       \* _checkpoints: the registrations of the process
    doc,        \* the registrations recorded below _engine_doc_root
    completed,  \* positions of the completed checkpoints
    snapped,    \* positions with a data_cache_path and a zfs_snap
    pos,        \* position of the checkpoint the run is at
    stop,       \* position the run pauses before
    phase,      \* where _execute_checkpoints() is; "idle" outside it
    kind,       \* "pre" or "completed": which snapshot is being taken
    status,     \* its local variable "status"
    origin,     \* "fresh", "resume" (to be resumed) or "resumed"
    resumeOk,   \* __resume_exec_cp_ok
    modified,   \* zfs_snapshots_modifed
    processes,  \* number of processes so far
    runs,       \* number of execute calls of this process
    stopOnError,\* the engine's stop_on_error property in this process
    crashed     \* some process died inside a run

process == <<up, list, origin, resumeOk, processes, runs, stopOnError, crashed>>
vars == <<live, snaps, up, list, doc, completed, snapped, pos, stop, phase, kind,
          status, origin, resumeOk, modified, processes, runs, stopOnError,
          crashed>>

\* get_zfs_snapshot_name() and get_cache_filename(): one name for each.
PreName(i) == [cp |-> list[i].name, kind |-> "pre"]
CompletedName(i) == [cp |-> list[i].name, kind |-> "completed"]
SnapName == IF kind = "pre" THEN PreName(pos) ELSE CompletedName(pos)
Empty == [cp |-> None, kind |-> "empty"]

--------------------------------------------------------------------------------
(* Files and snapshots                                                      *)

HasFile(data, name) == name \in DOMAIN data.files
FileOf(data, name) == data.files[name]

\* Writing a file makes it the newest one.
Written(data, name, content) ==
    [files |-> [n \in DOMAIN data.files \cup {name} |->
                   IF n = name THEN content ELSE data.files[n]],
     newest |-> name,
     work |-> data.work]

SnapIndex(name) ==
    IF \E k \in DOMAIN snaps : snaps[k].name = name
    THEN CHOOSE k \in DOMAIN snaps : snaps[k].name = name
    ELSE 0
HasSnap(name) == SnapIndex(name) # 0

\* Filesystem.snapshot(), once an old snapshot of that name is destroyed.
TakeSnap(name) ==
    snaps' = Append(snaps, [name |-> name, live |-> live])
DestroySnap(name) == snaps' = RemoveAt(snaps, SnapIndex(name))

\* Filesystem.rollback(name, recursive=True)
RollbackTo(name) ==
    /\ live' = snaps[SnapIndex(name)].live
    /\ snaps' = SubSeq(snaps, 1, SnapIndex(name))

EmptyDataset == [files |-> [n \in {} |-> Torn], newest |-> Empty, work |-> <<>>]

Init ==
    /\ live = EmptyDataset
    /\ snaps = <<[name |-> Empty, live |-> EmptyDataset]>>
    /\ up = FALSE /\ list = <<>> /\ doc = <<>>
    /\ completed = {} /\ snapped = {}
    /\ pos = 1 /\ stop = 1 /\ phase = "idle" /\ kind = "pre"
    /\ status = "EXEC_SUCCESS" /\ origin = "fresh" /\ resumeOk = TRUE /\ modified = FALSE
    /\ processes = 0 /\ runs = 0 /\ stopOnError = TRUE /\ crashed = FALSE

--------------------------------------------------------------------------------
(* Processes                                                                *)

\* main() up to the execution of the manifest's checkpoints: the internal
\* checkpoints run without a dataset, and a process that does not resume rolls
\* the build dataset back to @empty.
StartProcess(l, how) ==
    /\ ~up /\ processes < MaxProcesses
    /\ up' = TRUE
    /\ processes' = processes + 1
    /\ list' = l
    /\ doc' = SubSeq(l, 1, Prelude)
    /\ completed' = 1 .. Prelude
    /\ snapped' = {}
    /\ origin' = how
    /\ IF how = "fresh" THEN RollbackTo(Empty) ELSE UNCHANGED <<live, snaps>>
    /\ stopOnError' \in StopOnError
    /\ resumeOk' = TRUE /\ modified' = FALSE /\ runs' = 0
    /\ UNCHANGED crashed
    /\ pos' = 1 /\ stop' = 1 /\ phase' = "idle" /\ kind' = "pre"
    /\ status' = "EXEC_SUCCESS"

\* The process ends, or dies inside a run; what is in memory is lost.
ProcessEnds ==
    /\ up
    /\ up' = FALSE
    /\ crashed' = (crashed \/ phase # "idle")
    /\ stopOnError' = TRUE
    /\ list' = <<>> /\ doc' = <<>> /\ completed' = {} /\ snapped' = {}
    /\ pos' = 1 /\ stop' = 1 /\ phase' = "idle" /\ kind' = "pre"
    /\ status' = "EXEC_SUCCESS"
    /\ UNCHANGED <<live, snaps, origin, resumeOk, modified, processes, runs>>

--------------------------------------------------------------------------------
(* execute_checkpoints() and resume_execute_checkpoints()                   *)

\* The run starts at position i; get_exec_list() pauses it before some later
\* checkpoint or at the end of the list.
BeginRun(i) ==
    /\ pos' = i
    /\ stop' \in i + 1 .. Len(list) + 1
    /\ phase' = "next" /\ kind' = "pre"
    /\ status' = "EXEC_SUCCESS"
    /\ runs' = runs + 1
    /\ UNCHANGED <<up, list, snapped, modified, processes, stopOnError, crashed>>

FirstIncomplete == CHOOSE i \in 1 .. Len(list) + 1 :
    i \notin completed /\ \A j \in 1 .. i - 1 : j \in completed

\* execute_checkpoints() without start_from.  No application goes on in the
\* same process after a run that failed.
ContinueExecution ==
    /\ up /\ phase = "idle" /\ runs < MaxRuns
    /\ origin \in {"fresh", "resumed"} /\ status = "EXEC_SUCCESS"
    /\ FirstIncomplete <= Len(list)
    /\ BeginRun(FirstIncomplete)
    /\ UNCHANGED <<live, snaps, doc, completed, origin, resumeOk>>

\* The DOC file is looked up in the dataset as it is after the rollback; it was
\* written before the snapshot was taken.
Restorable(name) ==
    /\ HasSnap(name)
    /\ HasFile(snaps[SnapIndex(name)].live, name)
    /\ FileOf(snaps[SnapIndex(name)].live, name) # Torn

\* Faulty variant: the DOC is restored, the dataset is not.
RestoreDocOnly(i, name) ==
    /\ Restorable(name)
    /\ doc' = FileOf(snaps[SnapIndex(name)].live, name)
    /\ completed' = 1 .. i - 1
    /\ UNCHANGED <<live, snaps>>

\* _rollback() once the snapshot is known: dataset, DOC and completed flags.
RestoreBefore(i, name) ==
    /\ Restorable(name)
    /\ doc' = FileOf(snaps[SnapIndex(name)].live, name)
    /\ RollbackTo(name)
    /\ completed' = 1 .. i - 1

\* execute_checkpoints(start_from) for a checkpoint completed and snapshotted
\* in this process.
RollbackInProcess(i) ==
    /\ up /\ phase = "idle" /\ runs < MaxRuns
    /\ origin \in {"fresh", "resumed"}
    /\ i \in completed \cap snapped
    /\ RestoreBefore(i, PreName(i))
    /\ BeginRun(i)
    /\ UNCHANGED <<origin, resumeOk>>

\* The DOC that get_resumable_checkpoints() loads: the newest file's.
HasNewest == live.newest # Empty
NewestDoc == FileOf(live, live.newest)

\* Registrations of the list that agree with the previous execution's.
Matching ==
    {m \in 1 .. Len(list) :
        /\ m <= Len(NewestDoc)
        /\ \A i \in 1 .. m : list[i] = NewestDoc[i]}

\* The completed checkpoints with a snapshot, as long as the snapshots were
\* taken in the order of the list.
ResumableCompleted ==
    {m \in Matching :
        /\ HasSnap(PreName(m))
        /\ \A i \in 1 .. m - 1 : SnapIndex(PreName(i)) <= SnapIndex(PreName(i + 1))}

\* get_resumable_checkpoints(), which also offers the first incomplete one.
\* It raises when the newest DOC file cannot be read.
ResumableReadable == HasNewest => NewestDoc # Torn
Resumable ==
    IF ~HasNewest \/ ResumableCompleted = {}
    THEN {1}
    ELSE LET next == Max(ResumableCompleted) + 1 IN
         ResumableCompleted \cup (IF next <= Len(list) THEN {next} ELSE {})

\* Faulty variant: the "completed" snapshot of the checkpoint itself.
SnapForSelf(i) == IF HasSnap(PreName(i)) THEN PreName(i) ELSE CompletedName(i)

\* The snapshot that _rollback() uses for a checkpoint this process has not
\* completed: its own, or for the last resumable one the "completed" snapshot
\* of the resumable checkpoint before it.
SnapFor(i) ==
    IF HasSnap(PreName(i)) \/ i # Max(Resumable) \/ Cardinality(Resumable) = 1
    THEN PreName(i)
    ELSE CompletedName(Max(Resumable \ {i}))

\* resume_execute_checkpoints(start_from); the names of the internal
\* checkpoints are not known to the user.  Since one of those is always the
\* first of the list, there is always a snapshot to roll back to or an error.
ResumeExecution(i) ==
    /\ up /\ phase = "idle" /\ origin = "resume" /\ runs < MaxRuns
    /\ resumeOk /\ ~modified
    /\ ResumableReadable
    /\ i \in Resumable /\ i > Prelude
    /\ RestoreBefore(i, SnapFor(i))
    /\ resumeOk' = FALSE
    /\ origin' = "resumed"
    /\ BeginRun(i)

--------------------------------------------------------------------------------
(* _execute_checkpoints()                                                   *)

EndRun ==
    /\ phase = "next" /\ pos >= stop
    /\ phase' = "idle"
    /\ UNCHANGED <<live, snaps, process, doc, completed, snapped, pos, stop, kind,
                   status, modified>>

\* The next checkpoint is taken; snapshots are taken until one fails.
NextCheckpoint ==
    /\ phase = "next" /\ pos < stop
    /\ phase' = IF status = "EXEC_SUCCESS" THEN "open" ELSE "exec"
    /\ kind' = "pre"
    /\ UNCHANGED <<live, snaps, process, doc, completed, snapped, pos, stop,
                   status, modified>>

\* snapshot(): take_snapshot() opens the file, which truncates it ...
OpenDoc ==
    /\ phase = "open"
    /\ live' = Written(live, SnapName, Torn)
    /\ phase' = "write"
    /\ UNCHANGED <<snaps, process, doc, completed, snapped, pos, stop, kind,
                   status, modified>>

\* Faulty variant: the dump does not reach the file.
WriteDocUnflushed ==
    /\ phase = "write"
    /\ phase' = IF HasSnap(SnapName) THEN "destroy" ELSE "snap"
    /\ UNCHANGED <<live, snaps, process, doc, completed, snapped, pos, stop, kind,
                   status, modified>>

\* ... and dumps the DOC into it.
WriteDoc ==
    /\ phase = "write"
    /\ live' = Written(live, SnapName, doc)
    /\ phase' = IF HasSnap(SnapName) THEN "destroy" ELSE "snap"
    /\ UNCHANGED <<snaps, process, doc, completed, snapped, pos, stop, kind,
                   status, modified>>

\* Filesystem.snapshot(overwrite=True) destroys the old snapshot ...
DestroyOldSnap ==
    /\ phase = "destroy"
    /\ DestroySnap(SnapName)
    /\ phase' = "snap"
    /\ UNCHANGED <<live, process, doc, completed, snapped, pos, stop, kind, status,
                   modified>>

\* ... before it takes the new one.  The checkpoint executes, or is done with.
TakeNewSnap ==
    /\ phase = "snap"
    /\ TakeSnap(SnapName)
    /\ modified' = TRUE
    /\ IF kind = "pre"
       THEN snapped' = snapped \cup {pos} /\ phase' = "exec" /\ UNCHANGED pos
       ELSE pos' = pos + 1 /\ phase' = "next" /\ UNCHANGED snapped
    /\ UNCHANGED <<live, process, doc, completed, stop, kind, status>>

\* checkpoint.execute() is at work on the dataset.
ExecuteStarts ==
    /\ phase = "exec"
    /\ live' = [live EXCEPT !.work = Append(@, [cp |-> list[pos], full |-> FALSE])]
    /\ phase' = "running"
    /\ UNCHANGED <<snaps, process, doc, completed, snapped, pos, stop, kind,
                   status, modified>>

ExecuteReturns ==
    /\ phase = "running"
    /\ live' = [live EXCEPT !.work[Len(live.work)] = [cp |-> @.cp, full |-> TRUE]]
    /\ doc' = Append(doc, list[pos])
    /\ completed' = completed \cup {pos}
    /\ IF status = "EXEC_SUCCESS"
       THEN phase' = "open" /\ kind' = "completed" /\ UNCHANGED pos
       ELSE phase' = "next" /\ pos' = pos + 1 /\ UNCHANGED kind
    /\ UNCHANGED <<snaps, process, snapped, stop, status, modified>>

ExecuteRaises ==
    /\ phase = "running"
    /\ status' = "EXEC_FAILED"
    /\ IF stopOnError
       THEN phase' = "idle" /\ UNCHANGED <<doc, completed, pos>>
       ELSE /\ doc' = Append(doc, list[pos])
            /\ completed' = completed \ {pos}
            /\ pos' = pos + 1
            /\ phase' = "next"
    /\ UNCHANGED <<live, snaps, process, snapped, stop, kind, modified>>

--------------------------------------------------------------------------------
RunStep ==
    \/ EndRun \/ NextCheckpoint
    \/ OpenDoc \/ WriteDoc \/ DestroyOldSnap \/ TakeNewSnap
    \/ ExecuteStarts \/ ExecuteReturns \/ ExecuteRaises

Next ==
    \/ \E l \in Lists, how \in {"fresh", "resume"} : StartProcess(l, how)
    \/ ProcessEnds
    \/ ContinueExecution
    \/ \E i \in 1 .. Len(list) : RollbackInProcess(i) \/ ResumeExecution(i)
    \/ RunStep

Spec == Init /\ [][Next]_vars

--------------------------------------------------------------------------------
(* Properties                                                               *)

\* The first n registrations of the list as finished work; the internal
\* checkpoints do not touch the dataset.
FinishedWork(n) ==
    [k \in 1 .. n - Prelude |-> [cp |-> list[Prelude + k], full |-> TRUE]]

\* Whenever a run in which nothing failed takes its next checkpoint, the dataset
\* holds the finished work of exactly the checkpoints before it in this process's list,
\* and the DOC and the completed flags say the same: whatever was left behind
\* by a crash, a failure or an older process is gone after a resume.
ConsistentBuild ==
    phase = "next" /\ status = "EXEC_SUCCESS" =>
        /\ live.work = FinishedWork(pos - 1)
        /\ doc = SubSeq(list, 1, pos - 1)
        /\ completed = 1 .. pos - 1

\* Every checkpoint that get_resumable_checkpoints() lists can be resumed from:
\* the snapshot that _rollback() asks for is there, with its DOC file in it.
CanResumeAll ==
    up /\ phase = "idle" /\ origin = "resume" /\ ResumableReadable =>
        \A i \in Resumable :
            i > Prelude => Restorable(SnapFor(i))

\* Processes that only stop between runs (a pause, a failure, the end) leave
\* files and snapshots behind of which the newest DOC file can be read, so that
\* get_resumable_checkpoints() does not raise, and from which everything listed
\* can be resumed.
StoppedCanResume ==
    ~crashed => CanResumeAll /\ (up /\ phase = "idle" => ResumableReadable)

\* "Resumable checkpoints must have associated DataObjectCache snapshots and ZFS
\* snapshots" (comment in get_resumable_checkpoints()), after a crash as well.
ResumableCanResume == CanResumeAll

================================================================================
