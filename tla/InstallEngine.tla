----------------------------- MODULE InstallEngine -----------------------------
(***************************************************************************)
(* The execution engine of the installer                                   *)
(* (usr/src/lib/install_engine/__init__.py).  An application registers     *)
(* checkpoints and asks the engine to execute them; the engine runs them   *)
(* one after the other, in a thread of its own when the application gives  *)
(* a callback ("callback" mode) and in the caller's thread when it does    *)
(* not ("blocking" mode).  Any other thread may cancel the execution.      *)
(*                                                                         *)
(* This module is the engine of one process without a ZFS dataset: the     *)
(* DOC snapshots go to the temporary directory and serve in-process        *)
(* rollback only.  EngineResume models the dataset, crashes and the        *)
(* out-of-process resume.                                                  *)
(*                                                                         *)
(* A name that is looked up in the list of registered checkpoints is given *)
(* as its position there; 0 stands for an argument that is not given.      *)
(* Calls that raise before they change anything are left out.              *)
(***************************************************************************)
EXTENDS Naturals, Sequences

CONSTANTS
    Names,            \* checkpoint names an application registers
    None,             \* Python's None, and "there is no readable file"
    Cancellers,       \* threads that may call cancel_checkpoints()
    Modes,            \* how the application executes: "callback", "blocking"
    StopOnError,      \* the engine's stop_on_error property
    Debug,            \* the engine's debug property
    SnapshotMayFail,  \* whether writing a DOC snapshot may raise (disk full)
    MaxRuns,          \* bound on the calls of execute_checkpoints()
    MaxCancels        \* bound on the calls of cancel_checkpoints()

ASSUME EngineAssumption ==
    /\ None \notin Names \cup Seq(Names)
    /\ Modes \subseteq {"callback", "blocking"}
    /\ StopOnError \in BOOLEAN /\ Debug \in BOOLEAN
    /\ SnapshotMayFail \in BOOLEAN
    /\ MaxRuns \in Nat /\ MaxCancels \in Nat

VARIABLES
    checkpoints,   \* _checkpoints: the names in registration order
    completed,     \* the "completed" flag of every CheckpointData
    files,         \* what rollback finds at a checkpoint's data_cache_path
    doc,           \* the checkpoints recorded below _engine_doc_root
    thread,        \* checkpoint_thread: "none", a "thread" or a "pseudo" one
    threadRun,     \* the run that checkpoint_thread belongs to
    pc,            \* where _execute_checkpoints() is; "idle" outside it
    execList,      \* checkpoint_data_list of the run
    pos,           \* position in execList of the checkpoint it is at
    status,        \* the local variable "status"
    failed,        \* failed_checkpoint_list
    executing,     \* __currently_executing
    cancelEvent,   \* _cancel_event
    cancelPc,      \* where each canceller is in cancel_checkpoints()
    joinRun,       \* the run whose thread each canceller joins
    run,           \* number of accepted calls of execute_checkpoints()
    results,       \* the status each run reported, "none" before
    cancels,       \* number of calls of cancel_checkpoints()
    targets        \* runs that were in progress when a cancel was requested

runVars == <<thread, threadRun, execList>>
cpVars == <<checkpoints, completed, files, doc>>
cancelVars == <<cancelEvent, cancelPc, joinRun, cancels, targets>>
vars == <<checkpoints, completed, files, doc, thread, threadRun, pc, execList,
          pos, status, failed, executing, cancelEvent, cancelPc, joinRun, run,
          results, cancels, targets>>

Statuses == {"EXEC_SUCCESS", "EXEC_FAILED", "EXEC_CANCELED", "CP_INIT_FAILED",
             "FATAL_INTERNAL"}
Places == {"idle", "created", "load", "loop", "presnap", "exec", "postsnap", "finish",
           "callback", "exiting"}

Count == Len(checkpoints)
Done(i) == completed[checkpoints[i]]

\* checkpoint_thread.is_alive() is False for a thread never started: the
\* pseudo thread of the blocking mode runs its target without starting.
IsExecuting == thread = "thread" /\ pc \notin {"idle", "created"}

\* The application makes its calls one after the other: it is inside
\* execute_checkpoints() until the thread of the run is started.
MayCall == ~IsExecuting /\ pc # "created"

Init ==
    /\ checkpoints = <<>>
    /\ completed = [n \in Names |-> FALSE]
    /\ files = [n \in Names |-> None]
    /\ doc = <<>>
    /\ thread = "none" /\ threadRun = 0
    /\ pc = "idle" /\ execList = <<>> /\ pos = 1
    /\ status = "EXEC_SUCCESS" /\ failed = <<>>
    /\ executing = None
    /\ cancelEvent = FALSE
    /\ cancelPc = [c \in Cancellers |-> "idle"]
    /\ joinRun = [c \in Cancellers |-> 0]
    /\ run = 0
    /\ results = [r \in 1 .. MaxRuns |-> "none"]
    /\ cancels = 0 /\ targets = {}

--------------------------------------------------------------------------------
(* The application's calls.                                                 *)

\* s with e inserted before position i.
Inserted(s, i, e) ==
    [j \in 1 .. Len(s) + 1 |->
        IF j < i THEN s[j] ELSE IF j = i THEN e ELSE s[j - 1]]

\* Faulty variant: a name may be registered twice.
RegisterTwice(n, before) ==
    /\ MayCall /\ Count < 3
    /\ before # 0 => ~Done(before)
    /\ checkpoints' = Inserted(checkpoints,
                               IF before = 0 THEN Count + 1 ELSE before, n)
    /\ UNCHANGED <<completed, files, doc, runVars, pc, pos, status, failed,
                   executing, cancelVars, run, results>>

\* Faulty variant: insert_before may name a completed checkpoint.
RegisterAnywhere(n, before) ==
    /\ MayCall
    /\ \A i \in 1 .. Count : checkpoints[i] # n
    /\ checkpoints' = Inserted(checkpoints,
                               IF before = 0 THEN Count + 1 ELSE before, n)
    /\ UNCHANGED <<completed, files, doc, runVars, pc, pos, status, failed,
                   executing, cancelVars, run, results>>

\* register_checkpoint(n, insert_before): n must be new, and the checkpoint it
\* is inserted before must not be completed.
RegisterCheckpoint(n, before) ==
    /\ MayCall
    /\ \A i \in 1 .. Count : checkpoints[i] # n
    /\ before # 0 => ~Done(before)
    /\ checkpoints' = Inserted(checkpoints,
                               IF before = 0 THEN Count + 1 ELSE before, n)
    /\ completed' = [completed EXCEPT ![n] = FALSE]
    /\ files' = [files EXCEPT ![n] = None]
    /\ UNCHANGED <<doc, runVars, pc, pos, status, failed, executing,
                   cancelVars, run, results>>

\* get_first_incomplete(); Count + 1 when every checkpoint is completed.
IsFirstIncomplete(i) ==
    /\ i \in 1 .. Count + 1
    /\ i <= Count => ~Done(i)
    /\ \A j \in 1 .. i - 1 : Done(j)

\* Faulty variant: the checkpoint that is rolled back to stays completed.
RolledBackAfter(start) ==
    [n \in Names |->
        IF \E i \in 1 .. Count : checkpoints[i] = n
        THEN \E i \in 1 .. start : checkpoints[i] = n
        ELSE completed[n]]

\* The completed flags that _rollback() leaves behind.
RolledBack(start) ==
    [n \in Names |->
        IF \E i \in 1 .. Count : checkpoints[i] = n
        THEN \E i \in 1 .. start - 1 : checkpoints[i] = n
        ELSE completed[n]]

\* The in-process half of _rollback(): the checkpoint is completed and its DOC
\* snapshot can be loaded.  (Without a dataset the other half raises.)
CanRollback(start) == Done(start) /\ files[checkpoints[start]] # None

\* get_exec_list() finds a list when everything before "start" is completed
\* and "pause", if given, is not before it.
ExecListOk(start, pause, flags) ==
    /\ \A i \in 1 .. start - 1 : flags[checkpoints[i]]
    /\ pause # 0 => pause >= start

ExecList(start, pause) ==
    [i \in 1 .. (IF pause = 0 THEN Count + 1 ELSE pause) - start |->
        checkpoints[start + i - 1]]

\* The rest of execute_checkpoints() once the list is known: an empty list
\* ends the call, whatever the mode; for any other one a thread is made and
\* becomes checkpoint_thread.
CreateThread(list, mode) ==
    /\ run' = run + 1
    /\ IF list = <<>>
       THEN UNCHANGED <<runVars, pc, pos, status, failed>>
       ELSE /\ thread' = IF mode = "blocking" THEN "pseudo" ELSE "thread"
            /\ threadRun' = run + 1
            /\ pc' = "created"
            /\ execList' = list
            /\ pos' = 1
            /\ status' = "EXEC_SUCCESS"
            /\ failed' = <<>>
    /\ UNCHANGED <<checkpoints, files, executing, cancelVars, results>>

\* execute_checkpoints() that goes on where the engine left off.
Continue(first, start, pause, mode) ==
    /\ start \in {0, first}
    /\ first <= Count => ExecListOk(first, pause, completed)
    /\ UNCHANGED <<completed, doc>>
    /\ CreateThread(IF first > Count THEN <<>> ELSE ExecList(first, pause), mode)

\* Faulty variant: the DOC is not reverted.
RollbackFlagsOnly(first, start, pause, mode) ==
    /\ start \notin {0, first}
    /\ CanRollback(start)
    /\ completed' = RolledBack(start)
    /\ UNCHANGED doc
    /\ ExecListOk(start, pause, RolledBack(start))
    /\ CreateThread(ExecList(start, pause), mode)

\* execute_checkpoints() that first rolls the engine back to a completed
\* checkpoint.  The rollback stands even when the list is then refused.
RollbackAndExecute(first, start, pause, mode) ==
    /\ start \notin {0, first}
    /\ CanRollback(start)
    /\ completed' = RolledBack(start)
    /\ doc' = files[checkpoints[start]]
    /\ IF ExecListOk(start, pause, RolledBack(start))
       THEN CreateThread(ExecList(start, pause), mode)
       ELSE UNCHANGED <<checkpoints, files, runVars, pc, pos, status, failed,
                        executing, cancelVars, run, results>>

\* execute_checkpoints(start_from, pause_before).  The engine does not refuse a
\* second execution; the applications wait for the end of the first.
ExecuteCheckpoints(start, pause, mode) ==
    /\ pc = "idle" /\ run < MaxRuns
    /\ \E first \in 1 .. Count + 1 :
        /\ IsFirstIncomplete(first)
        /\ \/ Continue(first, start, pause, mode)
           \/ RollbackAndExecute(first, start, pause, mode)

\* thread.start(), or run() of the pseudo thread: only now is there a thread to
\* be joined.
StartThread ==
    /\ pc = "created"
    /\ pc' = "load"
    /\ UNCHANGED <<cpVars, runVars, pos, status, failed, executing, cancelVars,
                   run, results>>

\* Faulty variant: the completed flags survive the snapshots.
CleanupFilesOnly ==
    /\ MayCall
    /\ files' = [n \in Names |-> None]
    /\ UNCHANGED <<checkpoints, completed, doc, runVars, pc, pos, status,
                   failed, executing, cancelVars, run, results>>

\* cleanup_checkpoints() without a dataset: the temporary directory goes, and
\* with it every DOC snapshot.
CleanupCheckpoints ==
    /\ MayCall
    /\ files' = [n \in Names |-> None]
    /\ completed' = [n \in Names |->
                        IF \E i \in 1 .. Count : checkpoints[i] = n
                        THEN FALSE ELSE completed[n]]
    /\ UNCHANGED <<checkpoints, doc, runVars, pc, pos, status, failed,
                   executing, cancelVars, run, results>>

--------------------------------------------------------------------------------
(* _execute_checkpoints(), the body of the checkpoint thread.               *)

\* The outer "except BaseException": whatever went wrong is an internal error.
FatalInternal ==
    /\ status' = "FATAL_INTERNAL"
    /\ failed' = <<"FATAL_INTERNAL">> \o failed
    /\ pc' = "finish"

\* callback(status, failed_checkpoint_list)
Report(s) == results' = [results EXCEPT ![threadRun] = s]

\* The local variables of a run are gone with it.
ForgetLocals ==
    /\ execList' = <<>> /\ pos' = 1
    /\ status' = "EXEC_SUCCESS" /\ failed' = <<>>

\* _load_checkpoints() instantiates the whole list, or reports the first
\* checkpoint whose constructor or progress estimate raises.
LoadCheckpoints ==
    /\ pc = "load"
    /\ \/ pc' = "loop" /\ UNCHANGED <<executing, results>>
       \/ Report("CP_INIT_FAILED") /\ executing' = None /\ pc' = "exiting"
    /\ UNCHANGED <<cpVars, runVars, pos, status, failed, cancelVars, run>>

\* Faulty variant: a canceled run names the checkpoint it did not start.
TakeNextNamesNext ==
    /\ pc = "loop"
    /\ IF pos > Len(execList)
       THEN pc' = "finish" /\ UNCHANGED <<status, failed, executing>>
       ELSE IF cancelEvent
            THEN /\ status' = "EXEC_CANCELED"
                 /\ failed' = Append(failed, execList[pos])
                 /\ pc' = "finish"
                 /\ UNCHANGED executing
            ELSE /\ executing' = execList[pos]
                 /\ pc' = IF status = "EXEC_SUCCESS" THEN "presnap" ELSE "exec"
                 /\ UNCHANGED <<status, failed>>
    /\ UNCHANGED <<cpVars, runVars, pos, cancelVars, run, results>>

\* The section of the loop that holds _checkpoint_lock.  A canceled run names
\* the checkpoint executed last; before the first one there is none to name,
\* and the attribute access raises.
TakeNext ==
    /\ pc = "loop"
    /\ \/ /\ pos > Len(execList)
          /\ pc' = "finish"
          /\ UNCHANGED <<status, failed, executing>>
       \/ /\ pos <= Len(execList) /\ cancelEvent /\ executing # None
          /\ status' = "EXEC_CANCELED"
          /\ failed' = Append(failed, executing)
          /\ pc' = "finish"
          /\ UNCHANGED executing
       \/ /\ pos <= Len(execList) /\ cancelEvent /\ executing = None
          /\ FatalInternal
          /\ UNCHANGED executing
       \/ /\ pos <= Len(execList) /\ ~cancelEvent
          /\ executing' = execList[pos]
          /\ pc' = IF status = "EXEC_SUCCESS" THEN "presnap" ELSE "exec"
          /\ UNCHANGED <<status, failed>>
    /\ UNCHANGED <<cpVars, runVars, pos, cancelVars, run, results>>

\* snapshot(cp_data=cp_data).  When the write fails the file may already have
\* been truncated.
PreSnapshot ==
    /\ pc = "presnap"
    /\ \/ /\ files' = [files EXCEPT ![executing] = doc]
          /\ pc' = "exec"
          /\ UNCHANGED <<status, failed>>
       \/ /\ SnapshotMayFail
          /\ \/ UNCHANGED files
             \/ files' = [files EXCEPT ![executing] = None]
          /\ FatalInternal
    /\ UNCHANGED <<checkpoints, completed, doc, runVars, pos, executing,
                   cancelVars, run, results>>

\* cp_data.completed and the record in the DOC, both set when execute()
\* returned, and also when it raised and the engine carries on.
Record(outcome) ==
    /\ doc' = Append(doc, executing)
    /\ completed' = [completed EXCEPT ![executing] = outcome]
    /\ pos' = pos + 1

\* checkpoint.execute() returns.  A checkpoint that is canceled returns early;
\* the engine cannot tell the difference.
CheckpointReturns ==
    /\ pc = "exec"
    /\ Record(TRUE)
    /\ pc' = IF status = "EXEC_SUCCESS" THEN "postsnap" ELSE "loop"
    /\ UNCHANGED <<checkpoints, files, runVars, status, failed, executing,
                   cancelVars, run, results>>

\* checkpoint.execute() raises and the engine stops.
CheckpointRaises ==
    /\ pc = "exec" /\ StopOnError
    /\ IF Debug /\ thread = "pseudo"
       THEN /\ status' = "FATAL_INTERNAL"
            /\ failed' = <<"FATAL_INTERNAL">> \o Append(failed, executing)
       ELSE /\ status' = "EXEC_FAILED"
            /\ failed' = Append(failed, executing)
    /\ pc' = "finish"
    /\ UNCHANGED <<cpVars, runVars, pos, executing, cancelVars, run, results>>

\* Faulty variant: the checkpoint that raised is marked completed.
CheckpointRaisesCompleted ==
    /\ pc = "exec" /\ ~StopOnError
    /\ status' = "EXEC_FAILED"
    /\ failed' = Append(failed, executing)
    /\ Record(TRUE)
    /\ pc' = "loop"
    /\ UNCHANGED <<checkpoints, files, runVars, executing, cancelVars, run,
                   results>>

\* Faulty variant: a checkpoint that raises is tried again.
CheckpointRetried ==
    /\ pc = "exec" /\ ~StopOnError
    /\ pc' = "loop"
    /\ UNCHANGED <<cpVars, runVars, pos, status, failed, executing, cancelVars,
                   run, results>>

\* checkpoint.execute() raises and the engine carries on with the next one.
CheckpointRaisesGoOn ==
    /\ pc = "exec" /\ ~StopOnError
    /\ status' = "EXEC_FAILED"
    /\ failed' = Append(failed, executing)
    /\ Record(FALSE)
    /\ pc' = "loop"
    /\ UNCHANGED <<checkpoints, files, runVars, executing, cancelVars, run,
                   results>>

\* snapshot("<name>-completed"), which no in-process rollback reads.
PostSnapshot ==
    /\ pc = "postsnap"
    /\ \/ pc' = "loop" /\ UNCHANGED <<status, failed>>
       \/ SnapshotMayFail /\ FatalInternal
    /\ UNCHANGED <<cpVars, runVars, pos, executing, cancelVars, run, results>>

\* Faulty variant: without a "finally" clause the last checkpoint stays the
\* one currently executing.  A stale event is then taken for a cancellation.
FinishWithoutReset ==
    /\ pc = "finish"
    /\ pc' = "callback"
    /\ UNCHANGED <<cpVars, runVars, pos, status, failed, executing, cancelVars,
                   run, results>>

\* The "finally" clause.  In the caller's thread an internal error is raised
\* again: no callback, and checkpoint_thread keeps the pseudo thread.
Finish ==
    /\ pc = "finish"
    /\ executing' = None
    /\ IF status = "FATAL_INTERNAL" /\ thread = "pseudo"
       THEN Report(status) /\ pc' = "idle" /\ ForgetLocals
       ELSE pc' = "callback"
            /\ UNCHANGED <<results, execList, pos, status, failed>>
    /\ UNCHANGED <<cpVars, thread, threadRun, cancelVars, run>>

Callback ==
    /\ pc = "callback"
    /\ Report(status)
    /\ pc' = "exiting"
    /\ UNCHANGED <<cpVars, runVars, pos, status, failed, executing, cancelVars,
                   run>>

\* The thread dies, or the blocking execute_checkpoints() returns.
Exit ==
    /\ pc = "exiting"
    /\ pc' = "idle"
    /\ thread' = IF thread = "pseudo" THEN "none" ELSE thread
    /\ ForgetLocals
    /\ UNCHANGED <<cpVars, threadRun, executing, cancelVars, run, results>>

--------------------------------------------------------------------------------
(* cancel_checkpoints()                                                     *)

\* The section that holds _checkpoint_lock: the event is set and the
\* checkpoint being executed, if any, is told.
CancelCheckpoints(c) ==
    /\ cancelPc[c] \in {"idle", "raised"} /\ cancels < MaxCancels
    /\ cancels' = cancels + 1
    /\ cancelEvent' = TRUE
    /\ targets' = IF pc = "idle" THEN targets ELSE targets \cup {threadRun}
    /\ cancelPc' = [cancelPc EXCEPT ![c] = "set"]
    /\ UNCHANGED <<cpVars, runVars, pc, pos, status, failed, executing, joinRun,
                   run, results>>

\* Faulty variant: the event is cleared before the thread is joined.
ClearBeforeJoin(c) ==
    /\ cancelPc[c] = "set"
    /\ cancelEvent' = FALSE
    /\ cancelPc' = [cancelPc EXCEPT ![c] = "join"]
    /\ joinRun' = [joinRun EXCEPT ![c] = threadRun]
    /\ UNCHANGED <<cpVars, runVars, pc, pos, status, failed, executing, run,
                   results, cancels, targets>>

\* checkpoint_thread is read.  Joining a thread that is not started raises, and
\* the event stays set: the pseudo thread of the blocking mode never is, any
\* other one is not between the two statements of execute_checkpoints().
CancelRead(c) ==
    /\ cancelPc[c] = "set"
    /\ \/ /\ thread = "none"
          /\ cancelPc' = [cancelPc EXCEPT ![c] = "clear"]
          /\ UNCHANGED joinRun
       \/ /\ thread = "thread" /\ pc # "created"
          /\ cancelPc' = [cancelPc EXCEPT ![c] = "join"]
          /\ joinRun' = [joinRun EXCEPT ![c] = threadRun]
       \/ /\ thread = "pseudo" \/ (thread = "thread" /\ pc = "created")
          /\ cancelPc' = [cancelPc EXCEPT ![c] = "raised"]
          /\ UNCHANGED joinRun
    /\ UNCHANGED <<cpVars, runVars, pc, pos, status, failed, executing,
                   cancelEvent, run, results, cancels, targets>>

\* Faulty variant: the event is not cleared.
JoinedWithoutClear(c) ==
    /\ cancelPc[c] = "join"
    /\ joinRun[c] # threadRun \/ pc = "idle"
    /\ cancelPc' = [cancelPc EXCEPT ![c] = "idle"]
    /\ UNCHANGED <<cpVars, runVars, pc, pos, status, failed, executing,
                   cancelEvent, joinRun, run, results, cancels, targets>>

\* Faulty variant: the canceller waits for the callback of the run, which may
\* have been called already.
JoinedByCallback(c) ==
    /\ cancelPc[c] = "join"
    /\ joinRun[c] = threadRun /\ pc = "exiting"
    /\ cancelPc' = [cancelPc EXCEPT ![c] = "clear"]
    /\ UNCHANGED <<cpVars, runVars, pc, pos, status, failed, executing,
                   cancelEvent, joinRun, run, results, cancels, targets>>

\* join() returns once that thread is dead.
CancelJoined(c) ==
    /\ cancelPc[c] = "join"
    /\ joinRun[c] # threadRun \/ pc = "idle"
    /\ cancelPc' = [cancelPc EXCEPT ![c] = "clear"]
    /\ UNCHANGED <<cpVars, runVars, pc, pos, status, failed, executing,
                   cancelEvent, joinRun, run, results, cancels, targets>>

\* _cancel_event.clear(), outside the lock.
CancelClear(c) ==
    /\ cancelPc[c] = "clear"
    /\ cancelEvent' = FALSE
    /\ cancelPc' = [cancelPc EXCEPT ![c] = "idle"]
    /\ UNCHANGED <<cpVars, runVars, pc, pos, status, failed, executing, joinRun,
                   run, results, cancels, targets>>

--------------------------------------------------------------------------------
Application ==
    \/ \E n \in Names, before \in 0 .. Count : RegisterCheckpoint(n, before)
    \/ \E start \in 0 .. Count, pause \in 0 .. Count, mode \in Modes :
            ExecuteCheckpoints(start, pause, mode)
    \/ StartThread
    \/ CleanupCheckpoints

CheckpointThread ==
    \/ LoadCheckpoints \/ TakeNext \/ PreSnapshot
    \/ CheckpointReturns \/ CheckpointRaises \/ CheckpointRaisesGoOn
    \/ PostSnapshot \/ Finish \/ Callback \/ Exit

CancelStep(c) == CancelRead(c) \/ CancelJoined(c) \/ CancelClear(c)

Next ==
    \/ Application
    \/ CheckpointThread
    \/ \E c \in Cancellers : CancelCheckpoints(c) \/ CancelStep(c)

Spec == Init /\ [][Next]_vars

\* Checkpoints terminate, and every thread that has work keeps running.
Fairness ==
    /\ WF_vars(StartThread)
    /\ WF_vars(CheckpointThread)
    /\ \A c \in Cancellers : WF_vars(CancelStep(c))

FairSpec == Spec /\ Fairness

--------------------------------------------------------------------------------
(* Properties                                                               *)

\* The type of every variable; a checkpoint is registered at most once.
TypeOK ==
    /\ checkpoints \in Seq(Names)
    /\ \A i, j \in 1 .. Count : checkpoints[i] = checkpoints[j] => i = j
    /\ completed \in [Names -> BOOLEAN]
    /\ files \in [Names -> Seq(Names) \cup {None}]
    /\ doc \in Seq(Names)
    /\ thread \in {"none", "thread", "pseudo"}
    /\ threadRun \in 0 .. run
    /\ pc \in Places
    /\ pc # "idle" => threadRun \in 1 .. MaxRuns
    /\ execList \in Seq(Names)
    /\ pos \in 1 .. Len(execList) + 1
    /\ pc \in {"presnap", "exec"} => pos <= Len(execList)
    /\ status \in Statuses
    /\ failed \in Seq(Names \cup {"FATAL_INTERNAL"})
    /\ executing \in Names \cup {None}
    /\ pc \in {"presnap", "exec"} => executing = execList[pos]
    /\ cancelEvent \in BOOLEAN
    /\ cancelPc \in [Cancellers -> {"idle", "set", "join", "clear", "raised"}]
    /\ joinRun \in [Cancellers -> 0 .. MaxRuns]
    /\ run \in 0 .. MaxRuns
    /\ results \in [1 .. MaxRuns -> Statuses \cup {"none"}]
    /\ cancels \in 0 .. MaxCancels
    /\ targets \subseteq 1 .. MaxRuns

\* The checkpoints that are completed are the first ones of the list, whatever
\* was registered, canceled, failed or rolled back: "the first unexecuted
\* checkpoint" of execute_checkpoints() leaves nothing behind it.
CompletedPrefix ==
    \A i, j \in 1 .. Count : i < j /\ Done(j) => Done(i)

\* While a checkpoint executes, everything registered before it has completed
\* and neither it nor anything registered after it has.
OrderlyExecution ==
    pc = "exec" =>
        \A i \in 1 .. Count :
            checkpoints[i] = executing =>
                \A j \in 1 .. Count : Done(j) <=> j < i

\* s ends with the first n registered checkpoints, in order.
EndsWithFirst(s, n) ==
    /\ Len(s) >= n
    /\ \A j \in 1 .. n : s[Len(s) - n + j] = checkpoints[j]

\* The engine's part of the DOC ends with the completed checkpoints, in the
\* order of their registration, between the calls and steps that change it.
DocRecordsCompleted ==
    \A i \in 1 .. Count + 1 :
        IsFirstIncomplete(i) => EndsWithFirst(doc, i - 1)

\* Every completed checkpoint can be rolled back to: its DOC snapshot is there,
\* and records exactly the checkpoints before it as executed last.
RollbackReady ==
    \A i \in 1 .. Count :
        Done(i) => /\ files[checkpoints[i]] # None
                   /\ EndsWithFirst(files[checkpoints[i]], i - 1)

\* What the callback is about to be told agrees with the completed flags: a
\* success completed the whole list, and what is named as failed is not
\* completed.  A canceled run names one more checkpoint, the one executed last.
ReportTruthful ==
    pc = "callback" =>
        /\ status = "EXEC_SUCCESS" =>
               failed = <<>> /\ \A i \in 1 .. Len(execList) : completed[execList[i]]
        /\ status = "EXEC_FAILED" =>
               failed # <<>> /\ \A i \in 1 .. Len(failed) : ~completed[failed[i]]
        /\ status = "EXEC_CANCELED" =>
               /\ pos > 1
               /\ failed[Len(failed)] = execList[pos - 1]
               /\ \A i \in 1 .. Len(failed) - 1 : ~completed[failed[i]]

\* A run starts only where everything registered before it was completed when
\* the call was made: "Invalid start checkpoint.  Previous checkpoint not
\* completed" (get_exec_list()).
ResumesAfterCompleted ==
    [][pc = "idle" /\ pc' # "idle" =>
        \A i, j \in 1 .. Count :
            i < j /\ checkpoints[j] = execList'[1] => Done(i)]_vars

\* A run that reports EXEC_CANCELED was in progress when some cancel_checkpoints()
\* took the lock: no stale event is ever reported as a cancellation.
CanceledWasAsked ==
    \A r \in 1 .. MaxRuns : results[r] = "EXEC_CANCELED" => r \in targets

\* Once every cancel_checkpoints() call has returned the event is clear again,
\* so that the next execution starts unharmed.  Only a call that ends with the
\* exception of join() ("raised") leaves it set, whether the thread it met was
\* a pseudo thread or one between its making and its start.
EventCleared ==
    (\A c \in Cancellers : cancelPc[c] = "idle") => ~cancelEvent

\* From the moment a cancel_checkpoints() call has set the event until it
\* returns, no checkpoint is started.
CancelHoldsExecution ==
    [][(\E c \in Cancellers : cancelPc[c] \in {"set", "join"}
                              /\ cancelPc'[c] \in {"set", "join"})
            => executing' \in {executing, None}]_vars

\* A checkpoint thread always comes to its end, and a run that was given one
\* has then reported.
ThreadReports ==
    (pc = "created") ~> (pc = "idle" /\ threadRun # 0 /\ results[threadRun] # "none")

\* cancel_checkpoints() always returns or raises, also the call that meets a
\* thread that is not started.
CancelReturns ==
    \A c \in Cancellers :
        (cancelPc[c] \in {"set", "join", "clear"}) ~> (cancelPc[c] \in {"idle", "raised"})

================================================================================
