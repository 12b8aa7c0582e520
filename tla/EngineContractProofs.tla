-------------------------- MODULE EngineContractProofs -------------------------
(***************************************************************************)
(* The engine implements EngineContract, when it stops on errors and is    *)
(* driven with a callback: the initial state maps to the initial state of  *)
(* the contract, and every step to one of its steps or to none.            *)
(***************************************************************************)
EXTENDS InstallEngineProofs, EngineRefinement

\* What the mapping needs to know besides the invariants of the other proofs:
\* a run has not reported before its callback, none of a later number has
\* reported at all, and a report fits what is left of the list.
ReportOnce ==
    /\ \A r \in 1 .. MaxRuns : r > run => results[r] = "none"
    /\ pc # "idle" => threadRun = run
    /\ pc \in Places \ {"idle", "exiting"} => results[threadRun] = "none"
    /\ pc = "exiting" => results[threadRun] # "none"

ReportFits ==
    /\ pc = "idle" => failed = <<>>
    /\ pc \in {"finish", "callback"} =>
           /\ status = "EXEC_SUCCESS" => pos = Len(execList) + 1
           /\ status = "EXEC_FAILED" => Blamed

\* The invariants of the other proofs, together.
EngineInv == TypeOK /\ OrderInv /\ ReportInv /\ AskedInv

--------------------------------------------------------------------------------
(* What the contract sees of a state                                        *)

\* A run that has not failed blames nobody.
LEMMA NoBlame == ASSUME failed = <<>> PROVE ~Blamed
BY DEF Blamed

LEMMA NoBlameNext == ASSUME failed' = <<>> PROVE ~Blamed'
BY DEF Blamed

\* While an engine that stops on errors is at work, nothing has failed.
LEMMA ActiveClean ==
    ASSUME EngineInv, pc \in Active
    PROVE  status = "EXEC_SUCCESS" /\ failed = <<>>
BY DEF EngineInv, OrderInv, ReportInv, RunSoFar

\* An internal error blames no checkpoint.
LEMMA FatalNoBlame ==
    ASSUME EngineInv, pc \in Active, FatalInternal, "FATAL_INTERNAL" \notin Names
    PROVE  ~Blamed'
<1>1. failed' = <<"FATAL_INTERNAL">> \o <<>>
  BY ActiveClean DEF FatalInternal
<1>2. Len(failed') = 1 /\ failed'[1] = "FATAL_INTERNAL"
  BY <1>1
<1>3. QED
  BY <1>2 DEF Blamed

\* Steps the contract does not see.
LEMMA StutterStep ==
    ASSUME Flags' = Flags, Rest' = Rest, Blamed' = Blamed,
           InProgress' = InProgress, targets' = targets, results' = results
    PROVE  UNCHANGED Abstract!contractVars
BY DEF Abstract!contractVars

LEMMA SameRun ==
    ASSUME pc # "idle", pc' # "idle", UNCHANGED <<completed, execList, pos, threadRun>>
    PROVE  Flags' = Flags /\ Rest' = Rest /\ InProgress' = InProgress
BY DEF Flags, Rest, InProgress

--------------------------------------------------------------------------------
(* The invariant                                                            *)

LEMMA MappingInit == ASSUME Init PROVE ReportOnce /\ ReportFits
BY DEF Init, ReportOnce, ReportFits

\* The calls of the application, up to the start of a thread.
LEMMA MappingApplication ==
    ASSUME EngineInv, ReportOnce, ReportFits, Application, ~StartThread
    PROVE  ReportOnce' /\ ReportFits'
<1>1. pc = "idle" /\ results' = results
  BY ZenonT(120), AcceptedWhenIdle
     DEF EngineInv, Application, RegisterCheckpoint, CleanupCheckpoints,
         ExecuteCheckpoints, Continue, RollbackAndExecute, CreateThread
<1>2. CASE pc' = "idle" /\ failed' = failed /\ run' \in {run, run + 1}
  BY <1>1, <1>2 DEF ReportOnce, ReportFits, EngineInv, TypeOK, Places
<1>3. CASE /\ pc' = "created" /\ run' = run + 1 /\ threadRun' = run + 1
           /\ failed' = <<>> /\ run < MaxRuns
  <2>1. run + 1 \in 1 .. MaxRuns /\ run \in Nat /\ MaxRuns \in Nat
    BY <1>3, EngineAssumption DEF EngineInv, TypeOK
  <2>2. results[run + 1] = "none"
    BY <2>1 DEF ReportOnce
  <2>3. QED
    BY <1>1, <1>3, <2>1, <2>2 DEF ReportOnce, ReportFits
<1>4. CASE \/ \E n \in Names, before \in 0 .. Count : RegisterCheckpoint(n, before)
           \/ CleanupCheckpoints
  BY <1>1, <1>2, <1>4 DEF RegisterCheckpoint, CleanupCheckpoints
<1>5. CASE \E start \in 0 .. Count, pause \in 0 .. Count, mode \in Modes :
             ExecuteCheckpoints(start, pause, mode)
  <2>1. run < MaxRuns
    BY <1>5 DEF ExecuteCheckpoints
  <2>2. ASSUME NEW list, NEW mode, CreateThread(list, mode)
        PROVE  \/ pc' = pc /\ failed' = failed /\ run' = run + 1
               \/ /\ pc' = "created" /\ run' = run + 1 /\ threadRun' = run + 1
                  /\ failed' = <<>>
    BY <2>2 DEF CreateThread
  <2>3. \/ pc' = pc /\ failed' = failed /\ run' \in {run, run + 1}
        \/ /\ pc' = "created" /\ run' = run + 1 /\ threadRun' = run + 1
           /\ failed' = <<>>
    <3>1. PICK start \in 0 .. Count, pause \in 0 .. Count, mode \in Modes,
               first \in 1 .. Count + 1 :
            \/ Continue(first, start, pause, mode)
            \/ RollbackAndExecute(first, start, pause, mode)
      BY <1>5 DEF ExecuteCheckpoints
    <3>2. CASE Continue(first, start, pause, mode)
      BY <3>2, <2>2 DEF Continue
    <3>3. CASE RollbackAndExecute(first, start, pause, mode)
      BY <3>3, <2>2 DEF RollbackAndExecute
    <3>4. QED
      BY <3>1, <3>2, <3>3
  <2>4. QED
    BY <1>1, <1>2, <1>3, <2>1, <2>3
<1>6. QED
  BY <1>4, <1>5 DEF Application

LEMMA MappingStarted ==
    ASSUME ReportOnce, ReportFits, StartThread
    PROVE  ReportOnce' /\ ReportFits'
BY DEF StartThread, ReportOnce, ReportFits, Places, runVars

\* The checkpoint thread.
LEMMA OnceThread ==
    ASSUME EngineInv, ReportOnce, CheckpointThread
    PROVE  ReportOnce'
<1> USE DEF runVars
<1>1. thread # "pseudo" /\ pc # "idle" /\ pc \in Places
  BY DEF EngineInv, OrderInv, TypeOK, CheckpointThread, LoadCheckpoints, TakeNext,
         PreSnapshot, CheckpointReturns, CheckpointRaises, CheckpointRaisesGoOn,
         PostSnapshot, Finish, Callback, Exit
<1>2. /\ threadRun = run /\ threadRun \in 1 .. MaxRuns
      /\ results \in [1 .. MaxRuns -> Statuses \cup {"none"}] /\ run \in Nat
  BY <1>1 DEF ReportOnce, EngineInv, TypeOK
<1>3. run' = run /\ threadRun' = threadRun
  BY DEF CheckpointThread, LoadCheckpoints, TakeNext,
         PreSnapshot, CheckpointReturns, CheckpointRaises, CheckpointRaisesGoOn,
         PostSnapshot, Finish, Callback, Exit
<1>4. CASE results' = results
  <2>1. pc # "exiting" => pc' \in Places \ {"idle", "exiting"}
    BY <1>1, <1>2, <1>4
       DEF CheckpointThread, LoadCheckpoints, TakeNext, FatalInternal,
           PreSnapshot, CheckpointReturns, CheckpointRaises, CheckpointRaisesGoOn,
           PostSnapshot, Finish, Callback, Exit, Places, Report, Statuses,
           ReportOnce, EngineInv, TypeOK
  <2>2. pc = "exiting" => pc' = "idle"
    BY DEF CheckpointThread, LoadCheckpoints, TakeNext,
           PreSnapshot, CheckpointReturns, CheckpointRaises, CheckpointRaisesGoOn,
           PostSnapshot, Finish, Callback, Exit
  <2>3. QED
    BY <1>1, <1>2, <1>3, <1>4, <2>1, <2>2 DEF ReportOnce, Places
<1>5. CASE results' # results
  <2>1. pc' = "exiting" /\ \E s \in Statuses : Report(s)
    BY <1>1, <1>5
       DEF CheckpointThread, LoadCheckpoints, TakeNext,
           PreSnapshot, CheckpointReturns, CheckpointRaises, CheckpointRaisesGoOn,
           PostSnapshot, Finish, Callback, Exit, Statuses, EngineInv, TypeOK
  <2>2. PICK s \in Statuses : results' = [results EXCEPT ![threadRun] = s]
    BY <2>1 DEF Report
  <2>3. results'[threadRun] # "none"
    BY <1>2, <2>2 DEF Statuses
  <2>4. \A r \in 1 .. MaxRuns : r > run => results'[r] = "none"
    BY <1>2, <2>2 DEF ReportOnce
  <2>5. QED
    BY <1>2, <1>3, <2>1, <2>3, <2>4 DEF ReportOnce
<1>6. QED
  BY <1>4, <1>5

LEMMA FitsThread ==
    ASSUME EngineInv, ReportFits, StopOnError, CheckpointThread
    PROVE  ReportFits'
<1> USE DEF runVars, cpVars
<1>1. thread # "pseudo"
  BY DEF EngineInv, OrderInv
<1>2. CASE LoadCheckpoints \/ CheckpointReturns \/ Callback \/ Exit
  BY <1>2 DEF LoadCheckpoints, CheckpointReturns, Callback, Exit, ForgetLocals, ReportFits
<1>3. CASE FatalInternal
  BY <1>3 DEF FatalInternal, ReportFits
<1>4. CASE TakeNext /\ ~FatalInternal
  <2>1. pc = "loop" /\ UNCHANGED <<execList, pos>>
    BY <1>4 DEF TakeNext
  <2>2. pos \in 1 .. Len(execList) + 1 /\ Len(execList) \in Nat
    BY DEF EngineInv, TypeOK
  <2>3. CASE pos > Len(execList)
    <3>1. pc' = "finish" /\ status' = status
      BY <1>4, <2>2, <2>3 DEF TakeNext
    <3>2. status = "EXEC_SUCCESS"
      BY <2>1, ActiveClean DEF Active
    <3>3. pos = Len(execList) + 1
      BY <2>2, <2>3
    <3>4. QED
      BY <2>1, <3>1, <3>2, <3>3 DEF ReportFits
  <2>4. CASE pos <= Len(execList)
    <3>1. \/ pc' = "finish" /\ status' = "EXEC_CANCELED"
          \/ pc' \in {"presnap", "exec"}
      BY <1>4, <2>2, <2>4 DEF TakeNext
    <3>2. QED
      BY <3>1 DEF ReportFits
  <2>5. QED
    BY <2>2, <2>3, <2>4
<1>5. CASE (PreSnapshot \/ PostSnapshot) /\ ~FatalInternal
  BY <1>5 DEF PreSnapshot, PostSnapshot, ReportFits
<1>6. CASE CheckpointRaises
  <2>1. /\ pc = "exec" /\ pc' = "finish" /\ status' = "EXEC_FAILED"
        /\ failed' = Append(failed, executing) /\ completed' = completed
    BY <1>1, <1>6 DEF CheckpointRaises
  <2>2. failed = <<>>
    BY <2>1, ActiveClean DEF Active
  <2>3. Len(failed') = 1 /\ failed'[1] = executing
    BY <2>1, <2>2
  <2>4. executing \in Names /\ ~completed[executing]
    <3>1. PICK b \in 0 .. Count : RunAt(b)
      BY <2>1 DEF EngineInv, OrderInv, Active
    <3>2. /\ b + pos \in 1 .. Count /\ executing = checkpoints[b + pos]
          /\ executing \in Names /\ IsFirstIncomplete(b + pos)
      BY <2>1, <3>1, RunPosition DEF EngineInv
    <3>3. QED
      BY <3>2 DEF IsFirstIncomplete, Done
  <2>5. Blamed'
    BY <2>1, <2>3, <2>4 DEF Blamed
  <2>6. QED
    BY <2>1, <2>5 DEF ReportFits
<1>7. CASE CheckpointRaisesGoOn
  BY <1>7 DEF CheckpointRaisesGoOn
<1>8. CASE Finish
  <2>1. /\ pc = "finish" /\ pc' = "callback"
        /\ UNCHANGED <<completed, execList, pos, status, failed>>
    BY <1>1, <1>8 DEF Finish
  <2>2. Blamed' = Blamed
    BY <2>1 DEF Blamed
  <2>3. QED
    BY <2>1, <2>2 DEF ReportFits
<1>9. QED
  BY <1>2, <1>3, <1>4, <1>5, <1>6, <1>7, <1>8 DEF CheckpointThread

LEMMA MappingInvariant ==
    ASSUME EngineInv, ReportOnce, ReportFits, StopOnError, [Next]_vars
    PROVE  ReportOnce' /\ ReportFits'
<1>1. CASE Application
  BY <1>1, MappingApplication, MappingStarted
<1>2. CASE CheckpointThread
  BY <1>2, OnceThread, FitsThread
<1>3. CASE (\E c \in Cancellers : CancelCheckpoints(c) \/ CancelStep(c)) \/ UNCHANGED vars
  <2>1. UNCHANGED <<completed, execList, pos, pc, threadRun, status, failed, run, results>>
    BY <1>3 DEF CancelCheckpoints, CancelStep, CancelRead, CancelJoined, CancelClear,
                cpVars, runVars, vars
  <2>2. Blamed' = Blamed
    BY <2>1 DEF Blamed
  <2>3. QED
    BY <2>1, <2>2 DEF ReportOnce, ReportFits
<1>4. QED
  BY <1>1, <1>2, <1>3 DEF Next

--------------------------------------------------------------------------------
(* Every step is one of the contract's                                      *)

\* Between runs flags are only taken away.
LEMMA ForgetStep ==
    ASSUME ReportFits, pc = "idle", pc' = "idle",
           UNCHANGED <<failed, targets, results>>,
           \A n \in Names : completed'[n] => completed[n]
    PROVE  Abstract!ContractNext
<1>1. InProgress = 0 /\ InProgress' = 0 /\ Rest' = Rest /\ Flags' \subseteq Flags
  BY DEF InProgress, Rest, Flags
<1>2. ~Blamed /\ ~Blamed'
  BY NoBlame, NoBlameNext DEF ReportFits
<1>3. Blamed' = Blamed
  BY <1>2 DEF Blamed
<1>4. Abstract!Forget
  BY <1>1, <1>3 DEF Abstract!Forget
<1>5. QED
  BY <1>4 DEF Abstract!ContractNext

\* A list is handed to a thread.
LEMMA AcceptStep ==
    ASSUME EngineInv, ReportOnce, ReportFits, pc = "idle", run < MaxRuns,
           NEW start \in 1 .. Count, NEW pause \in 0 .. Count, NEW mode,
           pause # 0 => pause >= start,
           CreateThread(ExecList(start, pause), mode),
           \A n \in Names : completed'[n] => completed[n],
           ~completed'[checkpoints[start]]
    PROVE  Abstract!ContractNext
<1> DEFINE list == ExecList(start, pause)
<1>1. /\ list \in Seq(Names)
      /\ \A i \in 1 .. Len(list) : list[i] = checkpoints[start + i - 1]
  <2>1. checkpoints \in Seq(Names)
    BY DEF EngineInv, TypeOK
  <2>2. QED
    BY <2>1, ExecListType
<1>2. start \in Nat
  BY DEF EngineInv, TypeOK, Count
<1> HIDE DEF list
<1>3. CASE list = <<>>
  <2>1. pc' = "idle" /\ UNCHANGED <<failed, targets, results>>
    BY <1>3 DEF CreateThread, cancelVars, list
  <2>2. QED
    BY <2>1, ForgetStep
<1>4. CASE list # <<>>
  <2>1. /\ pc' = "created" /\ threadRun' = run + 1 /\ execList' = list /\ pos' = 1
        /\ failed' = <<>> /\ UNCHANGED <<targets, results>>
    BY <1>4 DEF CreateThread, cancelVars, list
  <2>2. run + 1 \in 1 .. MaxRuns /\ run + 1 > run
    BY EngineAssumption DEF EngineInv, TypeOK
  <2>3. results[run + 1] = "none"
    BY <2>2 DEF ReportOnce
  <2>4. Rest' = list
    BY <1>1, <2>1, SubSeqFull DEF Rest
  <2>5. list[1] = checkpoints[start]
    BY <1>1, <1>2, <1>4
  <2>6. /\ InProgress = 0 /\ InProgress' = run + 1 /\ Flags' \subseteq Flags
        /\ list[1] \notin Flags'
    BY <2>1, <2>5 DEF InProgress, Flags
  <2>7. Blamed' = FALSE
    BY <2>1, NoBlameNext DEF Blamed
  <2>8. Abstract!Accept(run + 1)
    BY <1>1, <1>4, <2>1, <2>3, <2>4, <2>6, <2>7 DEF Abstract!Accept
  <2>9. QED
    BY <2>2, <2>8 DEF Abstract!ContractNext
<1>5. QED
  BY <1>3, <1>4

\* A rollback of an engine whose completed checkpoints are a prefix takes flags
\* away and sets none.
LEMMA RollbackForgets ==
    ASSUME EngineInv, NEW start \in 1 .. Count, Done(start),
           completed' = RolledBack(start)
    PROVE  /\ \A n \in Names : completed'[n] => completed[n]
           /\ ~completed'[checkpoints[start]]
<1>1. Count \in Nat /\ \A i \in 1 .. Count : checkpoints[i] \in Names
  BY DEF EngineInv, TypeOK, Count
<1>2. ASSUME NEW n \in Names, completed'[n]
      PROVE  completed[n]
  <2>1. CASE \E i \in 1 .. Count : checkpoints[i] = n
    <3>1. PICK i \in 1 .. start - 1 : checkpoints[i] = n
      BY <1>2, <2>1 DEF RolledBack
    <3>2. i \in 1 .. Count /\ i < start
      BY <1>1
    <3>3. Done(i)
      BY <3>2 DEF EngineInv, OrderInv, CompletedPrefix
    <3>4. QED
      BY <3>1, <3>3 DEF Done
  <2>2. CASE ~\E i \in 1 .. Count : checkpoints[i] = n
    BY <1>2, <2>2 DEF RolledBack
  <2>3. QED
    BY <2>1, <2>2
<1>3. ~completed'[checkpoints[start]]
  <2>1. checkpoints[start] \in Names /\ \E i \in 1 .. Count : checkpoints[i] = checkpoints[start]
    BY <1>1
  <2>2. ~\E i \in 1 .. start - 1 : checkpoints[i] = checkpoints[start]
    <3> SUFFICES ASSUME NEW i \in 1 .. start - 1, checkpoints[i] = checkpoints[start]
                 PROVE  FALSE
      OBVIOUS
    <3>1. i \in 1 .. Count /\ i # start
      BY <1>1
    <3>2. QED
      BY <3>1 DEF EngineInv, TypeOK
  <2>3. QED
    BY <2>1, <2>2 DEF RolledBack
<1>4. QED
  BY <1>2, <1>3

LEMMA ApplicationStep ==
    ASSUME EngineInv, ReportOnce, ReportFits, Application, ~StartThread
    PROVE  Abstract!ContractNext
<1>1. ASSUME NEW n \in Names, NEW before \in 0 .. Count, RegisterCheckpoint(n, before)
      PROVE  Abstract!ContractNext
  <2>1. pc = "idle" /\ pc' = "idle" /\ UNCHANGED <<failed, targets, results>>
    BY <1>1, AcceptedWhenIdle DEF EngineInv, RegisterCheckpoint, cancelVars
  <2>2. completed' = [completed EXCEPT ![n] = FALSE]
    BY <1>1 DEF RegisterCheckpoint
  <2>3. \A k \in Names : completed'[k] => completed[k]
    BY <2>2 DEF EngineInv, TypeOK
  <2>4. QED
    BY <2>1, <2>3, ForgetStep
<1>2. CASE CleanupCheckpoints
  <2>1. pc = "idle" /\ pc' = "idle" /\ UNCHANGED <<failed, targets, results>>
    BY <1>2, AcceptedWhenIdle DEF EngineInv, CleanupCheckpoints, cancelVars
  <2>2. \A k \in Names : completed'[k] => completed[k]
    BY <1>2 DEF CleanupCheckpoints
  <2>3. QED
    BY <2>1, <2>2, ForgetStep
<1>3. ASSUME NEW start \in 0 .. Count, NEW pause \in 0 .. Count, NEW mode \in Modes,
             ExecuteCheckpoints(start, pause, mode)
      PROVE  Abstract!ContractNext
  <2>1. pc = "idle" /\ run < MaxRuns /\ Count \in Nat
    BY <1>3 DEF ExecuteCheckpoints, EngineInv, TypeOK, Count
  <2>2. PICK first \in 1 .. Count + 1 :
            /\ IsFirstIncomplete(first)
            /\ \/ Continue(first, start, pause, mode)
               \/ RollbackAndExecute(first, start, pause, mode)
    BY <1>3 DEF ExecuteCheckpoints
  <2>3. CASE Continue(first, start, pause, mode)
    <3>1. completed' = completed
      BY <2>3 DEF Continue
    <3>2. CASE first > Count
      <4>1. pc' = "idle" /\ UNCHANGED <<failed, targets, results>>
        BY <2>1, <2>3, <3>2 DEF Continue, CreateThread, cancelVars
      <4>2. QED
        BY <2>1, <3>1, <4>1, ForgetStep
    <3>3. CASE first <= Count
      <4>1. /\ first \in 1 .. Count /\ (pause # 0 => pause >= first)
            /\ CreateThread(ExecList(first, pause), mode)
        BY <2>1, <2>3, <3>3 DEF Continue, ExecListOk
      <4>2. ~completed[checkpoints[first]]
        BY <2>2, <3>3 DEF IsFirstIncomplete, Done
      <4>3. QED
        BY <2>1, <3>1, <4>1, <4>2, AcceptStep
    <3>4. QED
      BY <2>1, <3>2, <3>3
  <2>4. CASE RollbackAndExecute(first, start, pause, mode)
    <3>1. start \in 1 .. Count /\ Done(start) /\ completed' = RolledBack(start)
      BY <2>1, <2>4 DEF RollbackAndExecute, CanRollback
    <3>2. /\ \A n \in Names : completed'[n] => completed[n]
          /\ ~completed'[checkpoints[start]]
      BY <3>1, RollbackForgets
    <3>3. CASE ExecListOk(start, pause, RolledBack(start))
      <4>1. /\ pause # 0 => pause >= start
            /\ CreateThread(ExecList(start, pause), mode)
        BY <2>4, <3>3 DEF RollbackAndExecute, ExecListOk
      <4>2. QED
        BY <2>1, <3>1, <3>2, <4>1, AcceptStep
    <3>4. CASE ~ExecListOk(start, pause, RolledBack(start))
      <4>1. pc' = "idle" /\ UNCHANGED <<failed, targets, results>>
        BY <2>1, <2>4, <3>4 DEF RollbackAndExecute, cancelVars
      <4>2. QED
        BY <2>1, <3>2, <4>1, ForgetStep
    <3>5. QED
      BY <3>3, <3>4
  <2>5. QED
    BY <2>2, <2>3, <2>4
<1>4. QED
  BY <1>1, <1>2, <1>3 DEF Application

\* The steps of the checkpoint thread, one lemma for each that shows.
LEMMA TakeNextStep ==
    ASSUME EngineInv, TakeNext, "FATAL_INTERNAL" \notin Names
    PROVE  UNCHANGED Abstract!contractVars
<1>1. /\ pc = "loop" /\ pc' # "idle" /\ UNCHANGED <<targets, results>>
      /\ UNCHANGED <<completed, execList, pos, threadRun>>
  BY DEF TakeNext, FatalInternal, cpVars, runVars, cancelVars
<1>2. Flags' = Flags /\ Rest' = Rest /\ InProgress' = InProgress
  BY <1>1, SameRun
<1>3. failed = <<>> /\ status = "EXEC_SUCCESS"
  BY <1>1, ActiveClean DEF Active
<1>4. ~Blamed'
  <2>1. CASE FatalInternal
    BY <1>1, <2>1, FatalNoBlame DEF Active
  <2>2. CASE failed' = failed
    BY <1>3, <2>2, NoBlameNext
  <2>3. CASE failed' = Append(failed, executing) /\ executing # None
    <3>1. Len(failed') = 1 /\ failed'[1] = executing
      BY <1>3, <2>3
    <3>2. pos \in 1 .. Len(execList) + 1 /\ Len(execList) \in Nat
      BY DEF EngineInv, TypeOK
    <3>3. pos > 1 /\ executing = execList[pos - 1]
      BY <1>1, <2>3, <3>2 DEF EngineInv, ReportInv, ExecutingLast
    <3>4. completed[execList[pos - 1]]
      BY <1>1, <1>3, <3>2, <3>3 DEF EngineInv, ReportInv, Active, RunSoFar
    <3>5. QED
      BY <1>1, <3>1, <3>3, <3>4 DEF Blamed
  <2>4. QED
    BY <2>1, <2>2, <2>3 DEF TakeNext
<1>5. Blamed' = Blamed
  BY <1>3, <1>4, NoBlame DEF Blamed
<1>6. QED
  BY <1>1, <1>2, <1>5, StutterStep

LEMMA SnapshotStep ==
    ASSUME EngineInv, PreSnapshot \/ PostSnapshot, "FATAL_INTERNAL" \notin Names
    PROVE  UNCHANGED Abstract!contractVars
<1>1. /\ pc \in {"presnap", "postsnap"} /\ pc' # "idle" /\ UNCHANGED <<targets, results>>
      /\ UNCHANGED <<completed, execList, pos, threadRun>>
      /\ FatalInternal \/ failed' = failed
  BY DEF PreSnapshot, PostSnapshot, FatalInternal, cpVars, runVars, cancelVars
<1>2. Flags' = Flags /\ Rest' = Rest /\ InProgress' = InProgress
  BY <1>1, SameRun
<1>3. failed = <<>>
  BY <1>1, ActiveClean DEF Active
<1>4. ~Blamed'
  BY <1>1, <1>3, FatalNoBlame, NoBlameNext DEF Active
<1>5. Blamed' = Blamed
  BY <1>3, <1>4, NoBlame DEF Blamed
<1>6. QED
  BY <1>1, <1>2, <1>5, StutterStep

LEMMA ReturnsStep ==
    ASSUME EngineInv, CheckpointReturns
    PROVE  Abstract!Complete
<1>1. /\ pc = "exec" /\ pc' # "idle" /\ UNCHANGED <<targets, results, execList, threadRun>>
      /\ failed' = failed /\ pos' = pos + 1
      /\ completed' = [completed EXCEPT ![executing] = TRUE]
  BY DEF CheckpointReturns, Record, runVars, cancelVars
<1>2. /\ pos \in 1 .. Len(execList) /\ execList \in Seq(Names)
      /\ executing = execList[pos] /\ executing \in Names
      /\ completed \in [Names -> BOOLEAN] /\ threadRun \in 1 .. MaxRuns
  BY <1>1 DEF EngineInv, TypeOK
<1>3. /\ Head(Rest) = executing
      /\ Tail(Rest) = SubSeq(execList, pos + 1, Len(execList))
  <2>1. Len(execList) \in pos .. Len(execList)
    BY <1>2
  <2>2. Rest = SubSeq(execList, pos, Len(execList))
    BY <1>1 DEF Rest
  <2>3. QED
    BY <1>2, <2>1, <2>2, HeadTailOfSubSeq
<1>4. Rest # <<>>
  <2>1. Rest = SubSeq(execList, pos, Len(execList))
    BY <1>1 DEF Rest
  <2>2. Len(Rest) = Len(execList) - pos + 1
    BY <1>2, <2>1
  <2>3. QED
    BY <1>2, <2>2
<1>5. Rest' = Tail(Rest)
  BY <1>1, <1>3 DEF Rest
<1>6. Flags' = Flags \cup {Head(Rest)}
  BY <1>1, <1>2, <1>3 DEF Flags
<1>7. InProgress' = InProgress /\ InProgress # 0
  BY <1>1, <1>2 DEF InProgress
<1>8. Blamed' = Blamed
  <2>1. failed = <<>>
    BY <1>1, ActiveClean DEF Active
  <2>2. ~Blamed /\ ~Blamed'
    BY <1>1, <2>1, NoBlame, NoBlameNext
  <2>3. QED
    BY <2>2 DEF Blamed
<1>9. QED
  BY <1>1, <1>4, <1>5, <1>6, <1>7, <1>8 DEF Abstract!Complete

LEMMA RaisesStep ==
    ASSUME EngineInv, ReportFits', CheckpointRaises
    PROVE  Abstract!Fail
<1>1. /\ pc = "exec" /\ pc' = "finish" /\ status' = "EXEC_FAILED"
      /\ UNCHANGED <<targets, results>>
      /\ UNCHANGED <<completed, execList, pos, threadRun>>
  BY DEF CheckpointRaises, EngineInv, OrderInv, cpVars, runVars, cancelVars
<1>2. Flags' = Flags /\ Rest' = Rest /\ InProgress' = InProgress
  BY <1>1, SameRun
<1>3. InProgress # 0
  BY <1>1 DEF InProgress, EngineInv, TypeOK
<1>4. Rest # <<>>
  <2>1. Rest = SubSeq(execList, pos, Len(execList))
    BY <1>1 DEF Rest
  <2>2. execList \in Seq(Names) /\ pos \in 1 .. Len(execList)
    BY <1>1 DEF EngineInv, TypeOK
  <2>3. Len(Rest) = Len(execList) - pos + 1
    BY <2>1, <2>2
  <2>4. QED
    BY <2>2, <2>3
<1>5. Blamed' = TRUE
  BY <1>1 DEF ReportFits, Blamed
<1>6. QED
  BY <1>1, <1>2, <1>3, <1>4, <1>5 DEF Abstract!Fail

LEMMA LoadStep ==
    ASSUME EngineInv, ReportOnce, LoadCheckpoints
    PROVE  Abstract!ContractNext \/ UNCHANGED Abstract!contractVars
<1>1. /\ pc = "load" /\ pc' # "idle" /\ targets' = targets /\ failed' = failed
      /\ UNCHANGED <<completed, execList, pos, threadRun>>
      /\ results' = results \/ Report("CP_INIT_FAILED")
  BY DEF LoadCheckpoints, cpVars, runVars, cancelVars
<1>2. Flags' = Flags /\ Rest' = Rest /\ InProgress' = InProgress
  BY <1>1, SameRun
<1>3. Blamed' = Blamed
  BY <1>1 DEF Blamed
<1>4. CASE results' = results
  BY <1>1, <1>2, <1>3, <1>4, StutterStep
<1>5. CASE Report("CP_INIT_FAILED")
  <2>1. InProgress # 0 /\ InProgress = threadRun /\ results[threadRun] = "none"
    BY <1>1 DEF InProgress, EngineInv, TypeOK, ReportOnce, Places
  <2>2. Abstract!Report("CP_INIT_FAILED")
    BY <1>1, <1>2, <1>3, <1>5, <2>1 DEF Abstract!Report, Report
  <2>3. "CP_INIT_FAILED" \in Abstract!Statuses
    BY DEF Abstract!Statuses
  <2>4. QED
    BY <2>2, <2>3 DEF Abstract!ContractNext
<1>6. QED
  BY <1>1, <1>4, <1>5

\* The report is one the contract allows: this is where the invariants of all
\* the proofs come together.
LEMMA CallbackStep ==
    ASSUME EngineInv, ReportOnce, ReportFits, Callback
    PROVE  \E s \in Abstract!Statuses : Abstract!Report(s)
<1>1. /\ pc = "callback" /\ pc' # "idle" /\ targets' = targets /\ failed' = failed
      /\ UNCHANGED <<completed, execList, pos, threadRun>>
      /\ Report(status)
  BY DEF Callback, cpVars, runVars, cancelVars
<1>2. Flags' = Flags /\ Rest' = Rest /\ InProgress' = InProgress
  BY <1>1, SameRun
<1>3. Blamed' = Blamed
  BY <1>1 DEF Blamed
<1>4. InProgress # 0 /\ InProgress = threadRun /\ results[threadRun] = "none"
  BY <1>1 DEF InProgress, EngineInv, TypeOK, ReportOnce, Places
<1>5. status \in Abstract!Statuses
  BY DEF Abstract!Statuses, Statuses, EngineInv, TypeOK
<1>6. \/ status = "EXEC_SUCCESS" /\ Rest = <<>> /\ ~Blamed
      \/ status = "EXEC_FAILED" /\ Blamed
      \/ status = "EXEC_CANCELED" /\ InProgress \in targets
      \/ status \in {"FATAL_INTERNAL", "CP_INIT_FAILED"}
  <2>1. CASE status = "EXEC_SUCCESS"
    <3>1. pos = Len(execList) + 1 /\ failed = <<>>
      BY <1>1, <2>1 DEF ReportFits, EngineInv, ReportInv, Claim
    <3>2. Rest = SubSeq(execList, pos, Len(execList)) /\ Len(execList) \in Nat
      BY <1>1 DEF Rest, EngineInv, TypeOK
    <3>3. Rest = <<>>
      BY <3>1, <3>2, SubSeqEmpty
    <3>4. QED
      BY <2>1, <3>1, <3>3, NoBlame
  <2>2. CASE status = "EXEC_FAILED"
    BY <1>1, <2>2 DEF ReportFits
  <2>3. CASE status = "EXEC_CANCELED"
    BY <1>4, <2>3 DEF EngineInv, AskedInv
  <2>4. QED
    BY <2>1, <2>2, <2>3 DEF Statuses, EngineInv, TypeOK
<1>7. Abstract!Report(status)
  BY <1>1, <1>2, <1>3, <1>4, <1>6 DEF Abstract!Report, Report
<1>8. QED
  BY <1>5, <1>7

LEMMA ExitStep ==
    ASSUME EngineInv, ReportOnce, Exit
    PROVE  Abstract!End
<1>1. /\ pc = "exiting" /\ pc' = "idle" /\ failed' = <<>>
      /\ UNCHANGED <<completed, targets, results>>
  BY DEF Exit, ForgetLocals, cpVars, cancelVars
<1>2. InProgress # 0 /\ InProgress = threadRun /\ results[threadRun] # "none"
  BY <1>1 DEF InProgress, EngineInv, TypeOK, ReportOnce
<1>3. InProgress' = 0 /\ Rest' = <<>> /\ Flags' = Flags
  BY <1>1 DEF InProgress, Rest, Flags
<1>4. Blamed' = FALSE
  BY <1>1, NoBlameNext DEF Blamed
<1>5. QED
  BY <1>1, <1>2, <1>3, <1>4 DEF Abstract!End

LEMMA FinishStep ==
    ASSUME EngineInv, Finish
    PROVE  UNCHANGED Abstract!contractVars
<1>1. /\ pc = "finish" /\ pc' # "idle" /\ UNCHANGED <<targets, results, failed>>
      /\ UNCHANGED <<completed, execList, pos, threadRun>>
  BY DEF Finish, EngineInv, OrderInv, cpVars, cancelVars
<1>2. Flags' = Flags /\ Rest' = Rest /\ InProgress' = InProgress
  BY <1>1, SameRun
<1>3. Blamed' = Blamed
  BY <1>1 DEF Blamed
<1>4. QED
  BY <1>1, <1>2, <1>3, StutterStep

LEMMA CancelShows ==
    ASSUME EngineInv, NEW c \in Cancellers, CancelCheckpoints(c) \/ CancelStep(c)
    PROVE  Abstract!AskCancel \/ UNCHANGED Abstract!contractVars
<1>1. /\ UNCHANGED <<completed, pc, execList, pos, threadRun, failed, results>>
      /\ \/ targets' = targets
         \/ pc # "idle" /\ targets' = targets \cup {threadRun}
  BY DEF CancelCheckpoints, CancelStep, CancelRead, CancelJoined, CancelClear,
         cpVars, runVars
<1>2. Flags' = Flags /\ Rest' = Rest /\ InProgress' = InProgress /\ Blamed' = Blamed
  BY <1>1 DEF Flags, Rest, InProgress, Blamed
<1>3. CASE targets' = targets
  BY <1>1, <1>2, <1>3, StutterStep
<1>4. CASE pc # "idle" /\ targets' = targets \cup {threadRun}
  <2>1. InProgress # 0 /\ InProgress = threadRun
    BY <1>4 DEF InProgress, EngineInv, TypeOK
  <2>2. Abstract!AskCancel
    BY <1>1, <1>2, <1>4, <2>1 DEF Abstract!AskCancel
  <2>3. QED
    BY <2>2
<1>5. QED
  BY <1>1, <1>3, <1>4

\* Every step of the engine is a step of its contract, or is not seen by it.
LEMMA ContractStep ==
    ASSUME EngineInv, ReportOnce, ReportFits, ReportFits', StopOnError,
           "FATAL_INTERNAL" \notin Names, [Next]_vars
    PROVE  [Abstract!ContractNext]_Abstract!contractVars
<1>1. CASE Application
  <2>1. CASE StartThread
    <3>1. /\ pc = "created" /\ pc' = "load" /\ UNCHANGED <<targets, results, failed>>
          /\ UNCHANGED <<completed, execList, pos, threadRun>>
      BY <2>1 DEF StartThread, cpVars, runVars, cancelVars
    <3>2. Flags' = Flags /\ Rest' = Rest /\ InProgress' = InProgress /\ Blamed' = Blamed
      BY <3>1, SameRun DEF Blamed
    <3>3. QED
      BY <3>1, <3>2, StutterStep
  <2>2. QED
    BY <1>1, <2>1, ApplicationStep
<1>2. CASE CheckpointThread
  <2>1. CASE LoadCheckpoints
    BY <2>1, LoadStep
  <2>2. CASE TakeNext
    BY <2>2, TakeNextStep
  <2>3. CASE PreSnapshot \/ PostSnapshot
    BY <2>3, SnapshotStep
  <2>4. CASE CheckpointReturns
    BY <2>4, ReturnsStep DEF Abstract!ContractNext
  <2>5. CASE CheckpointRaises
    BY <2>5, RaisesStep DEF Abstract!ContractNext
  <2>6. CASE CheckpointRaisesGoOn
    BY <2>6 DEF CheckpointRaisesGoOn
  <2>7. CASE Finish
    BY <2>7, FinishStep
  <2>8. CASE Callback
    BY <2>8, CallbackStep DEF Abstract!ContractNext
  <2>9. CASE Exit
    BY <2>9, ExitStep DEF Abstract!ContractNext
  <2>10. QED
    BY <1>2, <2>1, <2>2, <2>3, <2>4, <2>5, <2>6, <2>7, <2>8, <2>9 DEF CheckpointThread
<1>3. CASE \E c \in Cancellers : CancelCheckpoints(c) \/ CancelStep(c)
  BY <1>3, CancelShows DEF Abstract!ContractNext
<1>4. CASE UNCHANGED vars
  <2>1. UNCHANGED <<completed, pc, execList, pos, threadRun, failed, results, targets>>
    BY <1>4 DEF vars
  <2>2. Flags' = Flags /\ Rest' = Rest /\ InProgress' = InProgress /\ Blamed' = Blamed
    BY <2>1 DEF Flags, Rest, InProgress, Blamed
  <2>3. QED
    BY <2>1, <2>2, StutterStep
<1>5. QED
  BY <1>1, <1>2, <1>3, <1>4 DEF Next

--------------------------------------------------------------------------------
(* The theorems                                                             *)

LEMMA ContractInitial == ASSUME Init PROVE Abstract!ContractInit
<1>1. Flags = {} /\ Rest = <<>> /\ InProgress = 0 /\ targets = {}
      /\ results = [r \in 1 .. MaxRuns |-> "none"]
  BY DEF Init, Flags, Rest, InProgress
<1>2. Blamed = FALSE
  BY NoBlame DEF Init, Blamed
<1>3. QED
  BY <1>1, <1>2 DEF Abstract!ContractInit

\* The invariants of the other proofs hold together.
LEMMA EngineInvariant ==
    ASSUME StopOnError, "blocking" \notin Modes
    PROVE  Spec => []EngineInv
<1>1. Init => AskedInv /\ ReportInv
  BY AskedInit, ReportInit
<1>2. TypeOK /\ OrderInv /\ ReportInv /\ [Next]_vars => ReportInv'
  BY ReportNext
<1>3. TypeOK /\ AskedInv /\ [Next]_vars => AskedInv'
  <2>1. CASE UNCHANGED vars
    BY <2>1 DEF AskedInv, CanceledWasAsked, vars
  <2>2. QED
    BY <2>1, AskedApplication, AskedThread, AskedCancel DEF Next
<1>4. Spec => [](TypeOK /\ OrderInv)
  BY OrderInvariant
<1>5. EngineInv <=> TypeOK /\ OrderInv /\ ReportInv /\ AskedInv
  BY DEF EngineInv
<1>6. QED
  BY <1>1, <1>2, <1>3, <1>4, <1>5, PTL DEF Spec

\* An engine that stops on errors and has a callback implements its contract:
\* whatever the interleaving of the application, the checkpoint thread and any
\* number of cancelling threads, execute_checkpoints() runs its list in order,
\* completes what ended well and reports once, and truthfully.
THEOREM EngineImplementsContract ==
    ASSUME StopOnError, "blocking" \notin Modes, "FATAL_INTERNAL" \notin Names
    PROVE  Spec => ImplementsContract
<1>1. Init => Abstract!ContractInit /\ ReportOnce /\ ReportFits
  BY ContractInitial, MappingInit
<1>2. EngineInv /\ ReportOnce /\ ReportFits /\ [Next]_vars => ReportOnce' /\ ReportFits'
  BY MappingInvariant
<1>3. EngineInv /\ ReportOnce /\ ReportFits /\ ReportFits' /\ [Next]_vars
        => [Abstract!ContractNext]_Abstract!contractVars
  BY ContractStep
<1>4. Spec => []EngineInv
  BY EngineInvariant
<1>5. QED
  BY <1>1, <1>2, <1>3, <1>4, PTL DEF Spec, ImplementsContract, Abstract!ContractSpec

\* An engine that stops on errors and has a callback never starts a run behind a
\* checkpoint that is not completed.  With stop_on_error off it does: see
\* _rollback().
THEOREM ResumesAfterCompletedHolds ==
    ASSUME StopOnError, "blocking" \notin Modes
    PROVE  Spec => ResumesAfterCompleted
<1> DEFINE Starts ==
        pc = "idle" /\ pc' # "idle" =>
            \A i, j \in 1 .. Count :
                i < j /\ checkpoints[j] = execList'[1] => Done(i)
<1>1. ASSUME EngineInv, [Next]_vars
      PROVE  [Starts]_vars
  <2> SUFFICES ASSUME pc = "idle", pc' # "idle", NEW i \in 1 .. Count,
                      NEW j \in 1 .. Count, i < j, checkpoints[j] = execList'[1]
               PROVE  Done(i)
    OBVIOUS
  <2>1. Count \in Nat /\ checkpoints \in Seq(Names)
    BY <1>1 DEF EngineInv, TypeOK, Count
  <2>2. PICK start \in 0 .. Count, pause \in 0 .. Count, mode \in Modes,
             first \in 1 .. Count + 1 :
            /\ IsFirstIncomplete(first)
            /\ \/ Continue(first, start, pause, mode)
               \/ RollbackAndExecute(first, start, pause, mode)
    BY <1>1 DEF Next, Application, RegisterCheckpoint, CleanupCheckpoints,
                StartThread, ExecuteCheckpoints, CheckpointThread, LoadCheckpoints, TakeNext,
                PreSnapshot, CheckpointReturns, CheckpointRaises,
                CheckpointRaisesGoOn, PostSnapshot, Finish, Callback, Exit,
                CancelCheckpoints, CancelStep, CancelRead, CancelJoined,
                CancelClear, vars
  <2>3. ASSUME NEW k \in 1 .. Count, pause # 0 => pause >= k,
               CreateThread(ExecList(k, pause), mode)
        PROVE  j = k
    <3>1. execList' = ExecList(k, pause) /\ ExecList(k, pause) # <<>>
      BY <2>3 DEF CreateThread
    <3>2. /\ ExecList(k, pause) \in Seq(Names)
          /\ \A m \in 1 .. Len(ExecList(k, pause)) :
                ExecList(k, pause)[m] = checkpoints[k + m - 1]
      BY <2>1, <2>3, ExecListType
    <3>3. execList'[1] = checkpoints[k + 1 - 1] /\ k + 1 - 1 = k
      BY <2>1, <3>1, <3>2
    <3>4. QED
      BY <1>1, <3>3 DEF EngineInv, TypeOK
  <2>4. CASE Continue(first, start, pause, mode)
    <3>1. first <= Count
      BY <2>1, <2>4 DEF Continue, CreateThread
    <3>2. first \in 1 .. Count /\ j = first
      BY <2>1, <2>3, <2>4, <3>1 DEF Continue, ExecListOk
    <3>3. QED
      BY <2>1, <2>2, <3>2 DEF IsFirstIncomplete
  <2>5. CASE RollbackAndExecute(first, start, pause, mode)
    <3>1. start \in 1 .. Count /\ Done(start)
      BY <2>1, <2>5 DEF RollbackAndExecute, CanRollback
    <3>2. ExecListOk(start, pause, RolledBack(start))
      BY <2>5 DEF RollbackAndExecute
    <3>3. j = start
      BY <2>1, <2>3, <2>5, <3>1, <3>2 DEF RollbackAndExecute, ExecListOk
    <3>4. QED
      BY <1>1, <3>1, <3>3 DEF EngineInv, OrderInv, CompletedPrefix
  <2>6. QED
    BY <2>2, <2>4, <2>5
<1>2. Spec => []EngineInv
  BY EngineInvariant
<1>3. QED
  BY <1>1, <1>2, PTL DEF Spec, ResumesAfterCompleted

================================================================================
