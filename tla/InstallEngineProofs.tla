-------------------------- MODULE InstallEngineProofs --------------------------
(***************************************************************************)
(* Theorems about InstallEngine: for every set of names, every number of   *)
(* runs and every number of cancelling threads.  First the types, then     *)
(* cancel_checkpoints(): what a canceled run may report, and what one      *)
(* canceller can rely on.  Then the runs of an engine that is driven with  *)
(* a callback, as every installer with a user interface drives it: the     *)
(* order of execution and in-process rollback, and that what the engine    *)
(* tells its callback is true.                                             *)
(***************************************************************************)
EXTENDS InstallEngine, SequenceTheorems, TLAPS

--------------------------------------------------------------------------------
(* The operators on lists                                                   *)

\* A list with one more element is a list, and the element is at its place.
LEMMA InsertedType ==
    ASSUME NEW S, NEW s \in Seq(S), NEW e \in S, NEW i \in 1 .. Len(s) + 1
    PROVE  /\ Inserted(s, i, e) \in Seq(S)
           /\ Len(Inserted(s, i, e)) = Len(s) + 1
           /\ \A j \in 1 .. Len(s) + 1 :
                Inserted(s, i, e)[j] =
                    IF j < i THEN s[j] ELSE IF j = i THEN e ELSE s[j - 1]
<1> DEFINE f == Inserted(s, i, e)
<1>1. Len(s) \in Nat /\ DOMAIN s = 1 .. Len(s) /\ \A j \in 1 .. Len(s) : s[j] \in S
  OBVIOUS
<1>2. f \in [1 .. Len(s) + 1 -> S]
  BY <1>1 DEF Inserted
<1>3. f \in Seq(S) /\ Len(f) = Len(s) + 1
  BY <1>1, <1>2, SeqDef
<1>4. QED
  BY <1>3 DEF Inserted

\* Inserting a new name keeps the names apart.
LEMMA InsertedDistinct ==
    ASSUME NEW S, NEW s \in Seq(S), NEW e \in S, NEW i \in 1 .. Len(s) + 1,
           \A j, k \in 1 .. Len(s) : s[j] = s[k] => j = k,
           \A j \in 1 .. Len(s) : s[j] # e,
           NEW j \in 1 .. Len(s) + 1, NEW k \in 1 .. Len(s) + 1,
           Inserted(s, i, e)[j] = Inserted(s, i, e)[k]
    PROVE  j = k
<1>1. \A m \in 1 .. Len(s) + 1 :
        Inserted(s, i, e)[m] =
            IF m < i THEN s[m] ELSE IF m = i THEN e ELSE s[m - 1]
  BY InsertedType
<1>2. Len(s) \in Nat
  OBVIOUS
<1>3. QED
  BY <1>1, <1>2

\* What execute_checkpoints() hands to its thread is a part of the list of
\* registered checkpoints.
LEMMA ExecListType ==
    ASSUME checkpoints \in Seq(Names),
           NEW start \in 1 .. Count, NEW pause \in 0 .. Count,
           pause # 0 => pause >= start
    PROVE  /\ ExecList(start, pause) \in Seq(Names)
           /\ Len(ExecList(start, pause)) =
                (IF pause = 0 THEN Count + 1 ELSE pause) - start
           /\ \A i \in 1 .. Len(ExecList(start, pause)) :
                /\ start + i - 1 \in 1 .. Count
                /\ ExecList(start, pause)[i] = checkpoints[start + i - 1]
<1> DEFINE n == (IF pause = 0 THEN Count + 1 ELSE pause) - start
<1>1. n \in Nat /\ Count \in Nat /\ start + n <= Count + 1
  BY DEF Count
<1>2. \A i \in 1 .. n : start + i - 1 \in 1 .. Count
  BY <1>1
<1>3. ExecList(start, pause) \in [1 .. n -> Names]
  BY <1>1, <1>2 DEF ExecList, Count
<1>4. ExecList(start, pause) \in Seq(Names) /\ Len(ExecList(start, pause)) = n
  BY <1>1, <1>3, SeqDef
<1>5. \A i \in 1 .. n : ExecList(start, pause)[i] = checkpoints[start + i - 1]
  BY DEF ExecList
<1>6. QED
  BY <1>2, <1>4, <1>5

--------------------------------------------------------------------------------
(* Types                                                                    *)

LEMMA TypeInit == Init => TypeOK
<1> SUFFICES ASSUME Init PROVE TypeOK
  OBVIOUS
<1>1. /\ checkpoints \in Seq(Names) /\ Count = 0 /\ doc \in Seq(Names)
      /\ execList \in Seq(Names) /\ failed \in Seq(Names \cup {"FATAL_INTERNAL"})
      /\ Len(execList) = 0
  BY EmptySeq DEF Init, Count
<1>2. /\ completed \in [Names -> BOOLEAN]
      /\ files \in [Names -> Seq(Names) \cup {None}]
      /\ cancelPc \in [Cancellers -> {"idle", "set", "join", "clear", "raised"}]
      /\ cancelEvent \in BOOLEAN
  BY DEF Init
<1>3. /\ joinRun \in [Cancellers -> 0 .. MaxRuns]
      /\ results \in [1 .. MaxRuns -> Statuses \cup {"none"}]
      /\ targets \subseteq 1 .. MaxRuns
  BY EngineAssumption DEF Init
<1>4. /\ run \in 0 .. MaxRuns /\ cancels \in 0 .. MaxCancels
      /\ threadRun \in 0 .. run /\ pos \in 1 .. Len(execList) + 1
  BY <1>1, EngineAssumption DEF Init
<1>5. /\ thread \in {"none", "thread", "pseudo"} /\ pc \in Places /\ pc = "idle"
      /\ status \in Statuses /\ executing \in Names \cup {None}
  BY DEF Init, Statuses, Places
<1>6. QED
  BY <1>1, <1>2, <1>3, <1>4, <1>5 DEF TypeOK

\* register_checkpoint() keeps the types and registers nothing twice.
LEMMA TypeRegister ==
    ASSUME TypeOK, NEW n \in Names, NEW before \in 0 .. Count,
           RegisterCheckpoint(n, before)
    PROVE  TypeOK'
<1> DEFINE at == IF before = 0 THEN Count + 1 ELSE before
<1>1. at \in 1 .. Len(checkpoints) + 1 /\ checkpoints \in Seq(Names)
  BY DEF TypeOK, Count
<1>2. checkpoints' = Inserted(checkpoints, at, n)
  BY DEF RegisterCheckpoint
<1>3. checkpoints' \in Seq(Names) /\ Count' = Count + 1
  BY <1>1, <1>2, InsertedType DEF Count
<1>4. ASSUME NEW i \in 1 .. Count', NEW j \in 1 .. Count',
             checkpoints'[i] = checkpoints'[j]
      PROVE  i = j
  <2>1. /\ \A k, m \in 1 .. Len(checkpoints) :
                checkpoints[k] = checkpoints[m] => k = m
        /\ \A k \in 1 .. Len(checkpoints) : checkpoints[k] # n
    BY DEF TypeOK, RegisterCheckpoint, Count
  <2>2. /\ i \in 1 .. Len(checkpoints) + 1 /\ j \in 1 .. Len(checkpoints) + 1
        /\ Inserted(checkpoints, at, n)[i] = Inserted(checkpoints, at, n)[j]
    BY <1>2, <1>3, <1>4 DEF Count
  <2> HIDE DEF at
  <2>3. QED
    BY <1>1, <2>1, <2>2, InsertedDistinct
<1>5. completed' \in [Names -> BOOLEAN] /\ files' \in [Names -> Seq(Names) \cup {None}]
  BY DEF TypeOK, RegisterCheckpoint
<1>6. QED
  BY <1>3, <1>4, <1>5
     DEF TypeOK, RegisterCheckpoint, runVars, cancelVars

\* _rollback() sets every flag of a registered checkpoint.
LEMMA RolledBackType ==
    ASSUME TypeOK, NEW start
    PROVE  RolledBack(start) \in [Names -> BOOLEAN]
<1>1. \A n \in Names : (IF \E i \in 1 .. Count : checkpoints[i] = n
                        THEN \E i \in 1 .. start - 1 : checkpoints[i] = n
                        ELSE completed[n]) \in BOOLEAN
  BY Zenon DEF TypeOK
<1>2. QED
  BY <1>1, Zenon DEF RolledBack

\* Handing a list to a thread keeps the types.
LEMMA TypeStart ==
    ASSUME TypeOK, pc = "idle", run < MaxRuns,
           NEW list \in Seq(Names), NEW mode, CreateThread(list, mode),
           completed' \in [Names -> BOOLEAN], doc' \in Seq(Names)
    PROVE  TypeOK'
<1>1. list = <<>> \/ Len(list) >= 1
  BY EmptySeq
<1>2. threadRun' \in 0 .. run' /\ run' \in 0 .. MaxRuns
  BY EngineAssumption DEF TypeOK, CreateThread, runVars
<1>3. pc' \in Places /\ (pc' # "idle" => pc' = "created" /\ threadRun' \in 1 .. MaxRuns)
  BY EngineAssumption DEF TypeOK, CreateThread, runVars, Places
<1>4. execList' \in Seq(Names) /\ pos' \in 1 .. Len(execList') + 1
  BY DEF TypeOK, CreateThread, runVars
<1>5. /\ thread' \in {"none", "thread", "pseudo"} /\ status' \in Statuses
      /\ failed' \in Seq(Names \cup {"FATAL_INTERNAL"})
  BY EmptySeq DEF TypeOK, CreateThread, runVars, Statuses
<1>6. QED
  BY <1>2, <1>3, <1>4, <1>5
     DEF TypeOK, CreateThread, cancelVars, Count

\* execute_checkpoints() keeps the types.
LEMMA TypeExecute ==
    ASSUME TypeOK, NEW start \in 0 .. Count, NEW pause \in 0 .. Count,
           NEW mode \in Modes, ExecuteCheckpoints(start, pause, mode)
    PROVE  TypeOK'
<1>1. pc = "idle" /\ run < MaxRuns /\ checkpoints \in Seq(Names) /\ Count \in Nat
  BY DEF ExecuteCheckpoints, TypeOK, Count
<1>2. PICK first \in 1 .. Count + 1 :
        \/ Continue(first, start, pause, mode)
        \/ RollbackAndExecute(first, start, pause, mode)
  BY DEF ExecuteCheckpoints
<1>3. CASE Continue(first, start, pause, mode)
  <2> DEFINE list == IF first > Count THEN <<>> ELSE ExecList(first, pause)
  <2>1. list \in Seq(Names)
    <3>1. CASE first > Count
      BY <3>1, EmptySeq
    <3>2. CASE first <= Count
      <4>1. first \in 1 .. Count /\ (pause # 0 => pause >= first)
        BY <1>1, <1>3, <3>2 DEF Continue, ExecListOk
      <4>2. QED
        BY <1>1, <3>2, <4>1, ExecListType
    <3>3. QED
      BY <1>1, <3>1, <3>2
  <2>2. completed' \in [Names -> BOOLEAN] /\ doc' \in Seq(Names)
    BY <1>3 DEF TypeOK, Continue
  <2>3. QED
    BY <1>1, <1>3, <2>1, <2>2, TypeStart DEF Continue
<1>4. CASE RollbackAndExecute(first, start, pause, mode)
  <2>1. start \in 1 .. Count
    BY <1>4, <1>1 DEF RollbackAndExecute
  <2>2. completed' \in [Names -> BOOLEAN] /\ doc' \in Seq(Names)
    <3>1. completed' = RolledBack(start) /\ CanRollback(start)
          /\ doc' = files[checkpoints[start]]
      BY <1>4 DEF RollbackAndExecute
    <3>2. RolledBack(start) \in [Names -> BOOLEAN]
      BY RolledBackType
    <3>3. checkpoints[start] \in Names
      BY <1>1, <2>1 DEF Count
    <3>4. QED
      BY <3>1, <3>2, <3>3 DEF TypeOK, CanRollback
  <2>3. CASE ExecListOk(start, pause, RolledBack(start))
    <3>1. ExecList(start, pause) \in Seq(Names)
      BY <1>1, <2>1, <2>3, ExecListType DEF ExecListOk
    <3>2. QED
      BY <1>1, <1>4, <2>2, <2>3, <3>1, TypeStart DEF RollbackAndExecute
  <2>4. CASE ~ExecListOk(start, pause, RolledBack(start))
    BY <1>4, <2>2, <2>4
       DEF TypeOK, RollbackAndExecute, runVars, cancelVars, Count
  <2>5. QED
    BY <2>3, <2>4
<1>5. QED
  BY <1>2, <1>3, <1>4

\* Every step of the checkpoint thread keeps the types.
LEMMA TypeThread ==
    ASSUME TypeOK, CheckpointThread
    PROVE  TypeOK'
<1> USE DEF cpVars, runVars, cancelVars, Count, Places, Statuses, Report
<1>1. \A x \in Names :
        Append(failed, x) \in Seq(Names \cup {"FATAL_INTERNAL"})
  BY DEF TypeOK
<1>2. \A f \in Seq(Names \cup {"FATAL_INTERNAL"}) :
        <<"FATAL_INTERNAL">> \o f \in Seq(Names \cup {"FATAL_INTERNAL"})
  OBVIOUS
<1>3. failed \in Seq(Names \cup {"FATAL_INTERNAL"})
  BY DEF TypeOK
<1>4. FatalInternal => /\ failed' \in Seq(Names \cup {"FATAL_INTERNAL"})
                       /\ status' \in Statuses /\ pc' = "finish"
  BY <1>2, <1>3 DEF FatalInternal
<1>5. pc \in {"presnap", "exec"} => executing \in Names
  BY DEF TypeOK
<1>6. ForgetLocals => /\ execList' \in Seq(Names) /\ pos' \in 1 .. Len(execList') + 1
                      /\ failed' \in Seq(Names \cup {"FATAL_INTERNAL"})
                      /\ status' \in Statuses
  BY EmptySeq DEF ForgetLocals
<1>7. ASSUME NEW outcome \in BOOLEAN, pc = "exec", Record(outcome)
      PROVE  /\ doc' \in Seq(Names) /\ completed' \in [Names -> BOOLEAN]
             /\ pos' \in 1 .. Len(execList) + 1
  <2>1. doc' \in Seq(Names) /\ pos' \in 1 .. Len(execList) + 1
    BY <1>5, <1>7 DEF TypeOK, Record
  <2>2. completed' \in [Names -> BOOLEAN]
    BY <1>7 DEF TypeOK, Record
  <2>3. QED
    BY <2>1, <2>2
<1>8. CASE LoadCheckpoints
  BY <1>8 DEF TypeOK, LoadCheckpoints
<1>9. CASE TakeNext
  <2>1. CASE pc' = "finish"
    BY <1>1, <1>4, <1>9, <2>1 DEF TypeOK, TakeNext
  <2>2. CASE pc' # "finish"
    BY <1>4, <1>9, <2>2 DEF TypeOK, TakeNext
  <2>3. QED
    BY <2>1, <2>2
<1>10. CASE PreSnapshot
  <2>1. files' \in [Names -> Seq(Names) \cup {None}]
    BY <1>5, <1>10 DEF TypeOK, PreSnapshot
  <2>2. QED
    BY <1>4, <1>10, <2>1 DEF TypeOK, PreSnapshot
<1>11. CASE CheckpointReturns
  BY <1>7, <1>11 DEF TypeOK, CheckpointReturns
<1>12. CASE CheckpointRaises
  <2>1. /\ failed' \in Seq(Names \cup {"FATAL_INTERNAL"})
        /\ status' \in Statuses /\ pc' = "finish"
    BY <1>1, <1>2, <1>5, <1>12 DEF CheckpointRaises
  <2>2. QED
    BY <1>12, <2>1 DEF TypeOK, CheckpointRaises
<1>13. CASE CheckpointRaisesGoOn
  <2>1. failed' \in Seq(Names \cup {"FATAL_INTERNAL"})
    BY <1>1, <1>5, <1>13 DEF CheckpointRaisesGoOn
  <2>2. QED
    BY <1>7, <1>13, <2>1 DEF TypeOK, CheckpointRaisesGoOn
<1>14. CASE PostSnapshot
  BY <1>4, <1>14 DEF TypeOK, PostSnapshot
<1>15. CASE Finish
  BY <1>6, <1>15 DEF TypeOK, Finish
<1>16. CASE Callback
  BY <1>16 DEF TypeOK, Callback
<1>17. CASE Exit
  BY <1>6, <1>17 DEF TypeOK, Exit
<1>18. QED
  BY <1>8, <1>9, <1>10, <1>11, <1>12, <1>13, <1>14, <1>15, <1>16, <1>17
     DEF CheckpointThread

\* Every step of cancel_checkpoints() keeps the types.
LEMMA TypeCancel ==
    ASSUME TypeOK, NEW c \in Cancellers, CancelCheckpoints(c) \/ CancelStep(c)
    PROVE  TypeOK'
<1> USE DEF cpVars, runVars, cancelVars, Count
<1>1. threadRun \in 0 .. MaxRuns
  BY EngineAssumption DEF TypeOK
<1>2. CASE CancelCheckpoints(c)
  <2>1. targets' \subseteq 1 .. MaxRuns
    <3>1. targets' = targets \/ (pc # "idle" /\ targets' = targets \cup {threadRun})
      BY <1>2 DEF CancelCheckpoints
    <3>2. targets \subseteq 1 .. MaxRuns /\ (pc # "idle" => threadRun \in 1 .. MaxRuns)
      BY DEF TypeOK
    <3>3. QED
      BY <3>1, <3>2
  <2>2. cancels' \in 0 .. MaxCancels
    BY <1>2, EngineAssumption DEF TypeOK, CancelCheckpoints
  <2>3. QED
    BY <1>2, <2>1, <2>2 DEF TypeOK, CancelCheckpoints
<1>3. CASE CancelRead(c)
  <2>1. /\ cancelPc' \in [Cancellers -> {"idle", "set", "join", "clear", "raised"}]
        /\ joinRun' \in [Cancellers -> 0 .. MaxRuns]
    BY <1>1, <1>3 DEF TypeOK, CancelRead
  <2>2. QED
    BY <1>3, <2>1 DEF TypeOK, CancelRead
<1>4. CASE CancelJoined(c)
  BY <1>4 DEF TypeOK, CancelJoined
<1>5. CASE CancelClear(c)
  BY <1>5 DEF TypeOK, CancelClear
<1>6. QED
  BY <1>2, <1>3, <1>4, <1>5 DEF CancelStep

LEMMA TypeNext == TypeOK /\ [Next]_vars => TypeOK'
<1> SUFFICES ASSUME TypeOK, [Next]_vars PROVE TypeOK'
  OBVIOUS
<1>1. CASE Application
  <2>1. CASE CleanupCheckpoints
    <3>1. completed' \in [Names -> BOOLEAN]
      BY <2>1 DEF TypeOK, CleanupCheckpoints
    <3>2. QED
      BY <2>1, <3>1
         DEF TypeOK, CleanupCheckpoints, runVars, cancelVars, Count
  <2>2. CASE StartThread
    BY <2>2 DEF TypeOK, StartThread, cpVars, runVars, cancelVars, Count, Places
  <2>3. QED
    BY <1>1, <2>1, <2>2, TypeRegister, TypeExecute DEF Application
<1>2. CASE UNCHANGED vars
  BY <1>2 DEF TypeOK, vars, Count
<1>3. QED
  BY <1>1, <1>2, TypeThread, TypeCancel DEF Next

\* Every variable keeps its type, no checkpoint is registered twice, and the
\* checkpoint being executed is the one the run is at.
THEOREM TypeCorrect == Spec => []TypeOK
BY TypeInit, TypeNext, PTL DEF Spec

--------------------------------------------------------------------------------
(* A canceled run was asked to stop                                         *)

\* The strengthening: an event that a run meets between two checkpoints was
\* set while that run was in progress, because the run tested it before it
\* took the first of the two.
AskedInv ==
    /\ executing # None => pc \in {"loop", "presnap", "exec", "postsnap", "finish"}
    /\ executing # None /\ cancelEvent => threadRun \in targets
    /\ status = "EXEC_CANCELED" =>
            pc \in {"finish", "callback", "exiting"} /\ threadRun \in targets
    /\ CanceledWasAsked

LEMMA AskedInit == Init => AskedInv
BY DEF Init, AskedInv, CanceledWasAsked

\* The application's calls start a run from an engine that executes nothing.
LEMMA AskedApplication ==
    ASSUME TypeOK, AskedInv, Application
    PROVE  AskedInv'
<1> USE DEF runVars, cancelVars
<1>1. CASE \E n \in Names, before \in 0 .. Count : RegisterCheckpoint(n, before)
  BY <1>1 DEF AskedInv, CanceledWasAsked, RegisterCheckpoint
<1>2. CASE CleanupCheckpoints
  BY <1>2 DEF AskedInv, CanceledWasAsked, CleanupCheckpoints
<1>3. CASE \E start \in 0 .. Count, pause \in 0 .. Count, mode \in Modes :
             ExecuteCheckpoints(start, pause, mode)
  <2>1. pc = "idle" /\ executing = None /\ status # "EXEC_CANCELED"
    BY <1>3 DEF AskedInv, ExecuteCheckpoints
  <2>2. /\ executing' = None /\ targets' = targets /\ results' = results
        /\ status' # "EXEC_CANCELED"
    BY <1>3, <2>1
       DEF ExecuteCheckpoints, Continue, RollbackAndExecute, CreateThread
  <2>3. QED
    BY <2>2 DEF AskedInv, CanceledWasAsked
<1>4. CASE StartThread
  BY <1>4 DEF AskedInv, CanceledWasAsked, StartThread
<1>5. QED
  BY <1>1, <1>2, <1>3, <1>4 DEF Application

LEMMA AskedThread ==
    ASSUME TypeOK, AskedInv, CheckpointThread
    PROVE  AskedInv'
<1> USE DEF cpVars, runVars, cancelVars
<1>1. pc # "idle" => threadRun \in 1 .. MaxRuns
  BY DEF TypeOK
<1>2. \A s : Report(s) /\ threadRun \in 1 .. MaxRuns =>
        \A r \in 1 .. MaxRuns :
            results'[r] = IF r = threadRun THEN s ELSE results[r]
  BY DEF TypeOK, Report
<1>3. CASE LoadCheckpoints
  BY <1>1, <1>2, <1>3 DEF AskedInv, CanceledWasAsked, LoadCheckpoints
<1>4. CASE TakeNext
  BY <1>4 DEF AskedInv, CanceledWasAsked, TakeNext, FatalInternal
<1>5. CASE PreSnapshot
  BY <1>5 DEF AskedInv, CanceledWasAsked, PreSnapshot, FatalInternal
<1>6. CASE CheckpointReturns
  BY <1>6 DEF AskedInv, CanceledWasAsked, CheckpointReturns
<1>7. CASE CheckpointRaises
  BY <1>7 DEF AskedInv, CanceledWasAsked, CheckpointRaises
<1>8. CASE CheckpointRaisesGoOn
  BY <1>8 DEF AskedInv, CanceledWasAsked, CheckpointRaisesGoOn
<1>9. CASE PostSnapshot
  BY <1>9 DEF AskedInv, CanceledWasAsked, PostSnapshot, FatalInternal
<1>10. CASE Finish
  BY <1>1, <1>2, <1>10 DEF AskedInv, CanceledWasAsked, Finish, ForgetLocals
<1>11. CASE Callback
  BY <1>1, <1>2, <1>11 DEF AskedInv, CanceledWasAsked, Callback
<1>12. CASE Exit
  BY <1>12 DEF AskedInv, CanceledWasAsked, Exit, ForgetLocals
<1>13. QED
  BY <1>3, <1>4, <1>5, <1>6, <1>7, <1>8, <1>9, <1>10, <1>11, <1>12
     DEF CheckpointThread

\* A canceller that sets the event adds the run in progress to the targets.
LEMMA AskedCancel ==
    ASSUME TypeOK, AskedInv, NEW c \in Cancellers,
           CancelCheckpoints(c) \/ CancelStep(c)
    PROVE  AskedInv'
<1> USE DEF cpVars, runVars
<1>1. CASE CancelCheckpoints(c)
  BY <1>1 DEF AskedInv, CanceledWasAsked, CancelCheckpoints
<1>2. CASE CancelRead(c)
  BY <1>2 DEF AskedInv, CanceledWasAsked, CancelRead
<1>3. CASE CancelJoined(c)
  BY <1>3 DEF AskedInv, CanceledWasAsked, CancelJoined
<1>4. CASE CancelClear(c)
  BY <1>4 DEF AskedInv, CanceledWasAsked, CancelClear
<1>5. QED
  BY <1>1, <1>2, <1>3, <1>4 DEF CancelStep

\* A run that reports EXEC_CANCELED was in progress when some call of
\* cancel_checkpoints() took the lock, with any number of cancelling threads
\* and in both modes of execute_checkpoints().
THEOREM CanceledWasAskedHolds == Spec => []CanceledWasAsked
<1>1. TypeOK /\ AskedInv /\ [Next]_vars => AskedInv'
  <2>1. CASE UNCHANGED vars
    BY <2>1 DEF AskedInv, CanceledWasAsked, vars
  <2>2. QED
    BY <2>1, AskedApplication, AskedThread, AskedCancel DEF Next
<1>2. AskedInv => CanceledWasAsked
  BY DEF AskedInv
<1>3. QED
  BY <1>1, <1>2, AskedInit, TypeCorrect, PTL DEF Spec

--------------------------------------------------------------------------------
(* One cancelling thread                                                    *)

\* No two threads call cancel_checkpoints(): every installer has one thread, of
\* its user interface, that does.
OneCanceller == \A c, d \in Cancellers : c = d

\* The strengthening: the event is set as long as the call is not over.
HoldInv == \A c \in Cancellers : cancelPc[c] # "idle" => cancelEvent

LEMMA HoldInit == Init => HoldInv
BY DEF Init, HoldInv

\* Neither the application nor the checkpoint thread touches the event.
LEMMA CancelVarsApplication ==
    Application => cancelEvent' = cancelEvent /\ cancelPc' = cancelPc
BY ZenonT(120) DEF Application, RegisterCheckpoint, ExecuteCheckpoints, Continue,
       RollbackAndExecute, CreateThread, StartThread, CleanupCheckpoints,
       cancelVars

LEMMA CancelVarsThread ==
    CheckpointThread => cancelEvent' = cancelEvent /\ cancelPc' = cancelPc
BY DEF CheckpointThread, LoadCheckpoints, TakeNext, PreSnapshot,
       CheckpointReturns, CheckpointRaises, CheckpointRaisesGoOn,
       PostSnapshot, Finish, Callback, Exit, cancelVars

\* Only a canceller sets or clears the event, and only the last step of the
\* call, which is the only one in progress, clears it.
LEMMA HoldNext ==
    ASSUME OneCanceller
    PROVE  TypeOK /\ HoldInv /\ [Next]_vars => HoldInv'
<1> SUFFICES ASSUME TypeOK, HoldInv, [Next]_vars PROVE HoldInv'
  OBVIOUS
<1>1. ASSUME cancelEvent' = cancelEvent, cancelPc' = cancelPc PROVE HoldInv'
  BY <1>1 DEF HoldInv
<1>2. CASE Application
  BY <1>1, <1>2, CancelVarsApplication
<1>3. CASE CheckpointThread
  BY <1>1, <1>3, CancelVarsThread
<1>4. ASSUME NEW c \in Cancellers, CancelCheckpoints(c) PROVE HoldInv'
  BY <1>4 DEF HoldInv, CancelCheckpoints
<1>5. ASSUME NEW c \in Cancellers, CancelStep(c) PROVE HoldInv'
  <2>1. CASE CancelRead(c)
    BY <2>1 DEF TypeOK, HoldInv, CancelRead
  <2>2. CASE CancelJoined(c)
    BY <2>2 DEF TypeOK, HoldInv, CancelJoined
  <2>3. CASE CancelClear(c)
    BY <2>3 DEF TypeOK, HoldInv, CancelClear, OneCanceller
  <2>4. QED
    BY <1>5, <2>1, <2>2, <2>3 DEF CancelStep
<1>6. CASE UNCHANGED vars
  BY <1>1, <1>6 DEF vars
<1>7. QED
  BY <1>2, <1>3, <1>4, <1>5, <1>6 DEF Next

\* From the moment the only canceller has set the event until its call returns
\* no checkpoint is started, in either mode of execute_checkpoints().
THEOREM CancelHolds == ASSUME OneCanceller PROVE Spec => CancelHoldsExecution
<1> DEFINE Held == \E c \in Cancellers : cancelPc[c] \in {"set", "join"}
                                         /\ cancelPc'[c] \in {"set", "join"}
<1>1. HoldInv /\ [Next]_vars => [Held => executing' \in {executing, None}]_vars
  <2> SUFFICES ASSUME HoldInv, Next, Held
               PROVE  executing' \in {executing, None}
    OBVIOUS
  <2>1. cancelEvent
    BY DEF HoldInv
  <2>2. CASE CheckpointThread
    BY <2>1, <2>2
       DEF CheckpointThread, LoadCheckpoints, TakeNext, PreSnapshot,
           CheckpointReturns, CheckpointRaises, CheckpointRaisesGoOn,
           PostSnapshot, Finish, Callback, Exit
  <2>3. CASE Application
    BY ZenonT(120), <2>3
       DEF Application, RegisterCheckpoint, ExecuteCheckpoints, Continue,
           RollbackAndExecute, CreateThread, StartThread, CleanupCheckpoints
  <2>4. ASSUME NEW c \in Cancellers, CancelCheckpoints(c) \/ CancelStep(c)
        PROVE  executing' = executing
    BY <2>4 DEF CancelCheckpoints, CancelStep, CancelRead, CancelJoined, CancelClear
  <2>5. QED
    BY <2>2, <2>3, <2>4 DEF Next
<1>2. QED
  BY <1>1, HoldInit, HoldNext, TypeCorrect, PTL DEF Spec, CancelHoldsExecution

--------------------------------------------------------------------------------
(* Between cancellations                                                    *)

\* The event is clear again whenever every call of cancel_checkpoints() has
\* returned, however many threads make such calls and in both modes of
\* execute_checkpoints(): it stays set only behind a call whose join() raised,
\* because checkpoint_thread was not started.
THEOREM EventClearedHolds == Spec => []EventCleared
<1>1. Init => EventCleared
  BY DEF Init, EventCleared
<1>2. TypeOK /\ EventCleared /\ [Next]_vars => EventCleared'
  <2> SUFFICES ASSUME TypeOK, EventCleared, [Next]_vars PROVE EventCleared'
    OBVIOUS
  <2>1. CASE Application
    BY <2>1, CancelVarsApplication DEF EventCleared
  <2>2. CASE CheckpointThread
    BY <2>2, CancelVarsThread DEF EventCleared
  <2>3. ASSUME NEW c \in Cancellers, CancelCheckpoints(c) PROVE EventCleared'
    BY <2>3 DEF TypeOK, EventCleared, CancelCheckpoints
  <2>4. ASSUME NEW c \in Cancellers, CancelStep(c) PROVE EventCleared'
    <3>1. CASE CancelRead(c)
      BY <3>1 DEF TypeOK, EventCleared, CancelRead
    <3>2. CASE CancelJoined(c)
      BY <3>2 DEF TypeOK, EventCleared, CancelJoined
    <3>3. CASE CancelClear(c)
      BY <3>3 DEF EventCleared, CancelClear
    <3>4. QED
      BY <2>4, <3>1, <3>2, <3>3 DEF CancelStep
  <2>5. CASE UNCHANGED vars
    BY <2>5 DEF EventCleared, vars
  <2>6. QED
    BY <2>1, <2>2, <2>3, <2>4, <2>5 DEF Next
<1>3. QED
  BY <1>1, <1>2, TypeCorrect, PTL DEF Spec

--------------------------------------------------------------------------------
(* With a callback: the order of execution and the reports                  *)

Active == {"created", "load", "loop", "presnap", "exec", "postsnap"}

\* The completed checkpoints are exactly the first n.
FirstDone(n) == \A j \in 1 .. Count : Done(j) <=> j <= n

\* The run executes the checkpoints after position b of the list, and has got
\* to the one at b + pos; while that one executes its snapshot is in place.
RunAt(b) ==
    /\ b + Len(execList) <= Count
    /\ \A i \in 1 .. Len(execList) : execList[i] = checkpoints[b + i]
    /\ FirstDone(b + pos - 1)
    /\ pc = "exec" => /\ files[executing] # None
                      /\ EndsWithFirst(files[executing], b + pos - 1)

\* The inductive invariant: between two runs the completed checkpoints are a
\* prefix, recorded in the DOC and ready to be rolled back to; and an active
\* run is aligned with the list.
OrderInv ==
    /\ thread # "pseudo" /\ (pc # "idle" => thread = "thread")
    /\ pc \in Active => status = "EXEC_SUCCESS"
    /\ pc \in Active => \E b \in 0 .. Count : RunAt(b)
    /\ CompletedPrefix
    /\ DocRecordsCompleted
    /\ RollbackReady

--------------------------------------------------------------------------------
(* Prefixes                                                                 *)

\* The completed checkpoints are a prefix of the list exactly when they are
\* its first n for some n; the first incomplete one is then the next.
LEMMA PrefixFirst ==
    ASSUME checkpoints \in Seq(Names), CompletedPrefix,
           NEW i \in 1 .. Count + 1, IsFirstIncomplete(i)
    PROVE  FirstDone(i - 1)
BY DEF CompletedPrefix, IsFirstIncomplete, FirstDone, Count

LEMMA FirstPrefix ==
    ASSUME checkpoints \in Seq(Names), NEW n \in Nat, FirstDone(n)
    PROVE  CompletedPrefix
BY DEF CompletedPrefix, FirstDone, Count

\* Only one position is the first incomplete one.
LEMMA FirstUnique ==
    ASSUME checkpoints \in Seq(Names), NEW n \in 0 .. Count, FirstDone(n),
           NEW i \in 1 .. Count + 1, IsFirstIncomplete(i)
    PROVE  i = n + 1
<1>1. Count \in Nat
  BY DEF Count
<1>2. CASE i <= n
  BY <1>1, <1>2 DEF FirstDone, IsFirstIncomplete
<1>3. CASE i > n + 1
  <2>1. n + 1 \in 1 .. Count /\ n + 1 \in 1 .. i - 1
    BY <1>1, <1>3
  <2>2. QED
    BY <2>1 DEF FirstDone, IsFirstIncomplete
<1>4. QED
  BY <1>1, <1>2, <1>3

\* None, which stands for an unreadable file, is not the content of one.
LEMMA NoneIsNoDoc == None \notin Seq(Names)
BY EngineAssumption

\* Recording the next checkpoint in the DOC extends the end of the record.
LEMMA AppendNext ==
    ASSUME checkpoints \in Seq(Names), NEW s \in Seq(Names),
           NEW n \in 0 .. Count - 1, EndsWithFirst(s, n)
    PROVE  EndsWithFirst(Append(s, checkpoints[n + 1]), n + 1)
<1>1. Len(s) \in Nat /\ Count \in Nat /\ checkpoints[n + 1] \in Names
  BY DEF Count
<1> DEFINE t == Append(s, checkpoints[n + 1])
<1>2. Len(t) = Len(s) + 1 /\ t[Len(s) + 1] = checkpoints[n + 1]
      /\ \A k \in 1 .. Len(s) : t[k] = s[k]
  BY <1>1
<1>3. ASSUME NEW j \in 1 .. n + 1
      PROVE  t[Len(t) - (n + 1) + j] = checkpoints[j]
  <2>1. CASE j = n + 1
    BY <1>1, <1>2, <2>1
  <2>2. CASE j \in 1 .. n
    <3>1. Len(t) - (n + 1) + j = Len(s) - n + j /\ Len(s) - n + j \in 1 .. Len(s)
      BY <1>1, <1>2, <2>2 DEF EndsWithFirst
    <3>2. QED
      BY <1>2, <2>2, <3>1 DEF EndsWithFirst
  <2>3. j = n + 1 \/ j \in 1 .. n
    BY <1>1
  <2>4. QED
    BY <2>1, <2>2, <2>3
<1>4. Len(t) >= n + 1
  BY <1>1, <1>2 DEF EndsWithFirst
<1>. HIDE DEF t
<1>5. EndsWithFirst(t, n + 1)
  BY <1>3, <1>4 DEF EndsWithFirst
<1>6. QED
  BY <1>5 DEF t

--------------------------------------------------------------------------------
(* Steps that leave the checkpoints alone                                   *)

\* What the invariant says of the list, the flags, the DOC and the snapshots
\* does not depend on where the run is.
LEMMA OrderUnchanged ==
    ASSUME OrderInv, UNCHANGED cpVars
    PROVE  CompletedPrefix' /\ DocRecordsCompleted' /\ RollbackReady'
BY DEF OrderInv, cpVars, CompletedPrefix, DocRecordsCompleted, RollbackReady,
       EndsWithFirst, IsFirstIncomplete, Done, Count

\* A run that goes on without touching them stays aligned.
LEMMA RunUnchanged ==
    ASSUME NEW b \in 0 .. Count, RunAt(b),
           UNCHANGED <<cpVars, execList, pos>>,
           pc' # "exec" \/ UNCHANGED <<pc, executing>>
    PROVE  b \in 0 .. Count' /\ RunAt(b)'
BY DEF RunAt, cpVars, FirstDone, EndsWithFirst, Done, Count

\* Cancellers change nothing of it.
LEMMA OrderCancel ==
    ASSUME OrderInv, NEW c \in Cancellers, CancelCheckpoints(c) \/ CancelStep(c)
    PROVE  OrderInv'
<1>1. UNCHANGED <<cpVars, runVars, pc, pos, status, executing>>
  BY DEF CancelCheckpoints, CancelStep, CancelRead, CancelJoined, CancelClear
<1>2. pc' \in Active => \E b \in 0 .. Count' : RunAt(b)'
  BY <1>1, RunUnchanged DEF OrderInv, runVars
<1>3. QED
  BY <1>1, <1>2, OrderUnchanged DEF OrderInv, runVars

--------------------------------------------------------------------------------
(* The application's calls                                                  *)

\* While the invariant holds a call that is accepted finds the engine idle.
LEMMA AcceptedWhenIdle ==
    ASSUME OrderInv, MayCall
    PROVE  pc = "idle"
BY DEF OrderInv, MayCall, IsExecuting

\* register_checkpoint() inserts after the last completed checkpoint.
LEMMA OrderRegister ==
    ASSUME TypeOK, OrderInv, NEW n \in Names, NEW before \in 0 .. Count,
           RegisterCheckpoint(n, before)
    PROVE  OrderInv'
<1> DEFINE at == IF before = 0 THEN Count + 1 ELSE before
<1>1. /\ at \in 1 .. Len(checkpoints) + 1 /\ checkpoints \in Seq(Names)
      /\ Count \in Nat /\ Count = Len(checkpoints) /\ doc \in Seq(Names)
  BY DEF TypeOK, Count
<1>2. pc' = "idle" /\ thread' # "pseudo" /\ doc' = doc
  BY AcceptedWhenIdle DEF RegisterCheckpoint, OrderInv, runVars
<1>3. checkpoints' = Inserted(checkpoints, at, n)
  BY DEF RegisterCheckpoint
<1>4. /\ Count' = Count + 1
      /\ \A j \in 1 .. Count' : checkpoints'[j] =
            IF j < at THEN checkpoints[j]
            ELSE IF j = at THEN n ELSE checkpoints[j - 1]
  <2> HIDE DEF at
  <2>1. /\ Len(Inserted(checkpoints, at, n)) = Len(checkpoints) + 1
        /\ \A j \in 1 .. Len(checkpoints) + 1 :
            Inserted(checkpoints, at, n)[j] =
                IF j < at THEN checkpoints[j]
                ELSE IF j = at THEN n ELSE checkpoints[j - 1]
    <3>1. \A s \in Seq(Names) : \A i \in 1 .. Len(s) + 1 :
             /\ Len(Inserted(s, i, n)) = Len(s) + 1
             /\ \A j \in 1 .. Len(s) + 1 :
                   Inserted(s, i, n)[j] =
                       IF j < i THEN s[j] ELSE IF j = i THEN n ELSE s[j - 1]
      BY InsertedType
    <3>2. QED
      BY <1>1, <3>1
  <2>2. QED
    BY <1>3, <2>1 DEF Count
<1>5. at <= Count => ~Done(at)
  BY <1>1 DEF RegisterCheckpoint
<1>6. \A j \in 1 .. Count : checkpoints[j] \in Names /\ checkpoints[j] # n
  BY <1>1 DEF RegisterCheckpoint
<1>7. /\ completed' = [completed EXCEPT ![n] = FALSE]
      /\ files' = [files EXCEPT ![n] = None]
  BY DEF RegisterCheckpoint
<1> HIDE DEF at
<1>8. ASSUME NEW j \in 1 .. Count'
      PROVE  Done(j)' <=> j < at /\ Done(j)
  <2>1. CASE j < at
    <3>1. j \in 1 .. Count /\ checkpoints'[j] = checkpoints[j]
      BY <1>1, <1>4, <2>1
    <3>2. QED
      BY <1>6, <1>7, <2>1, <3>1 DEF TypeOK, Done
  <2>2. CASE j = at
    BY <1>1, <1>4, <1>7, <2>2 DEF TypeOK, Done
  <2>3. CASE j > at
    <3>1. j - 1 \in 1 .. Count /\ at \in 1 .. Count /\ at <= j - 1
          /\ checkpoints'[j] = checkpoints[j - 1]
      BY <1>1, <1>4, <2>3
    <3>2. ~Done(j - 1)
      BY <1>1, <1>5, <3>1 DEF OrderInv, CompletedPrefix
    <3>3. QED
      BY <1>6, <1>7, <1>1, <2>3, <3>1, <3>2 DEF TypeOK, Done
  <2>4. QED
    BY <1>1, <2>1, <2>2, <2>3
<1>9. \A m \in 1 .. at - 1 : m \in 1 .. Count /\ checkpoints'[m] = checkpoints[m]
  BY <1>1, <1>4
<1>10. ASSUME NEW s, NEW m \in 0 .. at - 1, EndsWithFirst(s, m)
       PROVE  EndsWithFirst(s, m)'
  BY <1>1, <1>9, <1>10 DEF EndsWithFirst
<1>11. CompletedPrefix'
  <2> SUFFICES ASSUME NEW i \in 1 .. Count', NEW j \in 1 .. Count', i < j, Done(j)'
               PROVE  Done(i)'
    BY DEF CompletedPrefix
  <2>1. j < at /\ Done(j) /\ i \in 1 .. Count /\ j \in 1 .. Count
    BY <1>1, <1>4, <1>8
  <2>2. Done(i)
    BY <2>1 DEF OrderInv, CompletedPrefix
  <2>3. QED
    BY <1>1, <1>8, <2>1, <2>2
<1>12. DocRecordsCompleted'
  <2> SUFFICES ASSUME NEW i \in 1 .. Count' + 1, IsFirstIncomplete(i)'
               PROVE  EndsWithFirst(doc, i - 1)'
    BY <1>2 DEF DocRecordsCompleted
  <2>1. \A j \in 1 .. i - 1 : j \in 1 .. Count' /\ Done(j)'
    BY <1>1, <1>4 DEF IsFirstIncomplete
  <2>2. i <= at
    <3> SUFFICES ASSUME i > at PROVE FALSE
      BY <1>1, <1>4
    <3>1. at \in 1 .. i - 1
      BY <1>1, <1>4
    <3>2. QED
      BY <1>1, <1>8, <2>1, <3>1
  <2>3. IsFirstIncomplete(i)
    <3>1. i \in 1 .. Count + 1 /\ \A j \in 1 .. i - 1 : Done(j)
      BY <1>1, <1>8, <2>1, <2>2
    <3>2. CASE i < at
      <4>1. i \in 1 .. Count' /\ ~Done(i)'
        BY <1>1, <1>4, <3>2 DEF IsFirstIncomplete
      <4>2. QED
        BY <1>8, <3>1, <3>2, <4>1 DEF IsFirstIncomplete
    <3>3. CASE i = at
      BY <1>5, <3>1, <3>3 DEF IsFirstIncomplete
    <3>4. QED
      BY <1>1, <2>2, <3>2, <3>3
  <2>4. EndsWithFirst(doc, i - 1)
    BY <2>3 DEF OrderInv, DocRecordsCompleted, IsFirstIncomplete
  <2>5. QED
    BY <1>1, <1>2, <1>10, <2>2, <2>4
<1>13. RollbackReady'
  <2> SUFFICES ASSUME NEW i \in 1 .. Count', Done(i)'
               PROVE  /\ files'[checkpoints'[i]] # None
                      /\ EndsWithFirst(files[checkpoints[i]], i - 1)'
    BY DEF RollbackReady
  <2>1. i < at /\ i \in 1 .. Count /\ Done(i) /\ checkpoints'[i] = checkpoints[i]
    BY <1>1, <1>4, <1>8
  <2>2. files'[checkpoints'[i]] = files[checkpoints[i]]
    BY <1>6, <1>7, <2>1 DEF TypeOK
  <2>3. /\ files[checkpoints[i]] # None
        /\ EndsWithFirst(files[checkpoints[i]], i - 1)
    BY <2>1 DEF OrderInv, RollbackReady
  <2>4. i - 1 \in 0 .. at - 1
    BY <1>1, <2>1
  <2>5. files'[checkpoints'[i]] # None
    BY <2>2, <2>3
  <2>6. \A j \in 1 .. i - 1 : checkpoints'[j] = checkpoints[j]
    BY <1>1, <1>9, <2>4
  <2>7. EndsWithFirst(files[checkpoints[i]], i - 1)'
    <3> DEFINE r == files[checkpoints[i]]
    <3>1. Len(r) >= i - 1 /\ \A j \in 1 .. i - 1 : r[Len(r) - (i - 1) + j] = checkpoints[j]
      BY <2>3 DEF EndsWithFirst
    <3> HIDE DEF r
    <3>2. /\ Len(r) >= i - 1
          /\ \A j \in 1 .. i - 1 : r[Len(r) - (i - 1) + j] = checkpoints'[j]
      BY <2>6, <3>1
    <3>3. files'[checkpoints'[i]] = r
      BY <2>2 DEF r
    <3>4. QED
      BY <3>2, <3>3 DEF EndsWithFirst
  <2>8. QED
    BY <2>5, <2>7
<1>14. QED
  BY <1>2, <1>11, <1>12, <1>13 DEF OrderInv, Active

\* A list that starts at a position with exactly the checkpoints before it
\* completed is handed to a thread.
LEMMA OrderStart ==
    ASSUME TypeOK, "blocking" \notin Modes, pc = "idle", thread # "pseudo",
           NEW start \in 1 .. Count, NEW pause \in 0 .. Count, NEW mode \in Modes,
           pause # 0 => pause >= start,
           CreateThread(ExecList(start, pause), mode), FirstDone(start - 1)'
    PROVE  /\ thread' # "pseudo" /\ (pc' # "idle" => thread' = "thread")
           /\ pc' \in Active => status' = "EXEC_SUCCESS"
           /\ pc' \in Active => \E b \in 0 .. Count' : RunAt(b)'
<1>1. checkpoints \in Seq(Names) /\ Count \in Nat
  BY DEF TypeOK, Count
<1>2. /\ Len(ExecList(start, pause)) = (IF pause = 0 THEN Count + 1 ELSE pause) - start
      /\ \A i \in 1 .. Len(ExecList(start, pause)) :
            ExecList(start, pause)[i] = checkpoints[start + i - 1]
  BY <1>1, ExecListType
<1>3. CASE ExecList(start, pause) = <<>>
  BY <1>3 DEF CreateThread, runVars, Active
<1>4. CASE ExecList(start, pause) # <<>>
  <2>1. /\ pc' = "created" /\ status' = "EXEC_SUCCESS" /\ thread' = "thread"
        /\ execList' = ExecList(start, pause) /\ pos' = 1
        /\ checkpoints' = checkpoints /\ Count' = Count
    BY <1>4 DEF CreateThread, Count
  <2>2. start - 1 \in 0 .. Count'
    BY <1>1, <2>1
  <2>3. RunAt(start - 1)'
    <3>1. start - 1 + Len(execList') <= Count'
      BY <1>1, <1>2, <2>1
    <3>2. \A i \in 1 .. Len(execList') : execList'[i] = checkpoints'[start - 1 + i]
      BY <1>1, <1>2, <2>1
    <3>3. start - 1 + pos' - 1 = start - 1
      BY <2>1
    <3>4. FirstDone(start - 1 + pos - 1)'
      BY <3>3
    <3>5. QED
      BY <2>1, <3>1, <3>2, <3>4 DEF RunAt
  <2>4. QED
    BY <2>1, <2>2, <2>3
<1>5. QED
  BY <1>3, <1>4

\* _rollback() leaves exactly the checkpoints before "start" completed, and
\* each of them as it was.
LEMMA RolledBackFirst ==
    ASSUME TypeOK, NEW start \in 1 .. Count,
           completed' = RolledBack(start), checkpoints' = checkpoints
    PROVE  FirstDone(start - 1)'
<1>1. checkpoints \in Seq(Names) /\ Count \in Nat /\ Count' = Count
  BY DEF TypeOK, Count
<1>2. ASSUME NEW j \in 1 .. Count
      PROVE  RolledBack(start)[checkpoints[j]] <=> j <= start - 1
  <2>1. checkpoints[j] \in Names
    BY <1>1 DEF Count
  <2>2. RolledBack(start)[checkpoints[j]] =
            (\E i \in 1 .. start - 1 : checkpoints[i] = checkpoints[j])
    BY <2>1 DEF RolledBack
  <2>3. (\E i \in 1 .. start - 1 : checkpoints[i] = checkpoints[j]) <=> j <= start - 1
    <3>1. \A i \in 1 .. start - 1 : i \in 1 .. Count
      BY <1>1
    <3>2. \A i \in 1 .. Count : checkpoints[i] = checkpoints[j] => i = j
      BY DEF TypeOK
    <3>3. j <= start - 1 => j \in 1 .. start - 1
      BY <1>1
    <3>4. QED
      BY <1>1, <3>1, <3>2, <3>3
  <2>4. QED
    BY <2>2, <2>3
<1>3. QED
  BY <1>1, <1>2 DEF FirstDone, Done

\* execute_checkpoints()
LEMMA OrderExecute ==
    ASSUME TypeOK, OrderInv, "blocking" \notin Modes,
           NEW start \in 0 .. Count, NEW pause \in 0 .. Count, NEW mode \in Modes,
           ExecuteCheckpoints(start, pause, mode)
    PROVE  OrderInv'
<1>1. /\ pc = "idle" /\ thread # "pseudo"
      /\ checkpoints \in Seq(Names) /\ Count \in Nat
  BY DEF ExecuteCheckpoints, TypeOK, OrderInv, Count
<1>2. PICK first \in 1 .. Count + 1 :
        /\ IsFirstIncomplete(first)
        /\ \/ Continue(first, start, pause, mode)
           \/ RollbackAndExecute(first, start, pause, mode)
  BY DEF ExecuteCheckpoints
<1>3. CASE Continue(first, start, pause, mode)
  <2>1. UNCHANGED cpVars
    BY <1>3 DEF Continue, CreateThread, cpVars
  <2>2. CASE first > Count
    <3>1. CreateThread(<<>>, mode)
      BY <1>3, <2>2 DEF Continue
    <3>2. pc' = "idle" /\ thread' = thread
      BY <1>1, <3>1 DEF CreateThread, runVars
    <3>3. QED
      BY <1>1, <2>1, <3>2, OrderUnchanged DEF OrderInv, Active
  <2>3. CASE first <= Count
    <3>1. /\ first \in 1 .. Count /\ (pause # 0 => pause >= first)
          /\ CreateThread(ExecList(first, pause), mode)
      BY <1>1, <1>3, <2>3 DEF Continue, ExecListOk
    <3>2. FirstDone(first - 1)
      BY <1>1, <1>2, PrefixFirst DEF OrderInv
    <3>3. FirstDone(first - 1)'
      BY <2>1, <3>2 DEF FirstDone, Done, Count, cpVars
    <3>4. QED
      BY <1>1, <2>1, <3>1, <3>3, OrderStart, OrderUnchanged DEF OrderInv
  <2>4. QED
    BY <1>1, <2>2, <2>3
<1>4. CASE RollbackAndExecute(first, start, pause, mode)
  <2>1. /\ start \in 1 .. Count /\ CanRollback(start)
        /\ completed' = RolledBack(start) /\ doc' = files[checkpoints[start]]
        /\ checkpoints' = checkpoints /\ files' = files
    BY <1>1, <1>4 DEF RollbackAndExecute, CreateThread
  <2>2. FirstDone(start - 1)' /\ Count' = Count
    BY <2>1, RolledBackFirst DEF Count
  <2>3. /\ thread' # "pseudo" /\ (pc' # "idle" => thread' = "thread")
        /\ pc' \in Active => status' = "EXEC_SUCCESS"
        /\ pc' \in Active => \E b \in 0 .. Count' : RunAt(b)'
    <3>1. CASE ExecListOk(start, pause, RolledBack(start))
      BY <1>1, <1>4, <2>1, <2>2, <3>1, OrderStart
         DEF RollbackAndExecute, ExecListOk
    <3>2. CASE ~ExecListOk(start, pause, RolledBack(start))
      BY <1>1, <1>4, <3>2 DEF RollbackAndExecute, runVars, Active
    <3>3. QED
      BY <3>1, <3>2
  <2>4. CompletedPrefix'
    BY <1>1, <2>2 DEF CompletedPrefix, FirstDone
  <2>5. DocRecordsCompleted'
    <3> SUFFICES ASSUME NEW i \in 1 .. Count + 1, IsFirstIncomplete(i)'
                 PROVE  EndsWithFirst(doc, i - 1)'
      BY <2>2 DEF DocRecordsCompleted
    <3>1. i = start
      <4>1. i <= Count => ~(i <= start - 1)
        BY <2>2 DEF FirstDone, IsFirstIncomplete
      <4>2. \A j \in 1 .. i - 1 : j <= start - 1
        BY <1>1, <2>2 DEF FirstDone, IsFirstIncomplete
      <4>3. QED
        BY <1>1, <2>1, <4>1, <4>2
    <3>2. EndsWithFirst(files[checkpoints[start]], start - 1)
      BY <2>1 DEF OrderInv, RollbackReady, CanRollback
    <3>3. QED
      BY <2>1, <3>1, <3>2 DEF EndsWithFirst
  <2>6. RollbackReady'
    <3> SUFFICES ASSUME NEW i \in 1 .. Count, Done(i)'
                 PROVE  /\ files[checkpoints[i]] # None
                        /\ EndsWithFirst(files[checkpoints[i]], i - 1)
      BY <2>1, <2>2 DEF RollbackReady, EndsWithFirst
    <3>1. i < start
      BY <1>1, <2>1, <2>2 DEF FirstDone
    <3>2. Done(i)
      BY <2>1, <3>1 DEF OrderInv, CompletedPrefix, CanRollback
    <3>3. QED
      BY <3>2 DEF OrderInv, RollbackReady
  <2>7. QED
    BY <2>3, <2>4, <2>5, <2>6 DEF OrderInv
<1>5. QED
  BY <1>2, <1>3, <1>4

\* Starting the thread leaves the run aligned.
LEMMA OrderStarted ==
    ASSUME OrderInv, StartThread
    PROVE  OrderInv'
<1>1. /\ UNCHANGED <<cpVars, thread, execList, pos, status, executing>>
      /\ pc = "created" /\ pc' = "load"
  BY DEF StartThread, runVars
<1>2. \E b \in 0 .. Count' : RunAt(b)'
  BY <1>1, RunUnchanged DEF OrderInv, Active
<1>3. QED
  BY <1>1, <1>2, OrderUnchanged DEF OrderInv, Active

\* cleanup_checkpoints() takes the flags away together with the snapshots.
LEMMA OrderCleanup ==
    ASSUME TypeOK, OrderInv, CleanupCheckpoints
    PROVE  OrderInv'
<1>1. /\ checkpoints \in Seq(Names) /\ Count \in Nat /\ doc \in Seq(Names)
      /\ checkpoints' = checkpoints /\ Count' = Count /\ doc' = doc
  BY DEF TypeOK, CleanupCheckpoints, Count
<1>2. pc' = "idle" /\ thread' # "pseudo"
  BY AcceptedWhenIdle DEF CleanupCheckpoints, OrderInv, runVars
<1>3. \A i \in 1 .. Count' : ~Done(i)'
  <2> SUFFICES ASSUME NEW i \in 1 .. Count PROVE ~completed'[checkpoints[i]]
    BY <1>1 DEF Done
  <2>1. checkpoints[i] \in Names
    BY <1>1 DEF Count
  <2>2. QED
    BY <2>1 DEF CleanupCheckpoints
<1>4. DocRecordsCompleted'
  <2> SUFFICES ASSUME NEW i \in 1 .. Count' + 1, IsFirstIncomplete(i)'
               PROVE  EndsWithFirst(doc, i - 1)'
    BY DEF DocRecordsCompleted
  <2>1. i = 1
    BY <1>1, <1>3 DEF IsFirstIncomplete
  <2>2. Len(doc') \in Nat
    BY <1>1
  <2>3. QED
    BY <2>1, <2>2 DEF EndsWithFirst
<1>5. QED
  BY <1>2, <1>3, <1>4 DEF OrderInv, Active, CompletedPrefix, RollbackReady

--------------------------------------------------------------------------------
(* The checkpoint thread                                                    *)

\* Where an active run stands in the list.
LEMMA RunPosition ==
    ASSUME TypeOK, NEW b \in 0 .. Count, RunAt(b), pc \in {"presnap", "exec"}
    PROVE  /\ b + pos \in 1 .. Count /\ executing = checkpoints[b + pos]
           /\ executing \in Names /\ IsFirstIncomplete(b + pos)
           /\ \A i \in 1 .. Count : checkpoints[i] = executing <=> i = b + pos
<1>1. /\ Count \in Nat /\ Len(execList) \in Nat /\ pos \in 1 .. Len(execList)
      /\ checkpoints \in Seq(Names) /\ executing = execList[pos]
  BY DEF TypeOK, Count
<1>2. b + pos \in 1 .. Count /\ executing = checkpoints[b + pos]
  BY <1>1 DEF RunAt
<1>3. executing \in Names
  BY <1>1, <1>2 DEF Count
<1>4. IsFirstIncomplete(b + pos)
  BY <1>1, <1>2 DEF RunAt, FirstDone, IsFirstIncomplete
<1>5. \A i \in 1 .. Count : checkpoints[i] = executing <=> i = b + pos
  BY <1>2 DEF TypeOK
<1>6. QED
  BY <1>2, <1>3, <1>4, <1>5

\* The snapshot before a checkpoint touches no completed checkpoint's, and
\* once written it records what is completed.
LEMMA OrderPreSnapshot ==
    ASSUME TypeOK, OrderInv, PreSnapshot
    PROVE  OrderInv'
<1> USE DEF runVars, cancelVars
<1>1. PICK b \in 0 .. Count : RunAt(b)
  BY DEF OrderInv, PreSnapshot, Active
<1>2. /\ pc = "presnap" /\ Count' = Count /\ checkpoints' = checkpoints
      /\ completed' = completed /\ doc' = doc /\ executing' = executing
      /\ thread' = thread /\ execList' = execList /\ pos' = pos
  BY DEF PreSnapshot, Count
<1>3. PICK k \in 1 .. Count :
        /\ k = b + pos /\ executing = checkpoints[k]
        /\ executing \in Names /\ IsFirstIncomplete(k)
        /\ \A i \in 1 .. Count : checkpoints[i] = executing <=> i = k
  BY <1>1, <1>2, RunPosition
<1>4. \A i \in 1 .. Count : checkpoints[i] # executing =>
            files'[checkpoints[i]] = files[checkpoints[i]]
  <2>1. \A i \in 1 .. Count : checkpoints[i] \in Names
    BY DEF TypeOK, Count
  <2>2. QED
    BY <1>3, <2>1 DEF TypeOK, PreSnapshot
<1>5. CompletedPrefix' /\ DocRecordsCompleted'
  BY <1>2 DEF OrderInv, CompletedPrefix, DocRecordsCompleted, IsFirstIncomplete,
              EndsWithFirst, Done
<1>6. RollbackReady'
  <2> SUFFICES ASSUME NEW i \in 1 .. Count, Done(i)
               PROVE  /\ files'[checkpoints[i]] # None
                      /\ EndsWithFirst(files'[checkpoints[i]], i - 1)
    BY <1>2 DEF RollbackReady, EndsWithFirst, Done
  <2>1. checkpoints[i] # executing
    BY <1>3 DEF IsFirstIncomplete
  <2>2. QED
    BY <1>4, <2>1 DEF OrderInv, RollbackReady
<1>7. CASE pc' = "exec"
  <2>1. files' = [files EXCEPT ![executing] = doc]
    BY <1>7 DEF PreSnapshot, FatalInternal
  <2>2. files'[executing] = doc /\ doc # None
    <3>1. doc # None
      BY NoneIsNoDoc DEF TypeOK
    <3>2. QED
      BY <1>3, <2>1, <3>1 DEF TypeOK
  <2>3. EndsWithFirst(doc, k - 1)
    BY <1>3 DEF OrderInv, DocRecordsCompleted, IsFirstIncomplete
  <2>4. EndsWithFirst(files[executing], b + pos - 1)'
    <3>1. b + pos' - 1 = k - 1 /\ files'[executing'] = doc
      <4>1. pos \in Nat /\ Count \in Nat
        BY DEF TypeOK, Count
      <4>2. QED
        BY <1>2, <1>3, <2>2, <4>1
    <3>2. QED
      BY <1>2, <2>3, <3>1 DEF EndsWithFirst
  <2>5. FirstDone(b + pos - 1)'
    BY <1>1, <1>2 DEF RunAt, FirstDone, Done
  <2>6. RunAt(b)'
    BY <1>1, <1>2, <2>2, <2>4, <2>5 DEF RunAt
  <2>7. status' = "EXEC_SUCCESS"
    BY <1>7 DEF PreSnapshot, FatalInternal, OrderInv, Active
  <2>8. QED
    BY <1>2, <1>5, <1>6, <2>6, <2>7 DEF OrderInv, Active
<1>8. CASE pc' = "finish"
  BY <1>2, <1>5, <1>6, <1>8 DEF OrderInv, Active
<1>9. QED
  BY <1>7, <1>8 DEF PreSnapshot, FatalInternal

\* A checkpoint that returns is the next one completed, recorded last in the
\* DOC, with its own snapshot in place.
LEMMA OrderReturns ==
    ASSUME TypeOK, OrderInv, CheckpointReturns
    PROVE  OrderInv'
<1> USE DEF runVars, cancelVars
<1>1. PICK b \in 0 .. Count : RunAt(b)
  BY DEF OrderInv, CheckpointReturns, Active
<1>2. /\ pc = "exec" /\ Count' = Count /\ checkpoints' = checkpoints
      /\ files' = files /\ executing' = executing /\ status' = status
      /\ completed' = [completed EXCEPT ![executing] = TRUE]
      /\ doc' = Append(doc, executing) /\ pos' = pos + 1
      /\ thread' = thread /\ execList' = execList
  BY DEF CheckpointReturns, Record, Count
<1>3. PICK k \in 1 .. Count :
        /\ k = b + pos /\ executing = checkpoints[k]
        /\ executing \in Names /\ IsFirstIncomplete(k)
        /\ \A i \in 1 .. Count : checkpoints[i] = executing <=> i = k
  BY <1>1, <1>2, RunPosition
<1>4. /\ checkpoints \in Seq(Names) /\ doc \in Seq(Names) /\ Count \in Nat
      /\ pos \in Nat
  BY DEF TypeOK, Count
<1>5. /\ FirstDone(k - 1) /\ files[executing] # None
      /\ EndsWithFirst(files[executing], k - 1)
  <2>1. b + pos - 1 = k - 1
    BY <1>3, <1>4
  <2>2. QED
    BY <1>1, <1>2, <2>1 DEF RunAt
<1>6. status = "EXEC_SUCCESS" /\ pc' = "postsnap"
  BY DEF OrderInv, CheckpointReturns, Active
<1>7. \A i \in 1 .. Count : Done(i)' <=> i <= k
  <2> SUFFICES ASSUME NEW i \in 1 .. Count
               PROVE  completed'[checkpoints[i]] <=> i <= k
    BY <1>2 DEF Done
  <2>1. checkpoints[i] \in Names
    BY <1>4 DEF Count
  <2>2. Done(i) <=> i <= k - 1
    BY <1>5 DEF FirstDone
  <2>3. CASE i = k
    BY <1>2, <1>3, <2>3 DEF TypeOK
  <2>4. CASE i # k
    <3>1. completed'[checkpoints[i]] = Done(i)
      BY <1>2, <1>3, <2>1, <2>4 DEF TypeOK, Done
    <3>2. QED
      BY <1>4, <2>2, <2>4, <3>1
  <2>5. QED
    BY <2>3, <2>4
<1>8. FirstDone(k)' /\ k \in 0 .. Count
  BY <1>2, <1>3, <1>7 DEF FirstDone
<1>9. CompletedPrefix'
  BY <1>2, <1>4, <1>7 DEF CompletedPrefix
<1>10. DocRecordsCompleted'
  <2> SUFFICES ASSUME NEW i \in 1 .. Count + 1, IsFirstIncomplete(i)'
               PROVE  EndsWithFirst(doc, i - 1)'
    BY <1>2 DEF DocRecordsCompleted
  <2>1. i = k + 1
    <3>1. i <= Count => ~(i <= k)
      <4>1. i <= Count => ~Done(i)' /\ i \in 1 .. Count
        BY <1>2, <1>4 DEF IsFirstIncomplete
      <4>2. QED
        BY <1>7, <4>1
    <3>2. \A j \in 1 .. i - 1 : j <= k
      BY <1>4, <1>7 DEF IsFirstIncomplete
    <3>3. QED
      BY <1>3, <1>4, <3>1, <3>2
  <2>2. EndsWithFirst(doc, k - 1)
    BY <1>3 DEF OrderInv, DocRecordsCompleted, IsFirstIncomplete
  <2>3. EndsWithFirst(Append(doc, checkpoints[k]), k)
    <3>1. k - 1 \in 0 .. Count - 1 /\ k - 1 + 1 = k
      BY <1>3, <1>4
    <3>2. QED
      BY <1>4, <2>2, <3>1, AppendNext
  <2>4. i - 1 = k
    BY <1>4, <2>1
  <2>5. QED
    BY <1>2, <1>3, <2>3, <2>4 DEF EndsWithFirst
<1>11. RollbackReady'
  <2> SUFFICES ASSUME NEW i \in 1 .. Count, i <= k
               PROVE  /\ files[checkpoints[i]] # None
                      /\ EndsWithFirst(files[checkpoints[i]], i - 1)
    BY <1>2, <1>7 DEF RollbackReady, EndsWithFirst
  <2>1. CASE i = k
    BY <1>3, <1>5, <2>1
  <2>2. CASE i # k
    <3>1. Done(i)
      BY <1>4, <1>5, <2>2 DEF FirstDone
    <3>2. QED
      BY <3>1 DEF OrderInv, RollbackReady
  <2>3. QED
    BY <2>1, <2>2
<1>12. RunAt(b)'
  <2>1. b + pos' - 1 = k
    BY <1>2, <1>3, <1>4
  <2>2. FirstDone(b + pos - 1)'
    BY <1>8, <2>1 DEF FirstDone
  <2>3. QED
    BY <1>1, <1>2, <1>6, <2>2 DEF RunAt
<1>13. QED
  BY <1>2, <1>6, <1>9, <1>10, <1>11, <1>12 DEF OrderInv, Active

\* The other steps of the thread change neither the list nor what belongs to
\* its checkpoints.
LEMMA OrderOther ==
    ASSUME TypeOK, OrderInv,
           \/ LoadCheckpoints \/ TakeNext \/ CheckpointRaises
           \/ PostSnapshot \/ Finish \/ Callback \/ Exit
    PROVE  OrderInv'
<1> USE DEF runVars, cancelVars
<1>1. UNCHANGED cpVars /\ thread = "thread" /\ thread' = thread
  <2>1. pc # "idle"
    BY DEF LoadCheckpoints, TakeNext, CheckpointRaises, PostSnapshot, Finish,
           Callback, Exit
  <2>2. QED
    BY <2>1 DEF OrderInv, LoadCheckpoints, TakeNext, CheckpointRaises,
                PostSnapshot, Finish, Callback, Exit
<1>2. ASSUME pc' \in Active
      PROVE  /\ status' = "EXEC_SUCCESS" /\ pc' # "exec" /\ pc \in Active
             /\ UNCHANGED <<execList, pos>>
  BY <1>2 DEF OrderInv, Active, LoadCheckpoints, TakeNext, FatalInternal,
              CheckpointRaises, PostSnapshot, Finish, Callback, Exit
<1>3. ASSUME pc' \in Active
      PROVE  \E b \in 0 .. Count' : RunAt(b)'
  <2>1. PICK b \in 0 .. Count : RunAt(b)
    BY <1>2, <1>3 DEF OrderInv
  <2>2. QED
    BY <1>1, <1>2, <1>3, <2>1, RunUnchanged
<1>4. CompletedPrefix' /\ DocRecordsCompleted' /\ RollbackReady'
  BY <1>1, OrderUnchanged
<1>5. QED
  BY <1>1, <1>2, <1>3, <1>4 DEF OrderInv

--------------------------------------------------------------------------------
(* The theorems                                                             *)

LEMMA OrderInit == Init => OrderInv
<1> SUFFICES ASSUME Init PROVE OrderInv
  OBVIOUS
<1>1. Count = 0 /\ Len(doc) = 0 /\ pc = "idle" /\ thread = "none"
  BY DEF Init, Count
<1>2. CompletedPrefix /\ RollbackReady
  BY <1>1 DEF CompletedPrefix, RollbackReady
<1>3. DocRecordsCompleted
  BY <1>1 DEF DocRecordsCompleted, EndsWithFirst
<1>4. QED
  BY <1>1, <1>2, <1>3 DEF OrderInv, Active

LEMMA OrderNext ==
    ASSUME StopOnError, "blocking" \notin Modes
    PROVE  TypeOK /\ OrderInv /\ [Next]_vars => OrderInv'
<1> SUFFICES ASSUME TypeOK, OrderInv, [Next]_vars PROVE OrderInv'
  OBVIOUS
<1>1. CASE Application
  BY <1>1, OrderRegister, OrderExecute, OrderCleanup, OrderStarted DEF Application
<1>2. CASE CheckpointThread
  <2>1. ~CheckpointRaisesGoOn
    BY DEF CheckpointRaisesGoOn
  <2>2. QED
    BY <1>2, <2>1, OrderPreSnapshot, OrderReturns, OrderOther DEF CheckpointThread
<1>3. CASE \E c \in Cancellers : CancelCheckpoints(c) \/ CancelStep(c)
  BY <1>3, OrderCancel
<1>4. CASE UNCHANGED vars
  <2>1. UNCHANGED <<cpVars, runVars, pc, pos, status, executing>>
    BY <1>4 DEF vars, cpVars, runVars
  <2>2. pc' \in Active => \E b \in 0 .. Count' : RunAt(b)'
    BY <2>1, RunUnchanged DEF OrderInv, runVars
  <2>3. QED
    BY <2>1, <2>2, OrderUnchanged DEF OrderInv, runVars
<1>5. QED
  BY <1>1, <1>2, <1>3, <1>4 DEF Next

LEMMA OrderInvariant ==
    ASSUME StopOnError, "blocking" \notin Modes
    PROVE  Spec => [](TypeOK /\ OrderInv)
BY OrderInit, OrderNext, TypeCorrect, PTL DEF Spec

\* An engine that stops on errors never leaves an incomplete checkpoint behind
\* a completed one, whatever is registered, canceled or rolled back.
THEOREM CompletedPrefixHolds ==
    ASSUME StopOnError, "blocking" \notin Modes PROVE Spec => []CompletedPrefix
<1>1. OrderInv => CompletedPrefix
  BY DEF OrderInv
<1>2. QED
  BY <1>1, OrderInvariant, PTL

\* It executes a checkpoint exactly when all before it have completed and
\* neither it nor any after it has.
THEOREM OrderlyExecutionHolds ==
    ASSUME StopOnError, "blocking" \notin Modes PROVE Spec => []OrderlyExecution
<1>1. TypeOK /\ OrderInv => OrderlyExecution
  <2> SUFFICES ASSUME TypeOK, OrderInv, pc = "exec",
                      NEW i \in 1 .. Count, checkpoints[i] = executing,
                      NEW j \in 1 .. Count
               PROVE  Done(j) <=> j < i
    BY DEF OrderlyExecution
  <2>1. PICK b \in 0 .. Count : RunAt(b)
    BY DEF OrderInv, Active
  <2>2. pos \in Nat
    BY DEF TypeOK
  <2>3. i = b + pos
    BY <2>1, RunPosition
  <2>4. QED
    BY <2>1, <2>2, <2>3 DEF RunAt, FirstDone
<1>2. QED
  BY <1>1, OrderInvariant, PTL

\* Its record in the DOC ends with the completed checkpoints, in order.
THEOREM DocRecordsCompletedHolds ==
    ASSUME StopOnError, "blocking" \notin Modes PROVE Spec => []DocRecordsCompleted
<1>1. OrderInv => DocRecordsCompleted
  BY DEF OrderInv
<1>2. QED
  BY <1>1, OrderInvariant, PTL

\* Every completed checkpoint has a DOC snapshot that takes execution back to
\* the state before it.
THEOREM RollbackReadyHolds ==
    ASSUME StopOnError, "blocking" \notin Modes PROVE Spec => []RollbackReady
<1>1. OrderInv => RollbackReady
  BY DEF OrderInv
<1>2. QED
  BY <1>1, OrderInvariant, PTL

--------------------------------------------------------------------------------
(* What the callback is told: whether the engine stops on errors or carries *)
(* on.                                                                      *)

\* What an active run has to show so far: it has lost no checkpoint that
\* returned, and every checkpoint it noted as failed is one it has passed.
RunSoFar ==
    /\ \A i, j \in 1 .. Len(execList) : execList[i] = execList[j] => i = j
    /\ status \in {"EXEC_SUCCESS", "EXEC_FAILED"}
    /\ status = "EXEC_SUCCESS" =>
           failed = <<>> /\ \A i \in 1 .. pos - 1 : completed[execList[i]]
    /\ status = "EXEC_FAILED" => failed # <<>>
    /\ \A i \in 1 .. Len(failed) :
           /\ ~completed[failed[i]]
           /\ \E j \in 1 .. pos - 1 : failed[i] = execList[j]

\* __currently_executing is reset after every run; inside the loop it is the
\* checkpoint executed last.
ExecutingLast ==
    /\ pc \in {"idle", "created", "load", "callback", "exiting"} => executing = None
    /\ pc \in {"created", "load"} => pos = 1
    /\ pc = "loop" => executing = IF pos = 1 THEN None ELSE execList[pos - 1]
    /\ pc = "postsnap" => pos > 1 /\ executing = execList[pos - 1]

\* What ReportTruthful claims when the callback is due.
Claim ==
    /\ status = "EXEC_SUCCESS" =>
           failed = <<>> /\ \A i \in 1 .. Len(execList) : completed[execList[i]]
    /\ status = "EXEC_FAILED" =>
           failed # <<>> /\ \A i \in 1 .. Len(failed) : ~completed[failed[i]]
    /\ status = "EXEC_CANCELED" =>
           /\ pos > 1
           /\ failed[Len(failed)] = execList[pos - 1]
           /\ \A i \in 1 .. Len(failed) - 1 : ~completed[failed[i]]

\* The inductive invariant.
ReportInv ==
    /\ thread # "pseudo" /\ (pc # "idle" => thread = "thread")
    /\ ExecutingLast
    /\ pc \in Active => RunSoFar
    /\ pc \in {"finish", "callback"} => Claim

--------------------------------------------------------------------------------
(* Steps that do not touch the run                                          *)

LEMMA ReportUnchanged ==
    ASSUME ReportInv,
           UNCHANGED <<completed, thread, pc, execList, pos, status, failed, executing>>
    PROVE  ReportInv'
BY DEF ReportInv, ExecutingLast, RunSoFar, Claim, Active

LEMMA ReportCancel ==
    ASSUME ReportInv, NEW c \in Cancellers, CancelCheckpoints(c) \/ CancelStep(c)
    PROVE  ReportInv'
<1>1. UNCHANGED <<completed, thread, pc, execList, pos, status, failed, executing>>
  BY DEF CancelCheckpoints, CancelStep, CancelRead, CancelJoined, CancelClear,
         cpVars, runVars
<1>2. QED
  BY <1>1, ReportUnchanged

\* Registration and cleanup are refused while the thread is alive, so that the
\* flags a run has set stay as they are until it has reported.
LEMMA ReportIdle ==
    ASSUME ReportInv, pc = "idle", pc' = "idle", UNCHANGED <<thread, executing>>
    PROVE  ReportInv'
BY DEF ReportInv, ExecutingLast, Active

LEMMA ReportRegister ==
    ASSUME ReportInv, NEW n, NEW before,
           RegisterCheckpoint(n, before) \/ CleanupCheckpoints
    PROVE  ReportInv'
<1>1. pc = "idle"
  BY DEF ReportInv, RegisterCheckpoint, CleanupCheckpoints, MayCall, IsExecuting
<1>2. pc' = "idle" /\ UNCHANGED <<thread, executing>>
  BY <1>1 DEF RegisterCheckpoint, CleanupCheckpoints, runVars
<1>3. QED
  BY <1>1, <1>2, ReportIdle

--------------------------------------------------------------------------------
(* execute_checkpoints()                                                    *)

\* A run starts with a list of different checkpoints and with clean locals.
LEMMA ReportStart ==
    ASSUME TypeOK, ReportInv, "blocking" \notin Modes, pc = "idle",
           NEW start \in 1 .. Count, NEW pause \in 0 .. Count, NEW mode \in Modes,
           pause # 0 => pause >= start, CreateThread(ExecList(start, pause), mode)
    PROVE  ReportInv'
<1>1. checkpoints \in Seq(Names) /\ Count \in Nat
  BY DEF TypeOK, Count
<1> DEFINE list == ExecList(start, pause)
<1>2. /\ list \in Seq(Names)
      /\ \A i \in 1 .. Len(list) :
            start + i - 1 \in 1 .. Count /\ list[i] = checkpoints[start + i - 1]
  BY <1>1, ExecListType
<1> HIDE DEF list
<1>3. CASE list = <<>>
  <2>1. pc' = "idle" /\ UNCHANGED <<thread, executing>>
    BY <1>3 DEF CreateThread, runVars, list
  <2>2. QED
    BY <2>1, ReportIdle
<1>4. CASE list # <<>>
  <2>1. /\ pc' = "created" /\ thread' = "thread" /\ execList' = list /\ pos' = 1
        /\ status' = "EXEC_SUCCESS" /\ failed' = <<>> /\ executing' = executing
    BY <1>4 DEF CreateThread, list
  <2>2. ASSUME NEW i \in 1 .. Len(list), NEW j \in 1 .. Len(list), list[i] = list[j]
        PROVE  i = j
    <3>1. start + i - 1 = start + j - 1
      BY <1>2, <2>2 DEF TypeOK
    <3>2. QED
      BY <1>1, <1>2, <3>1
  <2>3. RunSoFar'
    BY <2>1, <2>2 DEF RunSoFar
  <2>4. ExecutingLast'
    BY <2>1 DEF ReportInv, ExecutingLast
  <2>5. QED
    BY <2>1, <2>3, <2>4 DEF ReportInv, Active
<1>5. QED
  BY <1>3, <1>4

LEMMA ReportExecute ==
    ASSUME TypeOK, ReportInv, "blocking" \notin Modes,
           NEW start \in 0 .. Count, NEW pause \in 0 .. Count, NEW mode \in Modes,
           ExecuteCheckpoints(start, pause, mode)
    PROVE  ReportInv'
<1>1. pc = "idle" /\ Count \in Nat
  BY DEF ExecuteCheckpoints, TypeOK, Count
<1>2. PICK first \in 1 .. Count + 1 :
        \/ Continue(first, start, pause, mode)
        \/ RollbackAndExecute(first, start, pause, mode)
  BY DEF ExecuteCheckpoints
<1>3. CASE Continue(first, start, pause, mode)
  <2>1. CASE first > Count
    <3>1. pc' = "idle" /\ UNCHANGED <<thread, executing>>
      BY <1>1, <1>3, <2>1 DEF Continue, CreateThread, runVars
    <3>2. QED
      BY <1>1, <3>1, ReportIdle
  <2>2. CASE first <= Count
    <3>1. /\ first \in 1 .. Count /\ (pause # 0 => pause >= first)
          /\ CreateThread(ExecList(first, pause), mode)
      BY <1>1, <1>3, <2>2 DEF Continue, ExecListOk
    <3>2. QED
      BY <1>1, <3>1, ReportStart
  <2>3. QED
    BY <1>1, <2>1, <2>2
<1>4. CASE RollbackAndExecute(first, start, pause, mode)
  <2>1. start \in 1 .. Count
    BY <1>1, <1>4 DEF RollbackAndExecute
  <2>2. CASE ExecListOk(start, pause, RolledBack(start))
    <3>1. /\ pause # 0 => pause >= start
          /\ CreateThread(ExecList(start, pause), mode)
      BY <1>4, <2>2 DEF RollbackAndExecute, ExecListOk
    <3>2. QED
      BY <1>1, <2>1, <3>1, ReportStart
  <2>3. CASE ~ExecListOk(start, pause, RolledBack(start))
    <3>1. pc' = "idle" /\ UNCHANGED <<thread, executing>>
      BY <1>1, <1>4, <2>3 DEF RollbackAndExecute, runVars
    <3>2. QED
      BY <1>1, <3>1, ReportIdle
  <2>4. QED
    BY <2>2, <2>3
<1>5. QED
  BY <1>2, <1>3, <1>4

LEMMA ReportStarted == ASSUME ReportInv, StartThread PROVE ReportInv'
BY DEF ReportInv, StartThread, ExecutingLast, Active, RunSoFar, Claim, cpVars, runVars

--------------------------------------------------------------------------------
(* The checkpoint thread                                                    *)

\* An internal error claims nothing about the checkpoints.
LEMMA ReportFatal ==
    ASSUME ReportInv, pc # "idle", FatalInternal, thread' = thread
    PROVE  ReportInv'
BY DEF ReportInv, FatalInternal, ExecutingLast, Active, Claim

LEMMA ReportLoad == ASSUME TypeOK, ReportInv, LoadCheckpoints PROVE ReportInv'
BY DEF ReportInv, LoadCheckpoints, ExecutingLast, Active, RunSoFar, Claim, TypeOK,
       cpVars, runVars

\* The end of the list, and the two ways in which a cancellation is noticed.
LEMMA ReportTakeNext == ASSUME TypeOK, ReportInv, TakeNext PROVE ReportInv'
<1>1. /\ pc = "loop" /\ thread' = thread /\ thread = "thread" /\ RunSoFar
      /\ executing = IF pos = 1 THEN None ELSE execList[pos - 1]
      /\ UNCHANGED <<completed, execList, pos>>
  BY DEF TakeNext, ReportInv, ExecutingLast, Active, cpVars, runVars
<1>2. /\ pos \in 1 .. Len(execList) + 1 /\ Len(execList) \in Nat
      /\ failed \in Seq(Names \cup {"FATAL_INTERNAL"})
      /\ executing \in Names \cup {None}
  BY DEF TypeOK
<1>3. CASE pos > Len(execList)
  <2>1. pc' = "finish" /\ UNCHANGED <<status, failed, executing>>
    BY <1>2, <1>3 DEF TakeNext
  <2>2. pos - 1 = Len(execList)
    BY <1>2, <1>3
  <2>3. Claim
    BY <1>1, <2>2 DEF RunSoFar, Claim
  <2>4. Claim'
    BY <1>1, <2>1, <2>3 DEF Claim
  <2>5. QED
    BY <1>1, <2>1, <2>4 DEF ReportInv, ExecutingLast, Active
<1>4. CASE pos <= Len(execList) /\ cancelEvent /\ executing # None
  <2>1. /\ status' = "EXEC_CANCELED" /\ failed' = Append(failed, executing)
        /\ pc' = "finish" /\ executing' = executing
    BY <1>2, <1>4 DEF TakeNext
  <2>2. pos > 1 /\ executing = execList[pos - 1]
    BY <1>1, <1>2, <1>4
  <2>3. /\ Len(failed') = Len(failed) + 1 /\ failed'[Len(failed) + 1] = executing
        /\ \A i \in 1 .. Len(failed) : failed'[i] = failed[i]
        /\ Len(failed) \in Nat
    BY <1>2, <2>1
  <2>4. \A i \in 1 .. Len(failed') - 1 : ~completed'[failed'[i]]
    BY <1>1, <2>3 DEF RunSoFar
  <2>5. Claim'
    BY <1>1, <2>1, <2>2, <2>3, <2>4 DEF Claim
  <2>6. QED
    BY <1>1, <2>1, <2>5 DEF ReportInv, ExecutingLast, Active
<1>5. CASE pos <= Len(execList) /\ cancelEvent /\ executing = None
  <2>1. FatalInternal
    BY <1>2, <1>5 DEF TakeNext
  <2>2. QED
    BY <1>1, <2>1, ReportFatal
<1>6. CASE pos <= Len(execList) /\ ~cancelEvent
  <2>1. /\ pc' \in {"presnap", "exec"} /\ UNCHANGED <<status, failed>>
    BY <1>2, <1>6 DEF TakeNext
  <2>2. RunSoFar'
    BY <1>1, <2>1 DEF RunSoFar
  <2>3. QED
    BY <1>1, <2>1, <2>2 DEF ReportInv, ExecutingLast, Active
<1>7. QED
  BY <1>2, <1>3, <1>4, <1>5, <1>6

LEMMA ReportSnapshots ==
    ASSUME TypeOK, ReportInv, PreSnapshot \/ PostSnapshot
    PROVE  ReportInv'
<1>1. /\ pc \in {"presnap", "postsnap"} /\ thread' = thread
      /\ UNCHANGED <<completed, execList, pos, executing>>
  BY DEF PreSnapshot, PostSnapshot, cpVars, runVars
<1>2. CASE FatalInternal
  BY <1>1, <1>2, ReportFatal
<1>3. CASE ~FatalInternal
  <2>1. UNCHANGED <<status, failed>>
    BY <1>3 DEF PreSnapshot, PostSnapshot
  <2>2. RunSoFar'
    BY <1>1, <2>1 DEF ReportInv, Active, RunSoFar
  <2>3. pc' = IF pc = "presnap" THEN "exec" ELSE "loop"
    BY <1>3 DEF PreSnapshot, PostSnapshot
  <2>4. ExecutingLast'
    BY <1>1, <2>3 DEF ReportInv, ExecutingLast, TypeOK
  <2>5. QED
    BY <1>1, <2>2, <2>3, <2>4 DEF ReportInv, Active
<1>4. QED
  BY <1>2, <1>3

\* Recording the outcome of one checkpoint takes nothing back of what the run
\* has to show for those it has passed: they are others.
LEMMA RecordKeeps ==
    ASSUME TypeOK, RunSoFar, pc = "exec", NEW outcome \in BOOLEAN, Record(outcome)
    PROVE  /\ pos \in 1 .. Len(execList) /\ executing = execList[pos]
           /\ executing \in Names /\ completed'[executing] = outcome
           /\ \A j \in 1 .. pos - 1 :
                    completed'[execList[j]] = completed[execList[j]]
           /\ \A i \in 1 .. Len(failed) : ~completed'[failed[i]]
<1>1. /\ pos \in 1 .. Len(execList) /\ executing = execList[pos]
      /\ Len(execList) \in Nat /\ execList \in Seq(Names)
  BY DEF TypeOK
<1>2. executing \in Names
  BY <1>1
<1>3. completed'[executing] = outcome
  BY <1>2 DEF Record, TypeOK
<1>4. ASSUME NEW j \in 1 .. pos - 1
      PROVE  completed'[execList[j]] = completed[execList[j]]
  <2>1. j \in 1 .. Len(execList) /\ j # pos
    BY <1>1
  <2>2. execList[j] # executing /\ execList[j] \in Names
    BY <1>1, <2>1 DEF RunSoFar
  <2>3. QED
    BY <1>2, <2>2 DEF Record, TypeOK
<1>5. ASSUME NEW i \in 1 .. Len(failed)
      PROVE  ~completed'[failed[i]]
  <2>1. PICK j \in 1 .. pos - 1 : failed[i] = execList[j]
    BY DEF RunSoFar
  <2>2. ~completed[failed[i]]
    BY DEF RunSoFar
  <2>3. QED
    BY <1>4, <2>1, <2>2
<1>6. QED
  BY <1>1, <1>2, <1>3, <1>4, <1>5

LEMMA ReportReturns == ASSUME TypeOK, ReportInv, CheckpointReturns PROVE ReportInv'
<1>1. /\ pc = "exec" /\ Record(TRUE) /\ RunSoFar /\ thread = "thread"
      /\ pc' \in {"loop", "postsnap"}
      /\ UNCHANGED <<thread, execList, status, failed, executing>>
      /\ pos' = pos + 1
  BY DEF CheckpointReturns, Record, ReportInv, Active, runVars
<1>2. /\ pos \in 1 .. Len(execList) /\ executing = execList[pos]
      /\ completed'[executing] = TRUE
      /\ \A j \in 1 .. pos - 1 : completed'[execList[j]] = completed[execList[j]]
      /\ \A i \in 1 .. Len(failed) : ~completed'[failed[i]]
  BY <1>1, RecordKeeps
<1>3. Len(execList) \in Nat
  BY DEF TypeOK
<1>4. pos' - 1 = pos /\ pos' > 1 /\ pos' # 1
  BY <1>1, <1>2, <1>3
<1>5. RunSoFar'
  <2>1. status = "EXEC_SUCCESS" => \A i \in 1 .. pos : completed'[execList[i]]
    BY <1>1, <1>2, <1>3 DEF RunSoFar
  <2>2. \A i \in 1 .. Len(failed) : \E j \in 1 .. pos : failed[i] = execList[j]
    BY <1>1, <1>2, <1>3 DEF RunSoFar
  <2>3. QED
    BY <1>1, <1>2, <1>4, <2>1, <2>2 DEF RunSoFar
<1>6. ExecutingLast'
  BY <1>1, <1>2, <1>4 DEF ExecutingLast
<1>7. QED
  BY <1>1, <1>5, <1>6 DEF ReportInv, Active

\* When the engine stops on errors the checkpoint that raised is not completed
\* because the run is aligned with the list; see OrderInv.
LEMMA ReportRaises ==
    ASSUME TypeOK, ReportInv, OrderInv, CheckpointRaises
    PROVE  ReportInv'
<1>1. /\ pc = "exec" /\ RunSoFar /\ thread = "thread"
      /\ UNCHANGED <<thread, completed, execList, pos, executing>>
      /\ pc' = "finish"
  BY DEF CheckpointRaises, ReportInv, Active, runVars, cpVars
<1>2. status' = "EXEC_FAILED" /\ failed' = Append(failed, executing)
  BY <1>1 DEF CheckpointRaises
<1>3. ~completed[executing]
  <2>1. PICK b \in 0 .. Count : RunAt(b)
    BY <1>1 DEF OrderInv, Active
  <2>2. /\ b + pos \in 1 .. Count /\ executing = checkpoints[b + pos]
        /\ IsFirstIncomplete(b + pos)
    BY <1>1, <2>1, RunPosition
  <2>3. QED
    BY <2>2 DEF IsFirstIncomplete, Done
<1>4. /\ Len(failed') = Len(failed) + 1 /\ failed'[Len(failed) + 1] = executing
      /\ \A i \in 1 .. Len(failed) : failed'[i] = failed[i]
      /\ Len(failed) \in Nat
  BY <1>2 DEF TypeOK
<1>5. \A i \in 1 .. Len(failed') : ~completed[failed'[i]]
  BY <1>1, <1>3, <1>4 DEF RunSoFar
<1>6. failed' # <<>>
  BY <1>4
<1>7. Claim'
  BY <1>1, <1>2, <1>5, <1>6 DEF Claim
<1>8. QED
  BY <1>1, <1>7 DEF ReportInv, ExecutingLast, Active

\* When it carries on the flag is reset, even of a checkpoint that an earlier
\* run had completed.
LEMMA ReportRaisesGoOn ==
    ASSUME TypeOK, ReportInv, CheckpointRaisesGoOn
    PROVE  ReportInv'
<1>1. /\ pc = "exec" /\ Record(FALSE) /\ RunSoFar /\ thread = "thread"
      /\ pc' = "loop" /\ UNCHANGED <<thread, execList, executing>>
      /\ status' = "EXEC_FAILED" /\ failed' = Append(failed, executing)
      /\ pos' = pos + 1
  BY DEF CheckpointRaisesGoOn, Record, ReportInv, Active, runVars
<1>2. /\ pos \in 1 .. Len(execList) /\ executing = execList[pos]
      /\ completed'[executing] = FALSE
      /\ \A i \in 1 .. Len(failed) : ~completed'[failed[i]]
  BY <1>1, RecordKeeps
<1>3. Len(execList) \in Nat
  BY DEF TypeOK
<1>4. pos' - 1 = pos /\ pos' > 1 /\ pos' # 1
  BY <1>1, <1>2, <1>3
<1>5. /\ Len(failed') = Len(failed) + 1 /\ failed'[Len(failed) + 1] = executing
      /\ \A i \in 1 .. Len(failed) : failed'[i] = failed[i]
      /\ Len(failed) \in Nat
  BY <1>1 DEF TypeOK
<1>6. RunSoFar'
  <2>1. ASSUME NEW i \in 1 .. Len(failed')
        PROVE  ~completed'[failed'[i]] /\ \E j \in 1 .. pos : failed'[i] = execList[j]
    <3>1. CASE i = Len(failed) + 1
      BY <1>2, <1>3, <1>5, <3>1
    <3>2. CASE i # Len(failed) + 1
      <4>1. i \in 1 .. Len(failed) /\ failed'[i] = failed[i]
        BY <1>5, <3>2
      <4>2. PICK j \in 1 .. pos - 1 : failed[i] = execList[j]
        BY <1>1, <4>1 DEF RunSoFar
      <4>3. j \in 1 .. pos
        BY <1>2, <1>3
      <4>4. QED
        BY <1>2, <4>1, <4>2, <4>3
    <3>3. QED
      BY <3>1, <3>2
  <2>2. failed' # <<>>
    BY <1>5
  <2>3. QED
    BY <1>1, <1>4, <2>1, <2>2 DEF RunSoFar
<1>7. ExecutingLast'
  BY <1>1, <1>2, <1>4 DEF ExecutingLast
<1>8. QED
  BY <1>1, <1>6, <1>7 DEF ReportInv, Active

LEMMA ReportEnd ==
    ASSUME TypeOK, ReportInv, Finish \/ Callback \/ Exit
    PROVE  ReportInv'
<1>1. CASE Finish
  <2>1. /\ pc = "finish" /\ thread = "thread" /\ thread' = thread
        /\ pc' = "callback" /\ executing' = None
        /\ UNCHANGED <<completed, execList, pos, status, failed>>
    BY <1>1 DEF Finish, ReportInv, cpVars
  <2>2. Claim'
    BY <2>1 DEF ReportInv, Claim
  <2>3. QED
    BY <2>1, <2>2 DEF ReportInv, ExecutingLast, Active
<1>2. CASE Callback
  BY <1>2 DEF Callback, ReportInv, ExecutingLast, Active, runVars
<1>3. CASE Exit
  BY <1>3 DEF Exit, ReportInv, ExecutingLast, Active
<1>4. QED
  BY <1>1, <1>2, <1>3

--------------------------------------------------------------------------------
(* The theorem                                                              *)

LEMMA ReportInit == ASSUME Init PROVE ReportInv
BY DEF Init, ReportInv, ExecutingLast, Active

\* OrderInv is needed, and holds, only when the engine stops on errors.
LEMMA ReportThread ==
    ASSUME TypeOK, ReportInv, StopOnError => OrderInv, CheckpointThread
    PROVE  ReportInv'
<1>1. CASE LoadCheckpoints
  BY <1>1, ReportLoad
<1>2. CASE TakeNext
  BY <1>2, ReportTakeNext
<1>3. CASE PreSnapshot \/ PostSnapshot
  BY <1>3, ReportSnapshots
<1>4. CASE CheckpointReturns
  BY <1>4, ReportReturns
<1>5. CASE CheckpointRaises
  <2>1. StopOnError
    BY <1>5 DEF CheckpointRaises
  <2>2. QED
    BY <1>5, <2>1, ReportRaises
<1>6. CASE CheckpointRaisesGoOn
  BY <1>6, ReportRaisesGoOn
<1>7. CASE Finish \/ Callback \/ Exit
  BY <1>7, ReportEnd
<1>8. QED
  BY <1>1, <1>2, <1>3, <1>4, <1>5, <1>6, <1>7 DEF CheckpointThread

LEMMA ReportNext ==
    ASSUME "blocking" \notin Modes, TypeOK, ReportInv, StopOnError => OrderInv,
           [Next]_vars
    PROVE  ReportInv'
<1>1. CASE Application
  <2>1. ASSUME NEW n \in Names, NEW before \in 0 .. Count,
               RegisterCheckpoint(n, before)
        PROVE  ReportInv'
    BY <2>1, ReportRegister
  <2>2. ASSUME NEW start \in 0 .. Count, NEW pause \in 0 .. Count,
               NEW mode \in Modes, ExecuteCheckpoints(start, pause, mode)
        PROVE  ReportInv'
    BY <2>2, ReportExecute
  <2>3. CASE CleanupCheckpoints
    BY <2>3, ReportRegister
  <2>4. CASE StartThread
    BY <2>4, ReportStarted
  <2>5. QED
    BY <1>1, <2>1, <2>2, <2>3, <2>4 DEF Application
<1>2. CASE CheckpointThread
  BY <1>2, ReportThread
<1>3. CASE \E c \in Cancellers : CancelCheckpoints(c) \/ CancelStep(c)
  BY <1>3, ReportCancel
<1>4. CASE UNCHANGED vars
  BY <1>4, ReportUnchanged DEF vars
<1>5. QED
  BY <1>1, <1>2, <1>3, <1>4 DEF Next

\* Whether the engine stops on errors or carries on, whatever is canceled and
\* whichever snapshots fail: the status and the list of failed checkpoints that
\* _execute_checkpoints() hands to the callback agree with the completed flags.
THEOREM ReportTruthfulHolds ==
    ASSUME "blocking" \notin Modes
    PROVE  Spec => []ReportTruthful
<1>1. CASE StopOnError
  <2>1. TypeOK /\ OrderInv /\ ReportInv /\ [Next]_vars => ReportInv'
    BY <1>1, ReportNext
  <2>2. Init => ReportInv
    BY ReportInit
  <2>3. ReportInv => ReportTruthful
    BY DEF ReportInv, ReportTruthful, Claim
  <2>4. Spec => [](TypeOK /\ OrderInv)
    BY <1>1, OrderInvariant
  <2>5. QED
    BY <2>1, <2>2, <2>3, <2>4, PTL DEF Spec
<1>2. CASE ~StopOnError
  <2>1. TypeOK /\ ReportInv /\ [Next]_vars => ReportInv'
    BY <1>2, ReportNext
  <2>2. Init => ReportInv
    BY ReportInit
  <2>3. ReportInv => ReportTruthful
    BY DEF ReportInv, ReportTruthful, Claim
  <2>4. QED
    BY <2>1, <2>2, <2>3, TypeCorrect, PTL DEF Spec
<1>3. QED
  BY <1>1, <1>2

================================================================================
