--------------------------- MODULE TextInstallProofs ---------------------------
(***************************************************************************)
(* Proofs about TextInstall: what the installer concludes when both        *)
(* threads have done their part.                                           *)
(*                                                                         *)
(* The argument follows the two runs of the engine.  The first executes    *)
(* nothing but the first checkpoint; the second executes what is left.     *)
(* The progress server goes down after exec_callback() has handed over the *)
(* status of a run that no longer executes anything, and the three         *)
(* statuses that do_ti_install() takes for success either mean that        *)
(* everything has completed, or that nothing populated the target.         *)
(***************************************************************************)
EXTENDS TextInstall, InstallEngineProofs

Working == {"created", "load", "loop", "presnap", "exec", "postsnap"}

\* What may be concluded from a status of the second run.
Verdict(s) ==
    /\ s = "EXEC_SUCCESS" => \A n \in Names : completed[n]
    /\ s \in {"CP_INIT_FAILED", "FATAL_INTERNAL"} => ~completed[Populate]

\* The engine before its first run.
Untouched ==
    /\ pc = "idle" /\ executing = None /\ ~cancelEvent
    /\ \A n \in Names : ~completed[n]

\* The run of the first checkpoint, in the caller's thread.
FirstRun ==
    /\ checkpoints = List /\ ~cancelEvent
    /\ pc # "idle" => thread = "pseudo" /\ execList = <<List[1]>> /\ threadRun = 1
    /\ pc \in {"idle", "created", "load", "callback", "exiting"} => executing = None
    /\ pc \in Working => status = "EXEC_SUCCESS" /\ (pos > 1 => completed[List[1]])
    /\ pc \in {"finish", "callback"} => (status = "EXEC_SUCCESS" => completed[List[1]])
    /\ results[1] = "EXEC_SUCCESS" => completed[List[1]]
    /\ \A n \in Names : completed[n] => n = List[1]

\* The run of the others, in a thread.
SecondRun ==
    /\ checkpoints = List
    /\ pc # "idle" => thread = "thread"
    /\ pc \in {"idle", "created", "load", "callback", "exiting"} => executing = None
    /\ pc \in {"created", "load"} => pos = 1
    /\ pc = "loop" /\ executing = None => pos = 1
    /\ pc = "postsnap" => executing # None
    /\ pc \in Working =>
           /\ status = "EXEC_SUCCESS"
           /\ \A n \in Names : completed[n] \/ \E j \in pos .. Len(execList) : execList[j] = n
           /\ pos = 1 => ~completed[Populate]
    /\ pc \in {"finish", "callback"} => Verdict(status)
    /\ told => pc \in {"callback", "exiting", "idle"} /\ Verdict(execStatus)
    /\ ~serverUp => pc \in {"exiting", "idle"} /\ Verdict(execStatus)

\* Where the user interface is from the second run to its conclusion.
Displaying == {"starting", "poll", "canceling", "blind", "decide"}

\* The inductive invariant.
TextInv ==
    /\ TypeOK
    /\ execStatus \in Statuses /\ told \in BOOLEAN /\ serverUp \in BOOLEAN
    /\ uiPc \in {"register", "prepare", "preparing", "start", "starting", "poll",
                 "canceling", "blind", "decide", "done", "early"}
    /\ uiPc \in {"register", "prepare", "preparing", "start"} => ~told
    /\ uiPc = "register" =>
           /\ Untouched /\ results[1] = "none" /\ run = 0
           /\ Count <= Len(List) /\ \A i \in 1 .. Count : checkpoints[i] = List[i]
    /\ uiPc = "prepare" =>
           Untouched /\ results[1] = "none" /\ run = 0 /\ checkpoints = List
    /\ uiPc = "preparing" => FirstRun
    /\ uiPc = "start" =>
           /\ pc = "idle" /\ executing = None /\ serverUp /\ checkpoints = List
           /\ \A n \in Names : completed[n] <=> n = List[1]
    /\ uiPc \in Displaying => SecondRun
    /\ uiPc = "decide" => ~serverUp
    /\ uiPc \notin {"done", "early"} => outcome = "none"
    /\ uiPc = "done" =>
           /\ pc \in {"callback", "idle", "exiting"} /\ executing = None
           /\ outcome = "succeeded" => \A n \in Names : completed[n]

--------------------------------------------------------------------------------
(* The list of checkpoints                                                  *)

LEMMA ListType ==
    /\ List \in Seq(Names) /\ Len(List) \in Nat /\ Len(List) >= 2
    /\ \A i \in 1 .. Len(List) : List[i] \in Names
    /\ \A n \in Names : \E i \in 1 .. Len(List) : List[i] = n
    /\ List[1] \in Names /\ Populate \in Names /\ Populate # List[1]
<1>1. List \in Seq(Names) /\ Len(List) \in Nat /\ DOMAIN List = 1 .. Len(List)
  BY TextAssumption, LenProperties
<1>2. \A i \in 1 .. Len(List) : List[i] \in Names
  BY <1>1, ElementOfSeq
<1>3. \A n \in Names : \E i \in 1 .. Len(List) : List[i] = n
  <2>1. Names = {List[i] : i \in DOMAIN List}
    BY TextAssumption
  <2>. QED
    BY <1>1, <2>1
<1>4. Len(List) >= 2 /\ Populate \in Names /\ Populate # List[1]
  BY TextAssumption
<1>. QED
  BY <1>1, <1>2, <1>3, <1>4

LEMMA CountType ==
    ASSUME TypeOK
    PROVE  checkpoints \in Seq(Names) /\ Count \in Nat /\ Count = Len(checkpoints)
BY LenProperties DEF TypeOK, Count

\* The lists of the two runs.
LEMMA FirstList ==
    ASSUME TypeOK, checkpoints = List
    PROVE  ExecList(1, 2) = <<List[1]>>
<1>1. Count \in Nat /\ Count >= 2 /\ checkpoints \in Seq(Names)
  BY CountType, ListType
<1>2. 1 \in 1 .. Count /\ 2 \in 0 .. Count
  BY <1>1
<1>5. 2 # 0 => 2 >= 1
  OBVIOUS
<1>6. ExecList(1, 2) \in Seq(Names) /\ Len(ExecList(1, 2)) = (IF 2 = 0 THEN Count + 1 ELSE 2) - 1
  BY <1>1, <1>2, <1>5, ExecListType, Zenon
<1>3. ExecList(1, 2) \in Seq(Names) /\ Len(ExecList(1, 2)) = 1
  BY <1>6
<1>4. ExecList(1, 2)[1] = checkpoints[1 + 1 - 1]
  BY <1>3 DEF ExecList
<1>. QED
  BY <1>3, <1>4

LEMMA RestList ==
    ASSUME TypeOK, NEW first \in 1 .. Count
    PROVE  /\ Len(ExecList(first, 0)) = Count + 1 - first
           /\ \A i \in 1 .. Len(ExecList(first, 0)) :
                 ExecList(first, 0)[i] = checkpoints[first + i - 1]
<1>1. Count \in Nat /\ 0 \in 0 .. Count /\ checkpoints \in Seq(Names)
  BY CountType
<1>2. /\ Len(ExecList(first, 0)) = (IF 0 = 0 THEN Count + 1 ELSE 0) - first
      /\ \A i \in 1 .. Len(ExecList(first, 0)) :
            ExecList(first, 0)[i] = checkpoints[first + i - 1]
  BY <1>1, ExecListType
<1>. QED
  BY <1>1, <1>2

--------------------------------------------------------------------------------
(* Every step of the installer is a step of the engine, or none             *)

LEMMA TextTypes ==
    ASSUME TextInv, [TextNext]_textVars
    PROVE  TypeOK'
<1>. USE DEF TextInv, Displaying, engineVars
<1>1. CASE UNCHANGED vars
  BY <1>1, TypeNext
<1>2. CASE Register
  <2>1. CASE Count < Len(List)
    <3>4. Count \in Nat /\ Len(List) \in Nat
      BY CountType, ListType
    <3>1. Count \in Nat /\ Count + 1 \in 1 .. Len(List)
      BY <2>1, <3>4
    <3>2. List[Count + 1] \in Names /\ 0 \in 0 .. Count
      BY <3>1, ListType
    <3>3. Application
      BY <1>2, <2>1, <3>2 DEF Register, Application
    <3>. QED
      BY <3>3, TypeNext DEF Next
  <2>2. CASE ~(Count < Len(List))
    BY <1>1, <1>2, <2>2 DEF Register
  <2>. QED
    BY <2>1, <2>2
<1>3. CASE Prepare
  <2>1. Count = Len(List) /\ 1 \in 0 .. Count /\ 2 \in 0 .. Count /\ "blocking" \in Modes
    BY <1>3, ListType, TextAssumption DEF Prepare, Count
  <2>2. Application
    BY <1>3, <2>1 DEF Prepare, Application
  <2>. QED
    BY <2>2, TypeNext DEF Next
<1>4. CASE StartInstall
  <2>1. Count \in Nat /\ 0 \in 0 .. Count /\ "callback" \in Modes
    BY TextAssumption DEF Count, TypeOK
  <2>2. Application
    BY <1>4, <2>1 DEF StartInstall, Application
  <2>. QED
    BY <2>2, TypeNext DEF Next
<1>8. CASE StartsThread
  BY <1>8, TypeNext DEF StartsThread, Application, Next
<1>5. CASE EngineStep \/ EngineLoads \/ CallbackStops
  <2>1. CheckpointThread
    BY <1>5 DEF EngineStep, EngineLoads, CallbackStops, CheckpointThread
  <2>. QED
    BY <2>1, TypeNext DEF Next
<1>6. CASE Canceling \/ Quit
  <2>1. \E c \in Cancellers : CancelCheckpoints(c) \/ CancelStep(c)
    BY <1>6, TextAssumption DEF Canceling, Quit
  <2>. QED
    BY <2>1, TypeNext DEF Next
<1>7. CASE \/ Prepared \/ PollMessage \/ PollEnds \/ Decide
           \/ Sent \/ CallbackTells \/ ReportProgress \/ Over \/ UNCHANGED textVars
  BY <1>1, <1>7 DEF Prepared, PollMessage, PollEnds, Decide, Sent, CallbackTells,
                    ReportProgress, Over, textVars
<1>. QED
  BY <1>2, <1>3, <1>4, <1>5, <1>6, <1>7, <1>8 DEF TextNext, UiThread, EngineThread

--------------------------------------------------------------------------------
(* The thread of the user interface                                         *)

(* Inserting after the last one appends.                                    *)
LEMMA InsertedLast ==
    ASSUME NEW S, NEW s \in Seq(S), NEW e \in S
    PROVE  /\ Len(Inserted(s, Len(s) + 1, e)) = Len(s) + 1
           /\ \A j \in 1 .. Len(s) + 1 :
                Inserted(s, Len(s) + 1, e)[j] = IF j < Len(s) + 1 THEN s[j] ELSE e
<1>1. Len(s) + 1 \in 1 .. Len(s) + 1 /\ Len(s) \in Nat
  BY LenProperties
<1>. QED
  BY SMTT(60), <1>1, InsertedType

LEMMA RegisterKeeps ==
    ASSUME TextInv, TypeOK', Register
    PROVE  TextInv'
<1>. USE DEF TextInv, Displaying, Register
<1>1. CASE Count < Len(List)
  <2>1. RegisterCheckpoint(List[Count + 1], 0)
    BY <1>1
  <2>2. Count \in Nat /\ List[Count + 1] \in Names /\ checkpoints \in Seq(Names)
        /\ Len(List) \in Nat
    BY <1>1, CountType, ListType
  <2>3. /\ Len(checkpoints') = Count + 1
        /\ \A j \in 1 .. Count + 1 :
              checkpoints'[j] = IF j < Count + 1 THEN checkpoints[j] ELSE List[Count + 1]
    <3>1. checkpoints' = Inserted(checkpoints, Count + 1, List[Count + 1])
      BY <2>1 DEF RegisterCheckpoint
    <3>2. Count = Len(checkpoints)
      BY DEF Count
    <3>. QED
      BY <2>2, <3>1, <3>2, InsertedLast
  <2>4. Count' = Count + 1 /\ Count' <= Len(List)
    BY <1>1, <2>2, <2>3 DEF Count
  <2>5. \A i \in 1 .. Count' : checkpoints'[i] = List[i]
    BY <2>2, <2>3, <2>4
  <2>6. Untouched' /\ UNCHANGED <<uiPc, told, outcome, execStatus, serverUp, results, run>>
    BY <1>1, <2>1, <2>2 DEF Untouched, RegisterCheckpoint, cancelVars, TypeOK
  <2>. QED
    BY <2>4, <2>5, <2>6
<1>2. CASE ~(Count < Len(List))
  <2>1. uiPc' = "prepare" /\ UNCHANGED <<vars, told, outcome, execStatus, serverUp>>
    BY <1>2 DEF engineVars
  <2>2. checkpoints = List
    <3>1. Len(checkpoints) = Len(List) /\ \A i \in 1 .. Len(List) : checkpoints[i] = List[i]
      BY <1>2, CountType, ListType
    <3>2. checkpoints \in Seq(Names) /\ List \in Seq(Names)
      BY CountType, ListType
    <3>. QED
      BY <3>1, <3>2, SeqEqual
  <2>3. Untouched'
    BY <2>1 DEF vars, Untouched
  <2>. QED
    BY <2>1, <2>2, <2>3 DEF vars
<1>. QED
  BY <1>1, <1>2

LEMMA PrepareKeeps ==
    ASSUME TextInv, TypeOK', Prepare
    PROVE  TextInv'
<1>. USE DEF TextInv, Displaying, Prepare
<1>1. Untouched /\ results[1] = "none" /\ run = 0 /\ checkpoints = List /\ Count = Len(List)
  BY DEF Count
<1>2. PICK first \in 1 .. Count + 1 :
          /\ IsFirstIncomplete(first)
          /\ \/ Continue(first, 1, 2, "blocking")
             \/ RollbackAndExecute(first, 1, 2, "blocking")
  BY DEF ExecuteCheckpoints
<1>3. first = 1
  <2>1. ~Done(1) /\ Count \in Nat
    BY <1>1, ListType DEF Untouched, Done
  <2>. QED
    BY <1>2, <2>1 DEF IsFirstIncomplete
<1>4. Continue(1, 1, 2, "blocking") /\ 1 <= Count
  BY <1>1, <1>2, <1>3, ListType DEF RollbackAndExecute
<1>5. CreateThread(ExecList(1, 2), "blocking") /\ UNCHANGED completed
  BY <1>4, <1>1, ListType DEF Continue
<1>6. ExecList(1, 2) = <<List[1]>>
  BY <1>1, FirstList
<1>7. <<List[1]>> # <<>>
  OBVIOUS
<1>8. /\ pc' = "created" /\ thread' = "pseudo" /\ threadRun' = 1 /\ execList' = <<List[1]>>
      /\ pos' = 1 /\ status' = "EXEC_SUCCESS"
      /\ UNCHANGED <<checkpoints, completed, executing, cancelEvent, results>>
  <2>1. CreateThread(<<List[1]>>, "blocking") /\ UNCHANGED completed /\ run = 0
    BY <1>1, <1>5, <1>6
  <2>. QED
    BY <1>7, <2>1 DEF CreateThread, cancelVars
<1>9. FirstRun'
  BY <1>1, <1>8 DEF Untouched, FirstRun, Working
<1>. QED
  BY <1>9

LEMMA PreparedKeeps ==
    ASSUME TextInv, TypeOK', Prepared
    PROVE  TextInv'
<1>. USE DEF TextInv, Displaying, Prepared
<1>1. FirstRun /\ pc = "idle" /\ executing = None /\ checkpoints = List
  BY DEF FirstRun
<1>2. UNCHANGED <<checkpoints, completed, pc, executing, told, execStatus>>
  BY DEF engineVars, vars
<1>3. CASE results[1] = "EXEC_SUCCESS"
  <2>1. \A n \in Names : completed[n] <=> n = List[1]
    BY <1>3, ListType DEF FirstRun
  <2>. QED
    BY <1>1, <1>2, <1>3, <2>1
<1>4. CASE results[1] # "EXEC_SUCCESS"
  BY <1>1, <1>2, <1>4
<1>. QED
  BY <1>3, <1>4

LEMMA StartInstallKeeps ==
    ASSUME TextInv, TypeOK', StartInstall
    PROVE  TextInv'
<1>. USE DEF TextInv, Displaying, StartInstall
<1>1. /\ pc = "idle" /\ executing = None /\ serverUp /\ checkpoints = List
      /\ \A n \in Names : completed[n] <=> n = List[1]
      /\ ~told /\ outcome = "none"
  OBVIOUS
<1>2. PICK first \in 1 .. Count + 1 :
          /\ IsFirstIncomplete(first)
          /\ \/ Continue(first, 0, 0, "callback")
             \/ RollbackAndExecute(first, 0, 0, "callback")
  BY DEF ExecuteCheckpoints
<1>3. Continue(first, 0, 0, "callback")
  BY <1>2 DEF RollbackAndExecute
<1>4. /\ UNCHANGED <<completed, checkpoints, executing>>
      /\ CreateThread(IF first > Count THEN <<>> ELSE ExecList(first, 0), "callback")
  BY <1>3 DEF Continue, CreateThread
<1>5. Count = Len(List) /\ Count \in Nat /\ Count >= 2
  BY <1>1, ListType DEF Count
<1>6. \A j \in 1 .. first - 1 : completed[List[j]]
  BY <1>1, <1>2 DEF IsFirstIncomplete, Done
<1>7. CASE first > Count
  <2>1. \A n \in Names : completed[n]
    <3>1. \A j \in 1 .. Len(List) : completed[List[j]]
      BY <1>5, <1>6, <1>7
    <3>. QED
      BY <3>1, ListType
  <2>2. pc' = "idle"
    BY <1>1, <1>4, <1>7 DEF CreateThread
  <2>3. SecondRun'
    BY <1>1, <1>4, <2>2 DEF SecondRun, Working
  <2>. QED
    BY <1>1, <2>3
<1>8. CASE ~(first > Count)
  <2>1. first \in 1 .. Count /\ 0 \in 0 .. Count /\ checkpoints \in Seq(Names)
    BY <1>5, <1>8 DEF TypeOK
  <2>. DEFINE e == ExecList(first, 0)
  <2>2. /\ Len(e) = Count + 1 - first
        /\ \A i \in 1 .. Len(e) : e[i] = checkpoints[first + i - 1]
    BY <2>1, RestList
  <2>3. Len(e) # 0 /\ e # <<>> /\ CreateThread(e, "callback")
    <3>1. Len(e) # 0
      BY <1>5, <2>1, <2>2
    <3>. QED
      BY <1>4, <1>8, <3>1
  <2>. HIDE DEF e
  <2>4. /\ pc' = "created" /\ thread' = "thread" /\ execList' = e /\ pos' = 1
        /\ status' = "EXEC_SUCCESS"
    BY <2>3 DEF CreateThread
  <2>5. ASSUME NEW n \in Names
        PROVE  completed[n] \/ \E j \in 1 .. Len(e) : e[j] = n
    <3>1. PICK i \in 1 .. Len(List) : List[i] = n
      BY ListType
    <3>2. CASE i < first
      BY <1>5, <1>6, <2>1, <3>1, <3>2
    <3>3. CASE i >= first
      <4>1. i - first + 1 \in 1 .. Len(e) /\ first + (i - first + 1) - 1 = i
        BY <1>5, <2>1, <2>2, <3>3
      <4>. QED
        BY <1>1, <2>2, <3>1, <4>1
    <3>. QED
      BY <1>5, <2>1, <3>2, <3>3
  <2>6. ~completed[Populate]
    BY <1>1, ListType
  <2>7. SecondRun'
    BY <1>1, <1>4, <2>4, <2>5, <2>6 DEF SecondRun, Working
  <2>. QED
    BY <1>1, <2>7
<1>. QED
  BY <1>7, <1>8

\* Starting the thread changes nothing else.
LEMMA StartsKeep ==
    ASSUME TextInv, TypeOK', StartsThread
    PROVE  TextInv'
<1>. USE DEF TextInv, Displaying, StartsThread
<1>1. /\ pc = "created" /\ pc' = "load"
      /\ UNCHANGED <<cpVars, runVars, pos, status, failed, executing, cancelVars, run, results>>
      /\ UNCHANGED <<told, execStatus, serverUp, outcome>>
  BY DEF StartThread
<1>2. CASE uiPc = "preparing"
  <2>1. FirstRun' /\ uiPc' = uiPc
    BY <1>1, <1>2 DEF FirstRun, Working, cpVars, runVars, cancelVars
  <2>. QED
    BY <1>1, <1>2, <2>1
<1>3. CASE uiPc = "starting"
  <2>1. SecondRun' /\ uiPc' = "poll"
    BY <1>1, <1>3 DEF SecondRun, Working, Verdict, Displaying, cpVars, runVars
  <2>. QED
    BY <1>1, <1>3, <2>1 DEF Displaying
<1>. QED
  BY <1>2, <1>3

\* The display and the socket say nothing about the engine.
LEMMA DisplayKeeps ==
    ASSUME TextInv, TypeOK', PollMessage \/ PollEnds \/ Sent \/ ReportProgress
    PROVE  TextInv'
<1>. USE DEF TextInv, Displaying
<1>1. UNCHANGED <<vars, told, execStatus, serverUp, outcome>>
  BY DEF PollMessage, PollEnds, Sent, ReportProgress, engineVars
<1>2. /\ UNCHANGED <<Untouched, FirstRun, SecondRun>>
      /\ UNCHANGED <<checkpoints, Count, pc, executing, completed, results, run>>
  BY <1>1 DEF vars, Untouched, FirstRun, SecondRun, Verdict, Count
<1>3. CASE Sent \/ ReportProgress
  <2>1. uiPc' = uiPc
    BY <1>3 DEF Sent, ReportProgress
  <2>. QED
    BY <1>1, <1>2, <2>1
<1>4. CASE PollMessage
  BY <1>1, <1>2, <1>4 DEF PollMessage
<1>5. CASE PollEnds
  BY <1>1, <1>2, <1>5 DEF PollEnds
<1>. QED
  BY <1>3, <1>4, <1>5

\* The user quits during the second run only.
LEMMA QuitKeeps ==
    ASSUME TextInv, TypeOK', Quit \/ Canceling
    PROVE  TextInv'
<1>. USE DEF TextInv, Displaying
<1>1. /\ uiPc \in {"poll", "canceling"} /\ uiPc' \in {"poll", "canceling", "blind"}
      /\ UNCHANGED <<told, execStatus, serverUp, outcome>>
  BY DEF Quit, Canceling
<1>2. UNCHANGED <<cpVars, runVars, pc, pos, status, failed, executing, results>>
  BY DEF Quit, Canceling, CancelCheckpoints, CancelStep, CancelRead, CancelJoined, CancelClear
<1>3. SecondRun'
  BY <1>1, <1>2 DEF SecondRun, Verdict, cpVars, runVars
<1>. QED
  BY <1>1, <1>3

LEMMA DecideKeeps ==
    ASSUME TextInv, TypeOK', Decide
    PROVE  TextInv'
<1>. USE DEF TextInv, Displaying
<1>1. UNCHANGED <<vars, told, execStatus, serverUp>>
  BY DEF Decide, engineVars
<1>2. CASE uiPc = "blind" /\ ~told
  BY <1>1, <1>2 DEF Decide
<1>4. CASE uiPc = "blind" /\ told
  <2>1. /\ uiPc' = "done" /\ Verdict(execStatus) /\ executing = None
        /\ pc \in {"callback", "exiting", "idle"}
    BY <1>4 DEF Decide, SecondRun
  <2>2. outcome' = "succeeded" => OutcomeOf(execStatus) = "finish" /\ completed[Populate]
    BY DEF Decide, OutcomeOf
  <2>3. outcome' = "succeeded" => \A n \in Names : completed[n]
    BY <2>1, <2>2 DEF OutcomeOf, Verdict, Statuses
  <2>. QED
    BY <1>1, <2>1, <2>3 DEF vars
<1>3. CASE uiPc = "decide"
  <2>1. uiPc' = "done" /\ SecondRun /\ ~serverUp
    BY <1>3 DEF Decide
  <2>2. pc \in {"idle", "exiting"} /\ executing = None /\ Verdict(execStatus)
    BY <2>1 DEF SecondRun
  <2>3. outcome' = "succeeded" => \A n \in Names : completed[n]
    <3>1. SUFFICES ASSUME outcome' = "succeeded"
                   PROVE  \A n \in Names : completed[n]
      OBVIOUS
    <3>2. OutcomeOf(execStatus) # "succeeded"
      BY DEF OutcomeOf
    <3>3. OutcomeOf(execStatus) = "finish" /\ completed[Populate]
      BY <3>1, <3>2 DEF Decide
    <3>4. execStatus \in {"EXEC_SUCCESS", "CP_INIT_FAILED", "FATAL_INTERNAL"}
      BY <3>3 DEF OutcomeOf, Statuses
    <3>. QED
      BY <2>2, <3>3, <3>4 DEF Verdict
  <2>. QED
    BY <1>1, <2>1, <2>2, <2>3 DEF vars
<1>. QED
  BY <1>2, <1>3, <1>4 DEF Decide

--------------------------------------------------------------------------------
(* The checkpoint thread                                                    *)

\* What a step of the engine must leave as it is for the installer: nothing is
\* registered, and when the user interface is not waiting for a run the engine
\* can only finish one.
LEMMA EngineFrame ==
    ASSUME TextInv, CheckpointThread, UNCHANGED <<uiPc, outcome>>,
           TypeOK', execStatus' \in Statuses, told' \in BOOLEAN, serverUp' \in BOOLEAN,
           uiPc = "preparing" => ~told' /\ FirstRun',
           uiPc \in Displaying => SecondRun',
           uiPc = "decide" => ~serverUp'
    PROVE  TextInv'
<1>. USE DEF TextInv, Displaying
<1>1. pc # "idle"
  BY DEF CheckpointThread, LoadCheckpoints, TakeNext, PreSnapshot, CheckpointReturns,
         CheckpointRaises, CheckpointRaisesGoOn, PostSnapshot, Finish, Callback, Exit
<1>2. uiPc \notin {"register", "prepare", "start"}
  BY <1>1 DEF Untouched
<1>3. CASE uiPc = "done"
  <2>1. pc \in {"callback", "exiting"} /\ (Callback \/ Exit)
    BY <1>1, <1>3 DEF CheckpointThread, LoadCheckpoints, TakeNext, PreSnapshot,
       CheckpointReturns, CheckpointRaises, CheckpointRaisesGoOn, PostSnapshot, Finish
  <2>2. pc' \in {"idle", "exiting"} /\ UNCHANGED <<executing, completed>>
    BY <2>1 DEF Exit, Callback, cpVars
  <2>. QED
    BY <1>3, <2>2
<1>. QED
  BY <1>2, <1>3

\* The first run, step by step.
LEMMA FirstRunKeeps ==
    ASSUME ~SnapshotMayFail, TypeOK, TypeOK', FirstRun, EngineStep
    PROVE  FirstRun'
<1>. USE DEF FirstRun, Working
<1>1. /\ List[1] \in Names /\ None \notin Names
      /\ execList = <<List[1]>> => Len(execList) = 1 /\ execList[1] = List[1]
  BY SMTT(90), ListType, EngineAssumption
<1>2. CASE TakeNext
  <2>1. /\ pc = "loop" /\ UNCHANGED <<cpVars, runVars, pos, results, cancelVars>>
        /\ pc' \in {"finish", "presnap", "exec"} /\ status' = status
    BY <1>2 DEF TakeNext
  <2>2. CASE pc' = "finish"
    <3>1. pos > 1
      BY <1>1, <1>2, <2>1, <2>2 DEF TakeNext, TypeOK
    <3>. QED
      BY <2>1, <2>2, <3>1 DEF cpVars, runVars, cancelVars
  <2>3. CASE pc' # "finish"
    BY <2>1, <2>3 DEF cpVars, runVars, cancelVars
  <2>. QED
    BY <2>2, <2>3
<1>3. CASE PreSnapshot
  <2>1. /\ pc = "presnap" /\ pc' = "exec"
        /\ UNCHANGED <<checkpoints, completed, runVars, pos, status, results, cancelVars>>
    BY <1>3 DEF PreSnapshot
  <2>. QED
    BY <2>1 DEF runVars, cancelVars
<1>4. CASE CheckpointReturns
  <2>1. /\ pc = "exec" /\ pc' \in {"postsnap", "loop"} /\ Record(TRUE)
        /\ UNCHANGED <<checkpoints, runVars, status, results, cancelVars>>
    BY <1>4 DEF CheckpointReturns
  <2>2. executing = List[1]
    <3>1. pc # "idle" /\ pc \in {"presnap", "exec"} /\ execList = <<List[1]>>
      BY <2>1
    <3>2. executing = execList[pos] /\ pos <= Len(execList)
      BY <3>1 DEF TypeOK
    <3>3. pos \in 1 .. Len(execList) + 1
      BY DEF TypeOK
    <3>4. pos = 1
      BY <1>1, <3>1, <3>2, <3>3
    <3>. QED
      BY <1>1, <3>1, <3>2, <3>4
  <2>3. completed' = [completed EXCEPT ![List[1]] = TRUE]
    BY <2>1, <2>2 DEF Record
  <2>4. completed'[List[1]] /\ \A n \in Names : completed'[n] => n = List[1]
    BY <1>1, <2>3 DEF TypeOK
  <2>. QED
    BY <2>1, <2>4 DEF runVars, cancelVars
<1>5. CASE CheckpointRaises
  <2>1. /\ pc = "exec" /\ pc' = "finish" /\ status' # "EXEC_SUCCESS"
        /\ UNCHANGED <<cpVars, runVars, results, cancelVars>>
    BY <1>5 DEF CheckpointRaises
  <2>. QED
    BY <2>1 DEF cpVars, runVars, cancelVars
<1>6. CASE PostSnapshot
  <2>1. /\ pc = "postsnap" /\ pc' = "loop"
        /\ UNCHANGED <<cpVars, runVars, pos, status, results, cancelVars>>
    BY <1>6 DEF PostSnapshot
  <2>. QED
    BY <2>1 DEF cpVars, runVars, cancelVars
<1>7. CASE Finish
  <2>1. /\ pc = "finish" /\ executing' = None /\ pc' \in {"idle", "callback"}
        /\ UNCHANGED <<cpVars, thread, threadRun, cancelVars>>
    BY <1>7 DEF Finish, ForgetLocals
  <2>2. CASE pc' = "idle"
    <3>1. results' = [results EXCEPT ![1] = status] /\ status = "FATAL_INTERNAL"
      BY <1>7, <2>1, <2>2 DEF Finish, Report
    <3>2. results'[1] # "EXEC_SUCCESS"
      BY <3>1, TextAssumption DEF TypeOK
    <3>. QED
      BY <2>1, <2>2, <3>2 DEF cpVars, cancelVars
  <2>3. CASE pc' = "callback"
    <3>1. UNCHANGED <<results, execList, status>>
      BY <1>7, <2>3 DEF Finish
    <3>. QED
      BY <2>1, <2>3, <3>1 DEF cpVars, cancelVars
  <2>. QED
    BY <2>1, <2>2, <2>3
<1>8. CASE LoadCheckpoints
  <2>1. /\ pc = "load" /\ pc' \in {"loop", "exiting"}
        /\ UNCHANGED <<cpVars, runVars, pos, status, cancelVars>>
        /\ pc' = "loop" => results' = results
        /\ pc' = "exiting" => executing' = None
                              /\ results' = [results EXCEPT ![1] = "CP_INIT_FAILED"]
    BY <1>8 DEF LoadCheckpoints, Report
  <2>2. results' = results \/ results'[1] # "EXEC_SUCCESS"
    BY <2>1, TextAssumption DEF TypeOK
  <2>. QED
    BY <2>1, <2>2 DEF cpVars, runVars, cancelVars
<1>9. CASE Callback
  <2>1. /\ pc = "callback" /\ pc' = "exiting"
        /\ results' = [results EXCEPT ![1] = status]
        /\ UNCHANGED <<cpVars, runVars, status, executing, cancelVars>>
    BY <1>9 DEF Callback, Report
  <2>2. results'[1] = status
    BY <2>1, TextAssumption DEF TypeOK
  <2>. QED
    BY <2>1, <2>2 DEF cpVars, runVars, cancelVars
<1>10. CASE Exit
  <2>1. pc = "exiting" /\ pc' = "idle" /\ UNCHANGED <<cpVars, executing, cancelVars, results>>
    BY <1>10 DEF Exit
  <2>. QED
    BY <2>1 DEF cpVars, cancelVars
<1>. QED
  BY <1>2, <1>3, <1>4, <1>5, <1>6, <1>7, <1>8, <1>9, <1>10 DEF EngineStep

\* The second run, step by step.
LEMMA SecondRunKeeps ==
    ASSUME ~SnapshotMayFail, TypeOK, TypeOK', SecondRun, EngineStep
    PROVE  SecondRun'
<1>. USE DEF SecondRun, Working, Verdict
<1>1. None \notin Names /\ thread = "thread" /\ pc # "idle" /\ Populate \in Names
      /\ UNCHANGED <<told, execStatus, serverUp>>
  <2>1. None \notin Names /\ Populate \in Names
    BY ListType, EngineAssumption
  <2>2. UNCHANGED <<told, execStatus, serverUp>>
    BY DEF EngineStep, uiVars
  <2>3. pc # "idle"
    BY DEF EngineStep, TakeNext, PreSnapshot, CheckpointReturns, CheckpointRaises,
       PostSnapshot, Finish, Exit, LoadCheckpoints, Callback
  <2>4. thread = "thread"
    BY <2>3
  <2>. QED
    BY <2>1, <2>2, <2>3, <2>4
<1>2. CASE TakeNext
  <2>1. /\ pc = "loop" /\ UNCHANGED <<cpVars, runVars, pos>>
        /\ pc' \in {"finish", "presnap", "exec"}
    BY <1>2 DEF TakeNext, FatalInternal
  <2>2. CASE pos > Len(execList)
    <3>1. pc' = "finish" /\ status' = status /\ \A n \in Names : completed[n]
      BY <1>2, <2>1, <2>2 DEF TakeNext, TypeOK
    <3>. QED
      BY <1>1, <2>1, <3>1 DEF cpVars, runVars
  <2>3. CASE pos <= Len(execList) /\ cancelEvent /\ executing # None
    <3>1. pc' = "finish" /\ status' = "EXEC_CANCELED"
      BY <1>2, <2>3 DEF TakeNext, TypeOK
    <3>. QED
      BY <1>1, <2>1, <3>1 DEF cpVars, runVars
  <2>4. CASE pos <= Len(execList) /\ cancelEvent /\ executing = None
    <3>1. pc' = "finish" /\ status' = "FATAL_INTERNAL" /\ ~completed[Populate]
      BY <1>2, <2>1, <2>4 DEF TakeNext, FatalInternal, TypeOK
    <3>. QED
      BY <1>1, <2>1, <3>1 DEF cpVars, runVars
  <2>5. CASE pos <= Len(execList) /\ ~cancelEvent
    <3>1. pc' \in {"presnap", "exec"} /\ status' = status
      BY <1>2, <2>5 DEF TakeNext, TypeOK
    <3>. QED
      BY <1>1, <2>1, <3>1 DEF cpVars, runVars
  <2>. QED
    BY SMTT(90), <2>2, <2>3, <2>4, <2>5 DEF TypeOK
<1>3. CASE PreSnapshot
  <2>1. /\ pc = "presnap" /\ pc' = "exec"
        /\ UNCHANGED <<checkpoints, completed, runVars, pos, status, executing>>
    BY <1>3 DEF PreSnapshot
  <2>. QED
    BY <1>1, <2>1 DEF runVars
<1>4. CASE CheckpointReturns
  <2>1. /\ pc = "exec" /\ pc' = "postsnap" /\ Record(TRUE)
        /\ UNCHANGED <<checkpoints, runVars, status, executing>>
    BY <1>4 DEF CheckpointReturns
  <2>2. /\ executing = execList[pos] /\ executing \in Names /\ pos' = pos + 1
        /\ completed' = [completed EXCEPT ![executing] = TRUE]
        /\ pos \in 1 .. Len(execList) /\ Len(execList) \in Nat
    BY <2>1, ElementOfSeq, LenProperties DEF Record, TypeOK
  <2>3. ASSUME NEW n \in Names
        PROVE  completed'[n] \/ \E j \in pos + 1 .. Len(execList) : execList[j] = n
    <3>1. CASE completed[n]
      BY <2>2, <3>1 DEF TypeOK
    <3>2. CASE ~completed[n]
      <4>1. PICK j \in pos .. Len(execList) : execList[j] = n
        BY <2>1, <3>2
      <4>2. CASE j = pos
        BY <2>2, <4>1, <4>2 DEF TypeOK
      <4>3. CASE j # pos
        <5>1. j \in pos + 1 .. Len(execList)
          BY <2>2, <4>3
        <5>. QED
          BY <4>1, <5>1
      <4>. QED
        BY <4>2, <4>3
    <3>. QED
      BY <3>1, <3>2
  <2>4. pos' # 1 /\ executing' # None /\ execList' = execList /\ thread' = "thread"
    BY <1>1, <2>1, <2>2 DEF runVars
  <2>. QED
    BY <1>1, <2>1, <2>2, <2>3, <2>4
<1>5. CASE CheckpointRaises
  <2>1. /\ pc = "exec" /\ pc' = "finish" /\ status' = "EXEC_FAILED"
        /\ UNCHANGED <<cpVars, runVars>>
    BY <1>1, <1>5 DEF CheckpointRaises
  <2>. QED
    BY <1>1, <2>1 DEF cpVars, runVars
<1>6. CASE PostSnapshot
  <2>1. /\ pc = "postsnap" /\ pc' = "loop"
        /\ UNCHANGED <<cpVars, runVars, pos, status, executing>>
    BY <1>6 DEF PostSnapshot
  <2>. QED
    BY <1>1, <2>1 DEF cpVars, runVars
<1>7. CASE Finish
  <2>1. /\ pc = "finish" /\ executing' = None /\ pc' = "callback" /\ status' = status
        /\ UNCHANGED <<cpVars, thread>>
    BY <1>1, <1>7 DEF Finish
  <2>. QED
    BY <1>1, <2>1 DEF cpVars
<1>8. CASE Exit
  <2>1. pc = "exiting" /\ pc' = "idle" /\ UNCHANGED <<cpVars, executing>>
    BY <1>8 DEF Exit
  <2>. QED
    BY <1>1, <2>1 DEF cpVars
<1>. QED
  BY <1>1, <1>2, <1>3, <1>4, <1>5, <1>6, <1>7, <1>8 DEF EngineStep

LEMMA EngineStepKeeps ==
    ASSUME ~SnapshotMayFail, TextInv, TypeOK', EngineStep
    PROVE  TextInv'
<1>1. CheckpointThread /\ UNCHANGED <<uiPc, outcome, told, execStatus, serverUp>>
  BY DEF EngineStep, CheckpointThread, uiVars
<1>2. uiPc = "preparing" => FirstRun'
  BY FirstRunKeeps DEF TextInv
<1>3. uiPc \in Displaying => SecondRun'
  BY SecondRunKeeps DEF TextInv
<1>. QED
  BY <1>1, <1>2, <1>3, EngineFrame DEF TextInv

\* Only the second run has a thread of its own.
LEMMA CallbacksKeep ==
    ASSUME TextInv, TypeOK', EngineLoads \/ CallbackTells \/ CallbackStops
    PROVE  TextInv'
<1>. USE DEF SecondRun, Working, Verdict
<1>1. pc \in {"load", "callback"} /\ thread = "thread" /\ UNCHANGED <<uiPc, outcome>>
  BY DEF EngineLoads, CallbackTells, CallbackStops, LoadCheckpoints, Callback
<1>2. uiPc # "preparing" /\ execStatus \in Statuses /\ status \in Statuses
      /\ told \in BOOLEAN /\ serverUp \in BOOLEAN
  BY <1>1 DEF TextInv, FirstRun, TypeOK
<1>3. CASE EngineLoads
  <2>1. /\ pc = "load" /\ pc' \in {"loop", "exiting"}
        /\ UNCHANGED <<cpVars, runVars, pos, status>>
        /\ CheckpointThread
    BY <1>3 DEF EngineLoads, LoadCheckpoints, CheckpointThread
  <2>2. CASE pc' = "exiting"
    <3>1. execStatus' = "CP_INIT_FAILED" /\ serverUp' = FALSE /\ executing' = None /\ told'
      BY <1>3, <2>1, <2>2 DEF EngineLoads, LoadCheckpoints
    <3>2. uiPc \in Displaying => SecondRun'
      BY <1>1, <2>1, <2>2, <3>1 DEF TextInv, cpVars, runVars
    <3>. QED
      BY <1>1, <1>2, <2>1, <3>1, <3>2, EngineFrame DEF TextInv, Statuses
  <2>3. CASE pc' = "loop"
    <3>1. UNCHANGED <<execStatus, serverUp, executing, told>>
      BY <1>3, <2>1, <2>3 DEF EngineLoads, LoadCheckpoints
    <3>2. uiPc \in Displaying => SecondRun'
      BY <1>1, <2>1, <2>3, <3>1 DEF TextInv, cpVars, runVars
    <3>. QED
      BY <1>1, <1>2, <2>1, <3>1, <3>2, EngineFrame DEF TextInv
  <2>. QED
    BY <2>1, <2>2, <2>3
<1>4. CASE CallbackTells
  <2>1. /\ execStatus' = status /\ told' = TRUE /\ UNCHANGED <<vars, serverUp>>
        /\ pc = "callback"
    BY <1>4 DEF CallbackTells, engineVars
  <2>2. uiPc \in Displaying => SecondRun'
    BY <1>1, <2>1 DEF TextInv, vars
  <2>3. uiPc \notin {"register", "prepare", "start"}
    BY <2>1 DEF TextInv, Untouched
  <2>. QED
    BY <1>1, <1>2, <2>1, <2>2, <2>3 DEF TextInv, vars
<1>5. CASE CallbackStops
  <2>1. /\ pc = "callback" /\ pc' = "exiting" /\ told /\ serverUp' = FALSE
        /\ UNCHANGED <<cpVars, runVars, executing, execStatus, told>>
        /\ CheckpointThread
    BY <1>5 DEF CallbackStops, Callback, CheckpointThread
  <2>2. uiPc \in Displaying => SecondRun'
    BY <1>1, <2>1 DEF TextInv, cpVars, runVars
  <2>. QED
    BY <1>1, <1>2, <2>1, <2>2, EngineFrame DEF TextInv
<1>. QED
  BY <1>3, <1>4, <1>5

--------------------------------------------------------------------------------
(* The theorems                                                             *)

LEMMA TextInitially ==
    ASSUME TextInit
    PROVE  TextInv
<1>1. TypeOK
  BY TypeInit DEF TextInit
<1>2. Untouched /\ run = 0 /\ Count = 0
  BY DEF TextInit, Init, Untouched, Count
<1>3. results[1] = "none"
  BY TextAssumption, EngineAssumption DEF TextInit, Init
<1>4. Count <= Len(List) /\ \A i \in 1 .. Count : checkpoints[i] = List[i]
  BY <1>2, ListType
<1>. QED
  BY <1>1, <1>2, <1>3, <1>4 DEF TextInit, TextInv, Displaying, Statuses

LEMMA TextInductive ==
    ASSUME ~SnapshotMayFail, TextInv, [TextNext]_textVars
    PROVE  TextInv'
<1>1. TypeOK'
  BY TextTypes
<1>2. CASE Over \/ UNCHANGED textVars
  <2>1. UNCHANGED <<vars, uiPc, told, execStatus, serverUp, outcome>>
    BY <1>2 DEF Over, textVars, engineVars, uiVars
  <2>. QED
    BY <1>1, <2>1 DEF TextInv, vars, Untouched, FirstRun, SecondRun, Verdict, Count
<1>3. CASE UiThread \/ Quit
  BY <1>1, <1>3, RegisterKeeps, PrepareKeeps, PreparedKeeps, StartInstallKeeps, StartsKeep,
     DisplayKeeps, QuitKeeps, DecideKeeps DEF UiThread
<1>4. CASE EngineThread \/ ReportProgress
  BY <1>1, <1>4, DisplayKeeps, EngineStepKeeps, CallbacksKeep DEF EngineThread
<1>. QED
  BY <1>2, <1>3, <1>4 DEF TextNext

LEMMA TextInvariant ==
    ASSUME ~SnapshotMayFail
    PROVE  TextSpec => []TextInv
<1>1. TextInit => TextInv
  BY TextInitially
<1>2. TextInv /\ [TextNext]_textVars => TextInv'
  BY TextInductive
<1>. QED
  BY <1>1, <1>2, PTL DEF TextSpec

\* A success concluded after the engine has told its result means that every
\* checkpoint has completed, whenever the user quits and whatever the
\* checkpoints and their constructors do.  Two exceptions: a snapshot that cannot
\* be written, and a conclusion drawn "early" (see SuccessIsComplete), which
\* only an exception of the display or of the socket brings about.
THEOREM SuccessIsCompleteHolds ==
    ASSUME ~SnapshotMayFail
    PROVE  TextSpec => []SuccessIsComplete
<1>1. TextInv => SuccessIsComplete
  BY DEF TextInv, SuccessIsComplete
<1>. QED
  BY <1>1, TextInvariant, PTL

\* A conclusion that is not drawn early finds the engine executing nothing.
THEOREM ConcludedWhenIdleHolds ==
    ASSUME ~SnapshotMayFail
    PROVE  TextSpec => []ConcludedWhenIdle
<1>1. TextInv => ConcludedWhenIdle
  BY DEF TextInv, ConcludedWhenIdle
<1>. QED
  BY <1>1, TextInvariant, PTL
================================================================================
