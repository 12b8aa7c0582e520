------------------------------ MODULE TextInstall ------------------------------
(***************************************************************************)
(* The text installer at work (cmd/text-install/ti_install.py) with the    *)
(* engine it drives: the thread of the user interface starts the engine,   *)
(* shows the progress messages it reads from a socket, cancels when the    *)
(* user quits, and decides in the end whether the installation succeeded.  *)
(* The checkpoint thread writes the messages and calls exec_callback().    *)
(***************************************************************************)
EXTENDS InstallEngine

CONSTANTS
    List,         \* the checkpoints in the order they are registered
    Populate,     \* the one that puts a file system at the mountpoint
    Ui,           \* the thread of the user interface
    UiMayRaise,   \* whether reading or showing a message may raise
    Capacity,     \* progress messages that fit into the socket's buffer
    MaxMessages   \* bound on the progress messages of the installation

ASSUME TextAssumption ==
    /\ Ui \in Cancellers /\ StopOnError /\ Modes = {"callback", "blocking"}
    /\ List \in Seq(Names) /\ Names = {List[i] : i \in DOMAIN List}
    /\ Populate \in Names \ {List[1]}
    /\ Len(List) >= 2 /\ MaxRuns >= 2
    /\ UiMayRaise \in BOOLEAN
    /\ Capacity \in Nat \ {0} /\ MaxMessages \in Nat

VARIABLES
    uiPc,            \* where the user interface is
    execStatus,      \* INSTALL_STATUS.exec_status
    serverUp,        \* prog_handler.server_up
    processingQuit,  \* the local variable of report_status()
    unread,          \* messages in the socket's buffer
    sending,         \* a checkpoint is in ProgressHandler.send()
    sent,            \* messages sent in this run
    told,            \* the engine's result has reached exec_status
    outcome          \* "none", then what perform_ti_install() concludes

engineVars == vars
socketVars == <<unread, sending, sent>>
uiVars == <<uiPc, execStatus, serverUp, processingQuit, unread, sending, sent,
            told, outcome>>
textVars == <<engineVars, uiVars>>

TextInit ==
    /\ Init
    /\ uiPc = "register"
    /\ execStatus = "EXEC_SUCCESS" /\ serverUp = FALSE /\ processingQuit = FALSE
    /\ unread = 0 /\ sending = FALSE /\ sent = 0
    /\ told = FALSE
    /\ outcome = "none"

--------------------------------------------------------------------------------
(* The thread of the user interface                                         *)

\* prepare_engine()
Register ==
    /\ uiPc = "register"
    /\ IF Count < Len(List)
       THEN RegisterCheckpoint(List[Count + 1], 0) /\ UNCHANGED uiPc
       ELSE uiPc' = "prepare" /\ UNCHANGED engineVars
    /\ UNCHANGED <<execStatus, serverUp, processingQuit, socketVars, told, outcome>>

\* The first checkpoint, by itself and in the caller's thread.
Prepare ==
    /\ uiPc = "prepare"
    /\ ExecuteCheckpoints(1, 2, "blocking")
    /\ uiPc' = "preparing"
    /\ UNCHANGED <<execStatus, serverUp, processingQuit, socketVars, told, outcome>>

\* Either call of execute_checkpoints() starts the thread it has made.
StartsThread ==
    /\ uiPc \in {"preparing", "starting"}
    /\ StartThread
    /\ uiPc' = IF uiPc = "starting" THEN "poll" ELSE uiPc
    /\ UNCHANGED <<execStatus, serverUp, processingQuit, socketVars, told, outcome>>

\* It returned: InstallStatus() starts the progress server and takes success
\* for granted.  Or it failed, or raised.
Prepared ==
    /\ uiPc = "preparing" /\ pc = "idle"
    /\ IF results[1] = "EXEC_SUCCESS"
       THEN uiPc' = "start" /\ serverUp' = TRUE /\ UNCHANGED outcome
       ELSE uiPc' = "done" /\ outcome' = "failed" /\ UNCHANGED serverUp
    /\ UNCHANGED <<engineVars, execStatus, processingQuit, socketVars, told>>

\* All other checkpoints, with exec_callback().
StartInstall ==
    /\ uiPc = "start"
    /\ ExecuteCheckpoints(0, 0, "callback")
    /\ uiPc' = "starting"
    /\ UNCHANGED <<execStatus, serverUp, processingQuit, socketVars, told, outcome>>

\* One turn of the loop of report_status() reads one message and shows it; an
\* exception is logged and ends the loop, whatever the engine is at.
PollMessage ==
    /\ uiPc = "poll" /\ serverUp /\ ~processingQuit /\ unread > 0
    /\ unread' = unread - 1
    /\ \/ UNCHANGED uiPc
       \/ UiMayRaise /\ uiPc' = "blind"
    /\ UNCHANGED <<engineVars, execStatus, serverUp, processingQuit, sending,
                   sent, told, outcome>>

\* F9, confirmed: cancel_checkpoints() in this very thread ...
Quit ==
    /\ uiPc = "poll" /\ serverUp
    /\ CancelCheckpoints(Ui)
    /\ uiPc' = "canceling"
    /\ UNCHANGED <<execStatus, serverUp, processingQuit, socketVars, told, outcome>>

\* Faulty variant: the user interface does not wait for the call.
CancelingDetached ==
    /\ uiPc = "canceling"
    /\ CancelStep(Ui)
    /\ uiPc' = "decide"
    /\ processingQuit' = TRUE
    /\ UNCHANGED <<execStatus, serverUp, socketVars, told, outcome>>

\* ... which reads nothing until the call returns, and nothing after it.
Canceling ==
    /\ uiPc = "canceling"
    /\ CancelStep(Ui)
    /\ uiPc' = CASE cancelPc'[Ui] = "idle" -> "poll"
                 [] cancelPc'[Ui] = "raised" -> "blind"
                 [] OTHER -> "canceling"
    /\ processingQuit' = (cancelPc'[Ui] = "idle")
    /\ UNCHANGED <<execStatus, serverUp, socketVars, told, outcome>>

PollEnds ==
    /\ uiPc = "poll" /\ ~serverUp
    /\ uiPc' = "decide"
    /\ UNCHANGED <<engineVars, execStatus, serverUp, processingQuit, socketVars,
                   told, outcome>>

\* Faulty variant: only a failure is told from success.
OutcomeOfFailed(status_) ==
    IF status_ = "EXEC_FAILED" THEN "failed" ELSE "finish"

\* What do_ti_install() makes of the status: only two of them are tested.
OutcomeOf(status_) ==
    CASE status_ = "EXEC_CANCELED" -> "canceled"
      [] status_ = "EXEC_FAILED" -> "failed"
      [] OTHER -> "finish"

\* The end of do_ti_install() and perform_ti_install(): what is left to do may
\* fail, and does when there is no file system at the mountpoint.  A loop that
\* ended with an exception may get here before the engine has told its result:
\* exec_status is then still the EXEC_SUCCESS of InstallStatus.__init__().
Decide ==
    /\ uiPc \in {"decide", "blind"}
    /\ \/ OutcomeOf(execStatus) # "finish" /\ outcome' = OutcomeOf(execStatus)
       \/ OutcomeOf(execStatus) = "finish" /\ completed[Populate]
          /\ outcome' = "succeeded"
       \/ OutcomeOf(execStatus) = "finish" /\ outcome' = "failed"
    /\ uiPc' = IF uiPc = "blind" /\ ~told THEN "early" ELSE "done"
    /\ UNCHANGED <<engineVars, execStatus, serverUp, processingQuit, socketVars,
                   told>>

--------------------------------------------------------------------------------
(* The checkpoint thread                                                    *)

\* A checkpoint reports progress, or the engine does: while it loads, and after
\* a checkpoint that did not report its end.  ProgressHandler.send() ...
ReportProgress ==
    /\ pc \in {"load", "exec", "postsnap"} /\ thread = "thread"
    /\ ~sending /\ sent < MaxMessages
    /\ sending' = TRUE
    /\ UNCHANGED <<engineVars, uiPc, execStatus, serverUp, processingQuit,
                   unread, sent, told, outcome>>

\* ... whose sendall() blocks as long as the buffer is full.
Sent ==
    /\ sending /\ unread < Capacity
    /\ sending' = FALSE
    /\ unread' = unread + 1
    /\ sent' = sent + 1
    /\ UNCHANGED <<engineVars, uiPc, execStatus, serverUp, processingQuit, told,
                   outcome>>

\* The steps of the engine, which stops on errors, that call nothing of the
\* installer's.
EngineStep ==
    /\ ~sending
    /\ \/ TakeNext \/ PreSnapshot \/ CheckpointReturns \/ CheckpointRaises
       \/ PostSnapshot \/ Finish \/ Exit
       \/ (thread = "pseudo" /\ (LoadCheckpoints \/ Callback))
    /\ UNCHANGED uiVars

\* _load_checkpoints(); when it fails the callback is told.
EngineLoads ==
    /\ thread = "thread" /\ ~sending /\ LoadCheckpoints
    /\ IF pc' = "exiting"
       THEN execStatus' = "CP_INIT_FAILED" /\ serverUp' = FALSE /\ told' = TRUE
       ELSE UNCHANGED <<execStatus, serverUp, told>>
    /\ UNCHANGED <<uiPc, processingQuit, socketVars, outcome>>

\* exec_callback() sets the status ...
CallbackTells ==
    /\ pc = "callback" /\ thread = "thread" /\ ~told
    /\ execStatus' = status
    /\ told' = TRUE
    /\ UNCHANGED <<engineVars, uiPc, serverUp, processingQuit, socketVars, outcome>>

\* Faulty variant: a canceled run does not stop the progress server.
CallbackStopsUnlessCanceled ==
    /\ thread = "thread" /\ told /\ Callback
    /\ serverUp' = (status = "EXEC_CANCELED")
    /\ UNCHANGED <<uiPc, execStatus, processingQuit, socketVars, told, outcome>>

\* ... and then stops the progress server.
CallbackStops ==
    /\ thread = "thread" /\ told /\ Callback
    /\ serverUp' = FALSE
    /\ UNCHANGED <<uiPc, execStatus, processingQuit, socketVars, told, outcome>>

--------------------------------------------------------------------------------
UiThread ==
    \/ Register \/ Prepare \/ StartsThread \/ Prepared \/ StartInstall
    \/ PollMessage \/ Canceling \/ PollEnds \/ Decide

EngineThread ==
    \/ Sent \/ EngineStep \/ EngineLoads \/ CallbackTells \/ CallbackStops

\* The installation is over.
Over == uiPc \in {"done", "early"} /\ pc = "idle" /\ UNCHANGED textVars

TextNext == UiThread \/ EngineThread \/ Quit \/ ReportProgress \/ Over

TextSpec == TextInit /\ [][TextNext]_textVars

\* The threads keep running; users need not quit, checkpoints need not report.
TextFairSpec ==
    TextSpec /\ WF_textVars(UiThread) /\ WF_textVars(EngineThread)

--------------------------------------------------------------------------------
(* Properties                                                               *)

\* When the installer concludes success after the engine has told its result,
\* every checkpoint has completed: "Raises InstallationError for any error
\* occurred during install" (docstring of do_ti_install()).  This holds also
\* when showing a message raised in between.  It does not hold of a conclusion
\* drawn before the result is told ("early"): report_status() logs the
\* exception and returns while the engine is at work, and the status is still
\* the EXEC_SUCCESS it began with.
SuccessIsComplete ==
    outcome = "succeeded" /\ uiPc # "early" => \A n \in Names : completed[n]

\* When the installer draws its conclusion, and not early, the engine executes
\* no checkpoint any more: what is unmounted and reported is no longer worked
\* on.
ConcludedWhenIdle ==
    outcome # "none" /\ uiPc # "early" => executing = None

\* The one way in which the threads block each other for ever: the buffer is
\* full, the checkpoint thread is in sendall(), and the only reader joins it.
Stuck == uiPc = "canceling" /\ sending /\ unread = Capacity

\* The installation comes to a conclusion, whatever the user does, unless it
\* ends in that deadlock.
InstallConcludes == (uiPc = "poll") ~> (outcome # "none" \/ Stuck)

================================================================================
