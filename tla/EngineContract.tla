---------------------------- MODULE EngineContract -----------------------------
(***************************************************************************)
(* What the execution engine promises the application that calls           *)
(* execute_checkpoints() (docstrings of InstallEngine, install_engine/     *)
(* __init__.py): a run takes the checkpoints of its list in order, marks   *)
(* as completed those that ended well, reports once, and says of itself    *)
(* only what happened.  Nothing is said of threads, locks, events and      *)
(* snapshots; InstallEngine has those, and implements this module.         *)
(***************************************************************************)
EXTENDS Naturals, Sequences

CONSTANTS Names,    \* checkpoint names
          MaxRuns   \* bound on the runs

VARIABLES done,     \* the completed checkpoints
          left,     \* what the run in progress has still to execute
          bad,      \* did a checkpoint of this run fail?
          current,  \* the run in progress, 0 between runs
          asked,    \* runs somebody asked to cancel
          told      \* what each run reported
contractVars == <<done, left, bad, current, asked, told>>

ContractInit ==
    /\ done = {} /\ left = <<>> /\ bad = FALSE /\ current = 0 /\ asked = {}
    /\ told = [r \in 1 .. MaxRuns |-> "none"]

\* Between runs checkpoints may lose their flags: a rollback or a cleanup.
Forget ==
    /\ current = 0
    /\ done' \subseteq done
    /\ UNCHANGED <<left, bad, current, asked, told>>

\* A run is accepted for a list that starts with a checkpoint that is not
\* completed.  The rollback it may begin with belongs to it.
Accept(r) ==
    /\ current = 0 /\ told[r] = "none"
    /\ current' = r
    /\ left' \in Seq(Names) /\ left' # <<>>
    /\ bad' = FALSE
    /\ done' \subseteq done
    /\ left'[1] \notin done'
    /\ UNCHANGED <<asked, told>>

\* The next checkpoint ends, well ...
Complete ==
    /\ current # 0 /\ left # <<>>
    /\ done' = done \cup {Head(left)}
    /\ left' = Tail(left)
    /\ UNCHANGED <<bad, current, asked, told>>

\* ... or not, and the run stops there or goes on.
Fail ==
    /\ current # 0 /\ left # <<>>
    /\ bad' = TRUE
    /\ \/ UNCHANGED <<done, left>>
       \/ done' = done \ {Head(left)} /\ left' = Tail(left)
    /\ UNCHANGED <<current, asked, told>>

\* Somebody asks for the run in progress to be canceled.
AskCancel ==
    /\ current # 0
    /\ asked' = asked \cup {current}
    /\ UNCHANGED <<done, left, bad, current, told>>

\* The run reports: success when all of its list was executed and nothing
\* failed, a failure when a checkpoint failed, a cancellation when asked for
\* one.  An internal error or a checkpoint that cannot be loaded is reported
\* at any time.
Report(s) ==
    /\ current # 0 /\ told[current] = "none"
    /\ \/ s = "EXEC_SUCCESS" /\ left = <<>> /\ ~bad
       \/ s = "EXEC_FAILED" /\ bad
       \/ s = "EXEC_CANCELED" /\ current \in asked
       \/ s \in {"FATAL_INTERNAL", "CP_INIT_FAILED"}
    /\ told' = [told EXCEPT ![current] = s]
    /\ UNCHANGED <<done, left, bad, current, asked>>

\* A run ends after its report.
End ==
    /\ current # 0 /\ told[current] # "none"
    /\ current' = 0 /\ left' = <<>> /\ bad' = FALSE
    /\ UNCHANGED <<done, asked, told>>

\* In the caller's thread an internal error is raised instead of reported.
Raise ==
    /\ current # 0 /\ told[current] = "none"
    /\ told' = [told EXCEPT ![current] = "FATAL_INTERNAL"]
    /\ current' = 0 /\ left' = <<>> /\ bad' = FALSE
    /\ UNCHANGED <<done, asked>>

Statuses == {"EXEC_SUCCESS", "EXEC_FAILED", "EXEC_CANCELED", "CP_INIT_FAILED",
             "FATAL_INTERNAL"}

ContractNext ==
    \/ Forget \/ Complete \/ Fail \/ AskCancel \/ End \/ Raise
    \/ \E r \in 1 .. MaxRuns : Accept(r)
    \/ \E s \in Statuses : Report(s)

ContractSpec == ContractInit /\ [][ContractNext]_contractVars

================================================================================
