---------------------------- MODULE DistroConstLock ----------------------------
(***************************************************************************)
(* Invocations of distro_const that share a build dataset                  *)
(* (cmd/distro_const/__init__.py): setup_build_dataset() looks for the     *)
(* lock file, may roll the dataset back to @empty and creates what is      *)
(* missing; then main() takes the lock file, builds, and removes the file. *)
(***************************************************************************)
EXTENDS Naturals, FiniteSets

CONSTANTS
    Invocations,  \* processes that run distro_const on the dataset
    Resuming      \* those that were given a checkpoint to resume from

ASSUME LockAssumption == Resuming \subseteq Invocations

VARIABLES
    at,        \* where each invocation is
    mounted,   \* the datasets exist, with an @empty snapshot
    lockFile,  \* distro_const.lock exists
    built,     \* whose work is in build_data
    leftover,  \* the file was there when its holder was killed, or could not
               \* be removed, and nobody has removed it since
    raced      \* one of those inside looked for the file while another one had
               \* looked for it and not yet created it

lockVars == <<at, mounted, lockFile, built, leftover, raced>>

LockInit ==
    /\ at = [p \in Invocations |-> "start"]
    /\ mounted \in BOOLEAN
    /\ lockFile = FALSE
    /\ built = {}
    /\ leftover = FALSE
    /\ raced = FALSE

\* The invocations that have found no lock file and have not left yet, and
\* those of them that believe to hold the lock.
Inside == {p \in Invocations : at[p] \in {"touch", "build", "exit"}}
Holders == {p \in Invocations : at[p] \in {"build", "exit"}}

Goto(p, place) == at' = [at EXCEPT ![p] = place]

Leave(p) ==
    /\ Goto(p, "ended")
    /\ raced' = (raced /\ Inside # {p})

\* setup_build_dataset(): a resumed build needs the datasets, and an existing
\* lock file ends the invocation.
CheckLock(p) ==
    /\ at[p] = "start"
    /\ Goto(p, IF (p \in Resuming /\ ~mounted) \/ (mounted /\ lockFile)
               THEN "ended" ELSE "checked")
    /\ UNCHANGED <<mounted, lockFile, built, leftover, raced>>

\* The rest of setup_build_dataset(): build_data.rollback("empty") unless the
\* build is resumed, then the target checkpoint creates what is missing.
SetUp(p) ==
    /\ at[p] = "checked"
    /\ built' = IF p \in Resuming THEN built ELSE {}
    /\ mounted' = TRUE
    /\ Goto(p, "enter")
    /\ UNCHANGED <<lockFile, leftover, raced>>

\* Faulty variant: the file is created whether it is there or not.
EnterRegardless(p) ==
    /\ at[p] = "enter"
    /\ Goto(p, "touch")
    /\ raced' = (raced \/ \E q \in Invocations : at[q] = "touch")
    /\ UNCHANGED <<mounted, lockFile, built, leftover>>

\* Lockfile.__enter__() looks for the file ...
EnterTest(p) ==
    /\ at[p] = "enter"
    /\ Goto(p, IF lockFile THEN "ended" ELSE "touch")
    /\ raced' = (raced \/ (~lockFile /\ \E q \in Invocations : at[q] = "touch"))
    /\ UNCHANGED <<mounted, lockFile, built, leftover>>

\* ... and creates it, or raises when it cannot be opened.
EnterTouch(p) ==
    /\ at[p] = "touch"
    /\ \/ lockFile' = TRUE /\ Goto(p, "build") /\ UNCHANGED raced
       \/ UNCHANGED lockFile /\ Leave(p)
    /\ UNCHANGED <<mounted, built, leftover>>

\* Faulty variant: when a checkpoint raises the file is not removed.
BuildWithoutFinally(p) ==
    /\ at[p] = "build"
    /\ built' = built \cup {p}
    /\ \/ Goto(p, "exit") /\ UNCHANGED raced
       \/ Leave(p)
    /\ UNCHANGED <<mounted, lockFile, leftover>>

\* execute_checkpoint() works on the dataset, and returns or raises; or there is
\* nothing to execute before the checkpoint to pause at.
Build(p) ==
    /\ at[p] = "build"
    /\ built' \in {built, built \cup {p}}
    /\ Goto(p, "exit")
    /\ UNCHANGED <<mounted, lockFile, leftover, raced>>

\* Lockfile.__exit__() removes the file if it is there, be it its own or
\* another's.  When that fails the file stays.
Exit(p) ==
    /\ at[p] = "exit"
    /\ \/ lockFile' = FALSE /\ leftover' = FALSE
       \/ lockFile /\ lockFile' = TRUE /\ leftover' = TRUE
    /\ Leave(p)
    /\ UNCHANGED <<mounted, built>>

\* The process is killed inside the with statement.
Kill(p) ==
    /\ p \in Inside
    /\ leftover' = (leftover \/ lockFile)
    /\ Leave(p)
    /\ UNCHANGED <<mounted, lockFile, built>>

LockNext ==
    \E p \in Invocations :
        \/ CheckLock(p) \/ SetUp(p) \/ EnterTest(p) \/ EnterTouch(p)
        \/ Build(p) \/ Exit(p) \/ Kill(p)

LockSpec == LockInit /\ [][LockNext]_lockVars

--------------------------------------------------------------------------------
(* Properties                                                               *)

\* The lock file outlives the invocations only when one was killed or could not
\* remove it: every other way out of the with statement removes it, also when
\* several are in there.
NoStaleLock == lockFile => leftover \/ Holders # {}

\* "prevent multiple invocations of distro_const from running at the same time"
\* (docstring of Lockfile): as long as no two invocations meet between looking
\* for the file and creating it, at most one is inside, and it is the file that
\* keeps the others out, whatever the order in which they start, end, fail and
\* are killed.  Once two have met, both build, and the one that ends first
\* unlocks for the other: nothing is said until all of them have left.
OneBuild ==
    ~raced => /\ \A p, q \in Inside : p = q
              /\ Holders # {} => lockFile

LockSound == NoStaleLock /\ OneBuild

\* "context manager for locking the distro_const dataset to prevent multiple
\* invocations of distro_const from running at the same time" (docstring of
\* Lockfile): nobody rolls the dataset back under an invocation that builds.
BuildUndisturbed ==
    [][\A p \in Invocations :
        at[p] \in {"build", "exit"} /\ at'[p] = at[p]
            => built \subseteq built']_lockVars

================================================================================
