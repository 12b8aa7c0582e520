---------------------------- MODULE MCEngineResume -----------------------------
(* Finite instances of EngineResume for TLC, side by side with the lock that *)
(* keeps the invocations of distro_const, whose builds are resumed, apart.   *)
EXTENDS EngineResume, DistroConstLock

CONSTANT Subjects
VARIABLE subject
distroVars == <<vars, lockVars, subject>>

Internal == Registration("manifest-parser", 1)
A == Registration("a", 1)
B == Registration("b", 1)
C == Registration("c", 1)

\* One list, and the ways to edit it that the engine copes with: other arguments
\* for the second checkpoint, another checkpoint in its place, one more at the
\* end.
EditedLists ==
    {<<Internal, A, B>>,
     <<Internal, A, Registration("b", 2)>>,
     <<Internal, A, Registration("d", 1), C>>,
     <<Internal, A, B, C>>}

\* A checkpoint in the middle is taken out of the list.
ShortenedLists == {<<Internal, A, B, C>>, <<Internal, A, C>>}

DistroInit == Init /\ LockInit /\ subject \in Subjects
DistroNext ==
    /\ UNCHANGED subject
    /\ \/ subject = "resume" /\ Next /\ UNCHANGED lockVars
       \/ subject = "lock" /\ LockNext /\ UNCHANGED vars
DistroSpec == DistroInit /\ [][DistroNext]_distroVars

================================================================================
