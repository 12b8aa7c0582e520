--------------------------- MODULE EngineRefinement ----------------------------
(***************************************************************************)
(* The refinement mapping by which InstallEngine implements EngineContract: *)
(* the flags that are set, the rest of the list of the run, the failed     *)
(* checkpoints of the report.                                              *)
(***************************************************************************)
EXTENDS InstallEngine

Flags == {n \in Names : completed[n]}
Rest == IF pc = "idle" THEN <<>> ELSE SubSeq(execList, pos, Len(execList))
Blamed == \E i \in 1 .. Len(failed) : failed[i] \in Names /\ ~completed[failed[i]]
InProgress == IF pc = "idle" THEN 0 ELSE threadRun

Abstract == INSTANCE EngineContract WITH
    done <- Flags, left <- Rest, bad <- Blamed, current <- InProgress,
    asked <- targets, told <- results

\* The engine implements its contract: threads, locks, the cancel event and the
\* snapshots never show in what a run did and reported.  (In callback mode: a
\* blocking run cannot be told from none by is_alive(), so that a cleanup from
\* another thread would take its flags away.)
ImplementsContract == Abstract!ContractSpec

================================================================================
