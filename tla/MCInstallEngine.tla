---------------------------- MODULE MCInstallEngine ----------------------------
(* Finite instances of InstallEngine and of its refinement for TLC.           *)
EXTENDS EngineRefinement, FiniteSets, TLC

\* Checkpoint names and cancelling threads are interchangeable.
Symmetry == Permutations(Names) \cup Permutations(Cancellers)

================================================================================
