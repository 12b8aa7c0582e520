----------------------------- MODULE MCTextInstall -----------------------------
(* Finite instances of TextInstall for TLC.                                 *)
EXTENDS TextInstall

CONSTANTS prep, root, boot

\* Prepare the transfer, populate the target, finish it.
ThreeCheckpoints == <<prep, root, boot>>
ThreeNames == {prep, root, boot}

================================================================================
