--------------------------- MODULE MCInstallServer ---------------------------
(***************************************************************************)
(* Two parts of an AI server checked side by side: the commands on         *)
(* services and clients, and the multicast DNS daemon.  subject, fixed in  *)
(* the initial state, says which of them moves; a run explores the sum.    *)
(* Commands are looked at once with boot arguments and once with faults:   *)
(* what is said of arguments is said of servers without a fault.  Daemons  *)
(* are looked at once with one service and three processes, and once with  *)
(* two of each.                                                            *)
(***************************************************************************)
EXTENDS InstallServices, AimdnsDaemon

CONSTANT Subjects
VARIABLE subject
serverVars == <<ismVars, mdnsVars, subject>>

OneAuto == <<"sx">>
X86 == {[arch |-> "i386", version |-> 3]}
AllKinds == X86 \cup {[arch |-> "sparc", version |-> 3],
                      [arch |-> "i386", version |-> 2]}
OneRange == {[ip |-> [net |-> 0, host |-> 1], count |-> 2]}

Init == IsmInit /\ DhcpInit /\ AimdnsInit /\ subject \in Subjects

Next ==
    /\ UNCHANGED subject
    /\ \/ subject \in {"services", "failures"} /\ UNCHANGED mdnsVars
          /\ Commands(IF subject = "failures" /\ clean THEN Faults ELSE {"none"},
                      IF subject = "failures" THEN {""} ELSE BootArgs)
       \/ subject = "daemons" /\ AimdnsNext /\ UNCHANGED ismVars
          /\ conf'[CHOOSE s \in MdnsServices : TRUE] = NoFile
       \/ subject = "adverts" /\ AimdnsNext /\ UNCHANGED ismVars
          /\ proc'[3] = NotStarted

Spec == Init /\ [][Next]_serverVars
==============================================================================
