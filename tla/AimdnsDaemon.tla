---------------------------- MODULE AimdnsDaemon ----------------------------
(***************************************************************************)
(* The multicast DNS registration of the install services: aimdnsd.py, the *)
(* registration half of aimdns_mod.py, and the SMF methods and the         *)
(* setup-service script that start, signal and stop the daemon.            *)
(*                                                                         *)
(* An install service is "absent", "on" or "off" in its configuration      *)
(* file, and has a port that a re-creation changes.  A daemon is a process *)
(* that stores its pid, registers what is enabled, installs its SIGHUP     *)
(* handler and only then waits for signals; before that, a SIGHUP kills it *)
(* without running its exit handler.  Commands and SMF methods may come at *)
(* any time: only registering waits, and no longer than five seconds.      *)
(***************************************************************************)
EXTENDS Naturals, FiniteSets

CONSTANTS MdnsServices,  \* install service names
          Pids,          \* process ids, never reused here
          MdnsPorts      \* web server ports of a service

ASSUME AimdnsAssumption == 0 \notin Pids

VARIABLES conf,      \* the services' configuration files
          proc,      \* the daemons
          pidfile,   \* /var/run/aimdnsd: a pid, or 0 when there is no file
          hup,       \* daemons with a SIGHUP pending (signals coalesce)
          smf,       \* state of svc:/system/install/server
          unseen,    \* history: services switched off that the daemon has not
                     \* found off since
          ended,     \* history: how the last daemon ended, unless the server
                     \* was told of it
          crossed    \* history: a daemon was started while one was starting
                     \* that had not stored its pid

mdnsVars == <<conf, proc, pidfile, hup, smf, unseen, ended, crossed>>

NoFile == [status |-> "absent", port |-> 0]
NotStarted == [pc |-> "unborn", sdrefs |-> {}, known |-> {}]

Alive(p) == proc[p].pc \in {"start", "store", "register", "arm", "loop"}
Live == {p \in Pids : Alive(p)}
Settled == hup = {} /\ \A p \in Live : proc[p].pc = "loop"

----------------------------------------------------------------------------
(* The daemon *)

(* get_all_service_names() *)
ServiceNames == {s \in MdnsServices : conf[s].status # "absent"}

(* _register_a_service(): a service that is not enabled is not registered; *)
(* the port goes into the record that is advertised.                       *)
RegisterAService(s) ==
    IF conf[s].status = "on" THEN {[name |-> s, port |-> conf[s].port]} ELSE {}
Registered(p) == {r.name : r \in proc[p].sdrefs}

(* Spawn is the shell's "$AIMDNSD &".                                      *)
Unborn == {p \in Pids : proc[p].pc = "unborn"}
Unnamed == {p \in Pids : proc[p].pc \in {"start", "store"}}
Spawn ==
    /\ proc' = IF Unborn = {} THEN proc
               ELSE [proc EXCEPT ![CHOOSE p \in Unborn : TRUE].pc = "start"]
    /\ crossed' = (Live # {} /\ (crossed \/ Unnamed # {}))

(* A process that leaves closes its registrations.                         *)
Gone == [pc |-> "gone", sdrefs |-> {}, known |-> {}]

(* It exits with an error, or because it was told to: its exit handler     *)
(* removes the pid file, whoever it names (REMOVE_PID is set first of all).*)
Exits(p) == /\ proc' = [proc EXCEPT ![p] = Gone]
            /\ pidfile' = 0 /\ hup' = hup \ {p}
(* It dies where it stands, and the file stays.                            *)
Dies(p) == /\ proc' = [proc EXCEPT ![p] = Gone]
           /\ hup' = hup \ {p} /\ ended' = "killed"
           /\ UNCHANGED <<conf, pidfile, smf, unseen, crossed>>

(* store_pid() reads the file; when the process it names still runs, this  *)
(* one exits.                                                              *)
StorePidCheck(p) ==
    /\ proc[p].pc = "start"
    /\ IF pidfile # 0 /\ pidfile # p /\ Alive(pidfile)
       THEN Exits(p)
       ELSE /\ proc' = [proc EXCEPT ![p].pc = "store"]
            /\ UNCHANGED <<pidfile, hup>>
    /\ UNCHANGED <<conf, smf, unseen, ended, crossed>>

StorePidWrite(p) ==
    /\ proc[p].pc = "store"
    /\ pidfile' = p
    /\ proc' = [proc EXCEPT ![p].pc = "register"]
    /\ UNCHANGED <<conf, hup, smf, unseen, ended, crossed>>

(* What is said of a service that was switched off is over when the daemon *)
(* of the pid file reads its configuration and finds it off, or reads it   *)
(* for the first time.                                                     *)
StillOn == {s \in unseen : conf[s].status = "on"}

(* register_all(), up to the handler: every service is registered once.    *)
RegisterAll(p) ==
    /\ proc[p].pc = "register"
    /\ proc' = [proc EXCEPT ![p] =
            [pc |-> "arm", known |-> ServiceNames,
             sdrefs |-> UNION {RegisterAService(s) : s \in ServiceNames}]]
    /\ unseen' = IF p = pidfile THEN {} ELSE unseen
    /\ UNCHANGED <<conf, pidfile, hup, smf, ended, crossed>>

InstallHandler(p) ==
    /\ proc[p].pc = "arm"
    /\ proc' = [proc EXCEPT ![p].pc = "loop"]
    /\ UNCHANGED <<conf, pidfile, hup, smf, unseen, ended, crossed>>

(* A service without a configuration or a property, an interface that is   *)
(* gone, the multicast DNS service not there: whatever error registering   *)
(* meets, at the start or at a SIGHUP, the daemon ends with it.            *)
RegisterFails(p) ==
    /\ proc[p].pc = "register" \/ (proc[p].pc = "loop" /\ p \in hup)
    /\ Exits(p)
    /\ ended' = "error"
    /\ UNCHANGED <<conf, smf, unseen, crossed>>

(* Faulty variant of SignalHup: a service that was switched off keeps its  *)
(* registration as long as its configuration is there.                     *)
SignalHupKeepsOff(p) ==
    LET new == {s \in ServiceNames :
                    s \notin proc[p].known \/ s \notin Registered(p)}
        drop == proc[p].known \ ServiceNames
    IN  [pc |-> "loop", known |-> ServiceNames,
         sdrefs |-> {r \in proc[p].sdrefs : r.name \notin drop}
                    \cup UNION {RegisterAService(s) : s \in new}]
(* _signal_hup(): register what is new or not registered, drop what has    *)
(* gone or was switched off, remember the names.                           *)
SignalHup(p) ==
    LET new == {s \in ServiceNames :
                    s \notin proc[p].known \/ s \notin Registered(p)}
        after == proc[p].sdrefs \cup UNION {RegisterAService(s) : s \in new}
        drop == {s \in proc[p].known :
                    \/ s \notin ServiceNames
                    \/ /\ s \in {r.name : r \in after}
                       /\ conf[s].status = "off"}
    IN  [pc |-> "loop", known |-> ServiceNames,
         sdrefs |-> {r \in after : r.name \notin drop}]

(* The signal arrives: handled when the handler is there, fatal before.    *)
TakeHup(p) ==
    /\ p \in hup
    /\ IF proc[p].pc # "loop" THEN Dies(p)
       ELSE /\ hup' = hup \ {p}
            /\ proc' = [proc EXCEPT ![p] = SignalHup(p)]
            /\ unseen' = IF p = pidfile THEN StillOn ELSE unseen
            /\ UNCHANGED <<conf, pidfile, smf, ended, crossed>>

Crash(p) == Alive(p) /\ Dies(p)

DaemonStep(p) == \/ StorePidCheck(p) \/ StorePidWrite(p) \/ RegisterAll(p)
                 \/ RegisterFails(p) \/ InstallHandler(p) \/ TakeHup(p) \/ Crash(p)

----------------------------------------------------------------------------
(* The SMF methods of svc-install-server *)

(* Faulty variant of MethodStart: a pid file will do.                      *)
MethodStartByFile ==
    /\ smf = "disabled" /\ smf' = "online" /\ ended' = "no"
    /\ IF pidfile # 0 THEN UNCHANGED <<proc, crossed>> ELSE Spawn
    /\ UNCHANGED <<conf, pidfile, hup, unseen>>
(* start: another daemon only when the one of the pid file does not run.   *)
MethodStart ==
    /\ smf = "disabled" /\ smf' = "online" /\ ended' = "no"
    /\ IF pidfile # 0 /\ Alive(pidfile) THEN UNCHANGED <<proc, crossed>> ELSE Spawn
    /\ UNCHANGED <<conf, pidfile, hup, unseen>>

(* stop: SIGTERM runs on_exit().                                           *)
MethodStop ==
    /\ smf = "online" /\ smf' = "disabled"
    /\ IF pidfile # 0 /\ Alive(pidfile) THEN Exits(pidfile)
       ELSE UNCHANGED <<proc, hup, pidfile>>
    /\ UNCHANGED <<conf, unseen, ended, crossed>>

(* refresh: signal the process of the pid file, whether it runs or not;    *)
(* without a file, start one.                                              *)
MethodRefreshDo ==
    /\ ended' = IF ended = "error" THEN "no" ELSE ended
    /\ IF pidfile # 0
       THEN /\ hup' = hup \cup ({pidfile} \cap Live)
            /\ UNCHANGED <<proc, crossed>>
       ELSE Spawn /\ UNCHANGED hup
    /\ UNCHANGED <<pidfile, smf>>

MethodRefresh == smf = "online" /\ UNCHANGED <<conf, unseen>> /\ MethodRefreshDo

----------------------------------------------------------------------------
(* setup-service, called by the installadm commands *)

(* create or enable, then register: refresh_smf_and_verify_service.        *)
RegisterService(s, port) ==
    /\ smf = "online" /\ conf[s].status # "on"
    /\ conf[s].status = "off" => port = conf[s].port
    /\ conf' = [conf EXCEPT ![s] = [status |-> "on", port |-> port]]
    /\ UNCHANGED unseen
    /\ MethodRefreshDo

(* disable: the refresh is sent when a lookup of the service finds it.     *)
DisableService(s, found) ==
    /\ smf = "online" /\ conf[s].status = "on"
    /\ conf' = [conf EXCEPT ![s].status = "off"]
    /\ unseen' = unseen \cup {s}
    /\ IF found THEN MethodRefreshDo
       ELSE UNCHANGED <<proc, hup, pidfile, smf, ended, crossed>>

(* delete: disabled first, then its directory is removed.                  *)
DeleteFiles(s) ==
    /\ conf[s].status = "off"
    /\ conf' = [conf EXCEPT ![s] = NoFile]
    /\ UNCHANGED <<proc, hup, pidfile, smf, unseen, ended, crossed>>

----------------------------------------------------------------------------
AimdnsInit ==
    /\ conf = [s \in MdnsServices |-> NoFile]
    /\ proc = [p \in Pids |-> NotStarted]
    /\ pidfile = 0 /\ hup = {} /\ smf = "disabled" /\ unseen = {}
    /\ ended = "no" /\ crossed = FALSE

AimdnsNext ==
    \/ \E p \in Pids : DaemonStep(p)
    \/ MethodStart \/ MethodStop \/ MethodRefresh
    \/ \E s \in MdnsServices : \/ \E port \in MdnsPorts : RegisterService(s, port)
                               \/ \E found \in BOOLEAN : DisableService(s, found)
                               \/ DeleteFiles(s)

AimdnsSpec == AimdnsInit /\ [][AimdnsNext]_mdnsVars

----------------------------------------------------------------------------
(* Properties *)

(* When the daemons have acted on every signal, the one that the pid file  *)
(* names advertises exactly the enabled services, each at its port,        *)
(* whatever came while it started or registered and whatever became of     *)
(* daemons before it.  What the code does not keep is left out by name: a  *)
(* service that was switched off without a refresh (setup-service found no *)
(* registration to withdraw) may still be there, and one that came back    *)
(* before the daemon found it off keeps its old record (_signal_hup(),     *)
(* line 535).                                                              *)
AdvertisesEnabled ==
    (smf = "online" /\ Settled /\ pidfile \in Live) =>
        \A s \in MdnsServices :
            LET records == {r \in proc[pidfile].sdrefs : r.name = s}
            IN  /\ conf[s].status = "on" => records # {}
                /\ conf[s].status # "on" => records = {} \/ s \in unseen
                /\ \A r \in records : r.port = conf[s].port \/ s \in unseen

(* "if the aimdns daemon is running, refresh it, otherwise start it up":   *)
(* a second daemon is never started, but while one that the method started *)
(* has not stored its pid; and the one that runs is the one of the pid     *)
(* file.  While the server is online there is one, unless it was killed    *)
(* (also by a refresh that came before it installed its handler) and the   *)
(* server not started again, or it ended with an error and the server was  *)
(* not refreshed: a stale pid file keeps a refresh from starting another,  *)
(* a start not.                                                            *)
OneDaemon ==
    ~crossed =>
        /\ \A p, q \in Live : p = q
        /\ \A p \in Live : p \in Unnamed \/ p = pidfile
        /\ smf = "online" /\ ended = "no" /\ Unborn # {} => Live # {}
============================================================================
