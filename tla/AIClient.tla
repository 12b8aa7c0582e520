------------------------------ MODULE AIClient ------------------------------
(***************************************************************************)
(* The automated installer on the client: the service that finds a         *)
(* manifest (svc/manifest-locator, with ai_sd and ai_get_manifest), the    *)
(* service that installs with it (svc/auto-installer) and the program it   *)
(* runs (auto_install.py), with the checkpoints of its own.  The engine is *)
(* module InstallEngine; here a checkpoint runs and ends somehow.          *)
(***************************************************************************)
EXTENDS Naturals, Sequences, SequencesExt, FiniteSets, FiniteSetsExt

CONSTANTS Hosts,      \* what a client finds out about itself
          W,          \* the bits of an address, a set of bit numbers here
          Boots,      \* boot arguments: [install, where, name, address]
          Manifests,  \* [script, sw, zones, pools, reboot]
          Scripts,    \* what becomes of a derived manifest script
          Options,    \* command lines: [stop, list, dry, zone, profile], "none": no stop
          Profiles,   \* profiles an answer may have
          Pools,      \* pools that are imported at boot
          Generated,  \* names made up for software that has none, by its place
          MaxRuns,    \* times the services are started
          NoFile

ASSUME AIClientAssumption ==
    /\ MaxRuns \in Nat /\ W \in Nat
    /\ \A h \in Hosts : /\ h.ip \subseteq 0 .. W - 1
                         /\ h.mask \in {b .. W - 1 : b \in 0 .. W}
    /\ \A m \in Manifests : m.sw \in Seq([name : STRING, type : STRING, install : BOOLEAN,
                                          contents : Nat, img : BOOLEAN])
    /\ \A m \in Manifests : \A i \in DOMAIN m.sw : Generated[i] # "none"
    /\ \A b \in Boots : b.where \in {"prompt", "media", "net"}
    /\ Options \subseteq [stop : STRING, list : BOOLEAN, dry : BOOLEAN, zone : BOOLEAN,
                         profile : BOOLEAN]

VARIABLES loc,   \* the manifest locator
          vol,   \* the files under /system/volatile
          ai,    \* the auto-install process
          smf    \* what the auto-installer service came to

clientVars == <<loc, vol, ai, smf>>

ManifestCheckpoints == <<"derived-manifest", "manifest-parser">>
BeforeTI == {"target-discovery", "target-selection", "ai-configuration",
             "var-shared-dataset", "target-instantiation"}
            \cup ToSet(ManifestCheckpoints)

----------------------------------------------------------------------------
(* manifest-locator, ai_sd and ai_get_manifest *)

(* The criteria of a client, those it could find out.  What uname(1) gives *)
(* comes as it is.                                                         *)
CriteriaUname(h) == [c \in h.uname \cup {"hostname"} |-> c]
(* Memory is in megabytes, and 0 in a unit that is not known.              *)
CriteriaMem(h) ==
    LET size == CASE h.unit = "Kilobytes" -> h.mem \div 1024
                  [] h.unit = "Megabytes" -> h.mem
                  [] h.unit = "Gigabytes" -> h.mem * 1024
                  [] h.unit = "Terabytes" -> h.mem * 1024 * 1024
                  [] OTHER -> 0
    IN  [c \in IF h.mem = 0 \/ h.unit = "" THEN {} ELSE {"mem"} |-> size]
(* The first interface that is up.  One without an IPv4 address is an      *)
(* exception.                                                              *)
Raises(h) == h.iface \notin {"none", "v4"}
CriteriaMAC(h) == [c \in IF h.iface # "none" /\ h.ether THEN {"mac"} ELSE {} |-> c]
CriteriaIP(h) == [c \in IF h.iface = "v4" THEN {"ipv4"} ELSE {} |-> h.ip]
(* The network, with the length of its prefix.                             *)
LowestBit(mask) == CHOOSE b \in mask : \A o \in mask : b <= o
MaskBitsSet(mask) == IF mask = {} THEN 0 ELSE W - LowestBit(mask) - 1
MaskBits(mask) == IF mask = {} THEN 0 ELSE W - LowestBit(mask)
CriteriaNetwork(h) ==
    [c \in IF h.iface = "v4" THEN {"network"} ELSE {} |->
        [net |-> h.ip \cap h.mask, bits |-> MaskBits(h.mask)]]
Known(h) == [uname |-> CriteriaUname(h), mem |-> CriteriaMem(h), mac |-> CriteriaMAC(h),
             ip |-> CriteriaIP(h), network |-> CriteriaNetwork(h)]

(* A part of a MIME answer: the manifest or a profile, written or not.     *)
(* What an earlier run left in the directory has its name's prefix.        *)
CleanupNothing(v) == v
CleanupEarlierRun(v) == [v EXCEPT !.profiles = {}]
HandleMimePayload(v, a) ==
    [v EXCEPT !.profiles = @ \cup {[of |-> a.id, name |-> p] : p \in a.written},
              !.manifest = IF a.saved THEN a.manifest ELSE @,
              !.from = IF a.saved THEN a.id ELSE @]

(* One service of the list asked; the old formats have no profiles, and    *)
(* their manifest is written when the list is done with.                   *)
TakeAnswer(v, a) ==
    IF a.kind = "mime" THEN HandleMimePayload(CleanupEarlierRun(v), a)
    ELSE IF a.kind \in {"old", "compat"} /\ a.saved
    THEN [v EXCEPT !.manifest = a.manifest, !.from = a.id]
    ELSE v
Obtained(a) == a.kind \in {"mime", "old", "compat"} /\ a.saved
(* A manifest that cannot be saved, and an exception, end the search.      *)
GivesUp(a) == a.kind = "broken" \/ (a.kind \in {"old", "compat"} /\ ~a.saved)

(* ai_sd: the named service, else the default one; then the address the    *)
(* boot arguments give.  The list has one line: ai_sd writes the first     *)
(* service it finds, and the fallback is written over it.                  *)
LookUp(b, found) ==
    IF found \in {"named", "default"} THEN <<found>>
    ELSE IF b.address \in {"given", "server"} THEN <<"fallback">> ELSE <<>>
CanDiscover(b, dhcp) == b.name /\ (b.address = "server" => dhcp)

(* A service that is started again finds the boot arguments of the boot.   *)
StartLocator(b) ==
    /\ loc.at \in {"off", "fatal", "ok"} /\ loc.runs < MaxRuns /\ ai.pc = "off"
    /\ smf # "rebooted" /\ loc.boot \in {NoFile, b}
    /\ loc' = [loc EXCEPT !.at = IF b.where = "net" THEN "discover" ELSE b.where,
                          !.boot = b, !.runs = @ + 1, !.list = <<>>]
    /\ smf' = "waiting"
    /\ UNCHANGED <<vol, ai>>
(* do_get_manifest() asks until it has one; setup_default_manifest() takes *)
(* the one of the media.                                                   *)
LocalManifest(m) ==
    /\ loc.at \in {"prompt", "media"}
    /\ vol' = [vol EXCEPT !.manifest = m, !.from = loc.runs]
    /\ loc' = [loc EXCEPT !.at = "ok"]
    /\ UNCHANGED <<ai, smf>>
Discover(found, dhcp) ==
    /\ loc.at = "discover"
    /\ LET list == IF CanDiscover(loc.boot, dhcp) THEN LookUp(loc.boot, found) ELSE <<>>
           lost == list = <<>> \/ Raises(loc.host)
       IN  loc' = [loc EXCEPT !.list = list, !.at = IF lost THEN "fatal" ELSE "ask",
                              !.sent = IF lost THEN @ ELSE Known(loc.host)]
    /\ UNCHANGED <<vol, ai, smf>>
AskServiceEndless(a) ==
    /\ loc.at = "ask" /\ loc.list # <<>> /\ a.id = loc.runs
    /\ vol' = [TakeAnswer(vol, a) EXCEPT !.services = @ \/ Obtained(a)]
    /\ loc' = [loc EXCEPT !.list = Tail(@),
                          !.at = IF Obtained(a) THEN "ok"
                                 ELSE IF GivesUp(a) THEN "fatal" ELSE "ask"]
    /\ UNCHANGED <<ai, smf>>
AskService(a) ==
    /\ loc.at = "ask" /\ loc.list # <<>> /\ a.id = loc.runs
    /\ vol' = [TakeAnswer(vol, a) EXCEPT !.services = @ \/ Obtained(a)]
    /\ loc' = [loc EXCEPT !.list = Tail(@),
                          !.at = IF Obtained(a) THEN "ok"
                                 ELSE IF GivesUp(a) \/ Tail(loc.list) = <<>>
                                 THEN "fatal" ELSE "ask"]
    /\ UNCHANGED <<ai, smf>>

Answers ==
    [id : 1 .. MaxRuns, kind : {"mime"}, manifest : Manifests,
     saved : BOOLEAN, written : SUBSET Profiles]
    \cup [id : 1 .. MaxRuns, kind : {"old", "compat"}, manifest : Manifests,
          saved : BOOLEAN, written : {{}}]
    \cup [id : 1 .. MaxRuns, kind : {"refused", "broken"}, manifest : Manifests,
          saved : {FALSE}, written : {{}}]

----------------------------------------------------------------------------
(* auto_install.py *)

Names(m) == [i \in DOMAIN m.sw |->
                IF m.sw[i].name = "none" THEN Generated[i] ELSE m.sw[i].name]
(* parse_args() and configure_checkpoints(): -I stops before the first     *)
(* transfer, whatever its name.                                            *)
StopAt(o, m) == IF o.stop = "first-transfer" /\ m.sw # <<>> THEN Names(m)[1] ELSE o.stop

(* The completion tasks, without those that a zone does not need.          *)
SysconfigCheckpoint(o) == IF o.profile THEN <<"apply-sysconfig">> ELSE <<>>
IctCheckpoints(o) ==
    IF o.zone
    THEN <<"initialize-smf-zone", "setup-swap">> \o SysconfigCheckpoint(o)
         \o <<"transfer-ai-files", "create-snapshot">>
    ELSE <<"initialize-smf", "boot-configuration", "update-dump-adm", "setup-swap",
           "device-config">> \o SysconfigCheckpoint(o)
         \o <<"transfer-zpool-cache", "boot-archive", "transfer-ai-files",
              "create-snapshot">>
TargetCheckpoints(o) ==
    (IF o.zone THEN <<>> ELSE <<"target-discovery">>)
    \o <<"target-selection", "ai-configuration", "var-shared-dataset", "target-instantiation">>
Registered(o, m) == TargetCheckpoints(o) \o Names(m) \o IctCheckpoints(o)

(* The manifest's software is refused: of an unknown type, empty, with an  *)
(* image directory of its own, under a name already taken, or with nothing *)
(* to install.                                                             *)
SoftwareInvalid(m) ==
    \/ m.sw = <<>>
    \/ \E i \in DOMAIN m.sw : \/ m.sw[i].type \notin {"IPS", "CPIO", "SVR4", "P5I"}
                              \/ m.sw[i].contents = 0
                              \/ m.sw[i].type = "IPS" /\ m.sw[i].img
    \/ \A i \in DOMAIN m.sw : ~m.sw[i].install
(* The engine still knows the checkpoints of the first execution.          *)
ConfigureFails(before, o, m) ==
    SoftwareInvalid(m) \/ ~IsInjective(before \o Registered(o, m))

(* What the transfers do with the image: the first of IPS creates it.      *)
ImageActionsAll(m) == [i \in DOMAIN m.sw |-> IF m.sw[i].type = "IPS" THEN "create" ELSE "dir"]
ImageActions(m) ==
    [i \in DOMAIN m.sw |->
        IF m.sw[i].type # "IPS" THEN "dir"
        ELSE IF \E j \in 1 .. i - 1 : m.sw[j].type = "IPS" THEN "use_existing"
        ELSE "create"]

(* import_preserved_zpools() tries those that are not there.               *)
ImportFails(m, can) == ~can /\ ~(m.pools \subseteq Pools)

(* __cleanup_before_exit(): the log is closed, then a boot environment     *)
(* that was made is unmounted, which can fail.                             *)
CleanupAnyway(p, code, unmounts) ==
    [p EXCEPT !.pc = "exit", !.code = code,
              !.be = IF @ = "mounted" /\ code # 1 /\ unmounts THEN "unmounted" ELSE @]
CleanupBeforeExit(p, code, unmounts) ==
    LET tries == /\ ~p.opt.list /\ code # 1
                 /\ p.stop \notin BeforeTI /\ p.be = "mounted"
    IN  [p EXCEPT !.pc = "exit",
                  !.be = IF tries /\ unmounts THEN "unmounted" ELSE @,
                  !.code = IF tries /\ ~unmounts THEN 1 ELSE code]

(* perform_autoinstall(), up to the first execution: the manifest.         *)
ManifestList(m) == IF m.script THEN ManifestCheckpoints ELSE <<"manifest-parser">>
StartInstall(o, m) ==
    [ai EXCEPT !.pc = "run", !.opt = o, !.m = m, !.stop = o.stop, !.todo = ManifestList(m),
               !.done = <<>>, !.code = 99, !.log = "ram", !.be = "none",
               !.phase = "manifest", !.images = <<>>]
Idle == [pc |-> "off", opt |-> NoFile, m |-> NoFile, stop |-> "none", todo |-> <<>>,
         done |-> <<>>, code |-> 99, log |-> "ram", be |-> "none", phase |-> "none",
         images |-> <<>>]

(* What a derived manifest script comes to (dmm.py): the script is looked  *)
(* at, tried as another user, run, and what it made is validated.          *)
DmmExecute(s) ==
    IF ~s.readable THEN "DMMScriptAccessError"
    ELSE IF ~s.hashbang \/ ~s.accessible THEN "DMMScriptInvalidError"
    ELSE IF s.rc # 0 THEN "DMMExecutionError"
    ELSE IF ~s.valid THEN "DMMValidationError" ELSE "ok"
(* The zones of the manifest (ai_configuration.py), which are left alone   *)
(* when a zone is installed: every configuration is fetched and validated, *)
(* and a manifest asked for without a default.                             *)
ZonesFail(m, o, fetched) == m.zones /\ ~o.zone /\ ~fetched

(* A checkpoint of the execution list runs; the boot environment is there  *)
(* and mounted after target instantiation, unless nothing is really done.  *)
RunCheckpoint(ok, s, derived) ==
    /\ ai.pc = "run" /\ ai.todo # <<>> /\ Head(ai.todo) # ai.stop
    /\ LET c == Head(ai.todo)
           derives == ai.phase = "manifest" /\ c = "derived-manifest"
           good == /\ ok
                   /\ derives => DmmExecute(s) = "ok"
                   /\ c = "ai-configuration" => ~ZonesFail(ai.m, ai.opt, s.valid)
       IN  IF good
           THEN ai' = [ai EXCEPT !.todo = Tail(@), !.done = Append(@, c),
                           !.m = IF derives THEN derived ELSE @,
                           !.be = IF c = "target-instantiation" /\ ~ai.opt.dry
                                  THEN "mounted" ELSE @]
           ELSE ai' = CleanupBeforeExit(ai, 1, TRUE)
    /\ UNCHANGED <<loc, vol, smf>>
(* An exception of the engine itself leaves by the launcher.               *)
EngineRaises ==
    /\ ai.pc = "run" /\ ai.todo # <<>>
    /\ ai' = [ai EXCEPT !.pc = "exit", !.code = 1]
    /\ UNCHANGED <<loc, vol, smf>>

(* The end of the first execution: the manifest is parsed.                 *)
Configure(errors, can, unmounts) ==
    /\ ai.pc = "run" /\ ai.phase = "manifest"
    /\ ai.todo # <<>> => Head(ai.todo) = ai.stop
    /\ LET o == ai.opt
           stop == StopAt(o, ai.m)
           ready == [ai EXCEPT !.stop = stop, !.phase = "install", !.done = <<>>,
                               !.todo = Registered(o, ai.m),
                               !.images = ImageActions(ai.m)]
           early == ai.stop \in ToSet(ManifestCheckpoints)
           unknown == stop # "none" /\ stop \notin ToSet(Registered(o, ai.m))
       IN  ai' = IF early \/ (~errors /\ ai.stop = "target-discovery")
                 THEN CleanupBeforeExit(ai, 0, unmounts)
                 ELSE IF errors THEN CleanupBeforeExit(ai, 1, unmounts)
                 ELSE IF ConfigureFails(ai.done, o, ai.m) \/ unknown
                 THEN CleanupBeforeExit(ready, 1, unmounts)
                 ELSE IF o.list THEN CleanupBeforeExit(ready, 0, unmounts)
                 ELSE IF ImportFails(ai.m, can) THEN CleanupBeforeExit(ready, 1, unmounts)
                 ELSE ready
    /\ UNCHANGED <<loc, vol, smf>>

(* The end of the second execution.  Paused before the first transfer or   *)
(* earlier, there is no log to keep; else it goes to the boot environment, *)
(* which has to be mounted for it.                                         *)
TransferLog(p) == [p EXCEPT !.log = IF p.be = "mounted" THEN "be" ELSE "elsewhere"]
FinishLogLast(code, unmounts) == TransferLog(CleanupBeforeExit(ai, code, unmounts))
Finish(code, unmounts) == CleanupBeforeExit(TransferLog(ai), code, unmounts)
Conclude(unmounts) ==
    /\ ai.pc = "run" /\ ai.phase = "install"
    /\ ai.todo # <<>> => Head(ai.todo) = ai.stop
    /\ ai' = IF ai.stop \in BeforeTI \cup {Names(ai.m)[1]}
             THEN CleanupBeforeExit(ai, 0, unmounts)
             ELSE Finish(IF ai.m.reboot /\ ~ai.opt.zone THEN 64 ELSE 0, unmounts)
    /\ UNCHANGED <<loc, vol, smf>>

----------------------------------------------------------------------------
(* svc/auto-installer *)

ServiceOptions == [stop |-> "none", list |-> FALSE, dry |-> FALSE, zone |-> FALSE,
                   profile |-> TRUE]
(* The service waits for the locator; without any profile it takes the one *)
(* that starts the configuration tool.                                     *)
StartService ==
    /\ loc.at = "ok" /\ loc.boot.install /\ smf = "waiting" /\ ai.pc = "off"
    /\ IF vol.manifest = NoFile
       THEN smf' = "maintenance" /\ UNCHANGED <<vol, ai>>
       ELSE /\ vol' = [vol EXCEPT !.sci = @ \/ vol.profiles = {}]
            /\ ai' = StartInstall(ServiceOptions, vol.manifest)
            /\ smf' = "running"
    /\ UNCHANGED loc
(* The installer called by hand.                                           *)
StartByHand(o) ==
    /\ loc.at = "ok" /\ ~loc.boot.install /\ smf = "waiting" /\ ai.pc = "off"
    /\ ai' = StartInstall(o, vol.manifest)
    /\ smf' = "by hand"
    /\ UNCHANGED <<loc, vol>>
ServiceEnds ==
    /\ ai.pc = "exit"
    /\ smf' = IF smf = "by hand" THEN "shell"
              ELSE IF ai.code = 0 THEN "online"
              ELSE IF ai.code = 64 THEN "rebooted" ELSE "maintenance"
    /\ ai' = [ai EXCEPT !.pc = IF smf' = "maintenance" THEN "off" ELSE "over"]
    /\ UNCHANGED <<loc, vol>>

----------------------------------------------------------------------------
ClientInit ==
    /\ \E h \in Hosts : loc = [at |-> "off", boot |-> NoFile, runs |-> 0, list |-> <<>>,
                              host |-> h, sent |-> NoFile]
    /\ vol = [manifest |-> NoFile, from |-> 0, profiles |-> {}, sci |-> FALSE,
              services |-> FALSE]
    /\ ai = Idle /\ smf = "off"

LocatorStep ==
    \/ \E m \in Manifests : LocalManifest(m)
    \/ \E f \in {"named", "default", "none"}, dhcp \in BOOLEAN : Discover(f, dhcp)
    \/ \E a \in Answers : AskService(a)
InstallStep ==
    \/ \E ok \in BOOLEAN, s \in Scripts, d \in {m \in Manifests : ~m.script} :
          RunCheckpoint(ok, s, d)
    \/ \E errors, can, unmounts \in BOOLEAN : Configure(errors, can, unmounts)
    \/ \E unmounts \in BOOLEAN : Conclude(unmounts)
    \/ EngineRaises
ServiceStep == StartService \/ ServiceEnds
ClientNext ==
    \/ \E b \in Boots : StartLocator(b)
    \/ LocatorStep \/ InstallStep \/ ServiceStep
    \/ \E o \in Options : StartByHand(o)
(* The methods and the installer go on by themselves, except that nobody   *)
(* has to answer them: neither the person at the prompt, nor a server (the *)
(* connection has no time limit), nor a checkpoint that is at work, whose  *)
(* script, say, may never end.  The services have no time limit either.    *)
OnItsOwn ==
    \/ \E f \in {"named", "default", "none"}, dhcp \in BOOLEAN : Discover(f, dhcp)
    \/ loc.at = "media" /\ \E m \in Manifests : LocalManifest(m)
    \/ \E errors, can, unmounts \in BOOLEAN : Configure(errors, can, unmounts)
    \/ \E unmounts \in BOOLEAN : Conclude(unmounts)
    \/ ServiceStep
ClientSpec == ClientInit /\ [][ClientNext]_clientVars /\ WF_clientVars(OnItsOwn)

----------------------------------------------------------------------------
(* Properties *)

(* The network that a client names to a server is the one its address is   *)
(* in: the address without the bits past the prefix, which is as long as   *)
(* the client says (AICriteriaNetwork).                                    *)
NetworkOfClient ==
    (loc.sent # NoFile /\ loc.host.iface = "v4") =>
        LET n == loc.sent.network["network"]
        IN  n.net = {b \in loc.host.ip : b >= W - n.bits}

(* An installer that says it succeeded has run every checkpoint, or every  *)
(* one before that where it was told to stop, which it knew; and its       *)
(* transfers were into one image (perform_autoinstall() and                *)
(* configure_checkpoints()).                                               *)
ExitTruthful ==
    (ai.pc = "exit" /\ ai.code \in {0, 64} /\ ai.phase = "install" /\ ~ai.opt.list) =>
        LET all == Registered(ai.opt, ai.m) IN
        /\ ai.done \o ai.todo = all
        /\ ai.todo # <<>> => Head(ai.todo) = ai.stop
        /\ Cardinality({i \in DOMAIN ai.images : ai.images[i] = "create"}) <= 1

(* A machine that reboots by itself has a complete system: nothing was     *)
(* left to do, the log was put into the new boot environment while that    *)
(* was mounted, and it is no longer mounted.                               *)
RebootComplete ==
    smf = "rebooted" =>
        ai.todo = <<>> /\ ai.log = "be" /\ ai.be = "unmounted" /\ ai.m.reboot

(* The profiles that an installation applies are those of one answer of a  *)
(* server, however often the locator ran (cleanup_earlier_run()).          *)
ProfilesOfOneAnswer == Cardinality({p.of : p \in vol.profiles}) <= 1

(* The profiles of an installation are those that came with its manifest,  *)
(* and the configuration tool is started only if there are none.           *)
ProfilesOfThisManifest ==
    smf = "running" => /\ \A p \in vol.profiles : p.of = vol.from
                       /\ vol.sci => vol.profiles = {}

(* A client whose locator or installer has begun comes to an end: it       *)
(* reboots, is done, waits for an administrator, or gives the prompt back; *)
(* unless it stays for ever at the prompt for a manifest, at a server that *)
(* was asked and does not answer, or at one checkpoint (main() of the      *)
(* methods manifest-locator and auto-installer, perform_autoinstall()).    *)
ClientConcludes ==
    (loc.at \in {"prompt", "media", "discover", "ask"} \/ ai.pc = "run") ~>
        \/ loc.at = "fatal" \/ smf \in {"online", "rebooted", "maintenance", "shell"}
        \/ loc.at = "ok" /\ ~loc.boot.install /\ ai.pc = "off"
        \/ [](loc.at = "prompt")
        \/ [](loc.at = "ask" /\ loc.list # <<>>)
        \/ [](ai.pc = "run" /\ ai.todo # <<>> /\ Head(ai.todo) # ai.stop)

(* What the client tells a server, the exit code and the log of the        *)
(* installer are true, and what is installed belongs together.             *)
ClientSound == NetworkOfClient /\ ExitTruthful /\ RebootComplete /\ ProfilesOfOneAnswer
=============================================================================
