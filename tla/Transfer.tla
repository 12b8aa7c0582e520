------------------------------ MODULE Transfer ------------------------------
(***************************************************************************)
(* A transfer checkpoint of lib/install_transfer (ips.py, p5i.py, cpio.py, *)
(* svr4.py), from the estimate the engine asks for to the end of its       *)
(* execute(), with the thread that watches the destination grow (prog.py)  *)
(* and a cancel() that comes from another thread at any moment.  pkg(5),   *)
(* cpio(1) and pkgadd(1M) are outside: an operation ends well or badly.    *)
(***************************************************************************)
EXTENDS Naturals, Sequences, SequencesExt, FiniteSets, FiniteSetsExt

CONSTANTS Softwares,  \* software nodes: [kind, action, zone, pubs, args, items]
          Images,     \* destinations: [there, pubs, have]
          PkgNum,     \* packages that count as a unit of size (DEFAULT_PKG_NUM)
          NoPub       \* a publisher without a name

ItemType == [action : STRING, contents : SUBSET STRING, file : STRING, sized : BOOLEAN,
             temp : Seq(Nat)]
PubType == [name : STRING, origins : SUBSET STRING]
SpecPub == [name : STRING, origins : SUBSET STRING, sigpol : BOOLEAN]
SoftwareType ==
    [kind : {"IPS", "P5I", "CPIO", "SVR4"}, action : {"create", "use_existing"},
     zone : BOOLEAN, named : BOOLEAN, args : SUBSET STRING, items : Seq(ItemType),
     pubs : Seq(SpecPub)]
ASSUME TransferAssumption ==
    /\ PkgNum \in Nat \ {0}
    /\ Softwares \subseteq SoftwareType
    /\ Images \subseteq [there : BOOLEAN, pubs : Seq(PubType), have : SUBSET STRING]

VARIABLES ck,    \* the checkpoint object
          dst,   \* the image or directory that is transferred to
          tmp,   \* temporary files
          lists, \* file lists that the media or the user provides
          mon    \* the thread of ProgressMon

transferVars == <<ck, dst, tmp, lists, mon>>

Default == "http://pkg.opensolaris.org/release"
Admin == <<0, 0>>          \* the admin file of pkgadd

----------------------------------------------------------------------------
(* What is read from the data object cache.  A parse that raises leaves    *)
(* what it had read so far.                                                *)

(* The first publisher is the preferred one; a zone has none of its own.   *)
Preferred(s) ==
    IF s.kind = "P5I" THEN SubSeq(s.pubs, 2, IF Len(s.pubs) > 1 THEN 2 ELSE 0)
    ELSE IF s.zone \/ s.pubs = <<>> THEN <<>> ELSE <<Head(s.pubs)>>
Additional(s) ==
    IF s.kind = "P5I" THEN SubSeq(s.pubs, 3, Len(s.pubs))
    ELSE IF s.zone \/ s.pubs = <<>> THEN s.pubs ELSE Tail(s.pubs)
(* _set_publisher_info(): the policy of one publisher counts for all.      *)
TwoPolicies(s) == Cardinality({i \in DOMAIN s.pubs : s.pubs[i].sigpol}) > 1

(* An item that is in the list is not appended again.                      *)
Noted(list, i) == IF i \in ToSet(list) THEN list ELSE Append(list, i)

(* The arguments of the image are kept from one parse to the next.         *)
ParseIPS(c) ==
    LET s == c.spec
    IN  [c EXCEPT !.args = @ \cup s.args, !.list = FoldLeft(Noted, @, s.items),
                  !.raised = \/ TwoPolicies(s)
                             \/ s.args \cap {"ssl_key", "ssl_cert"} # {}
                             \/ s.args \cap c.args # {}]
(* A p5i file lists packages of several publishers; the last is taken.     *)
ParseP5I(c) ==
    [c EXCEPT !.raised = c.spec.items = <<>> \/ TwoPolicies(c.spec),
              !.list = IF c.spec.items = <<>> THEN @ ELSE Noted(@, Last(c.spec.items))]

(* The file list of an item.  A list made here, or read from a file of the *)
(* source, becomes a sorted temporary file; the list it came from is       *)
(* removed.  With a size given the estimate does without.                  *)
Skips(i, full) == i.sized /\ ~full
Unreadable(i, have) == i.file # "" /\ i.file \notin have
Sorted(c, n) == <<c.parses + 1, n>>
TempLists(c, its, full) ==
    {Sorted(c, n) : n \in {m \in DOMAIN its : its[m].action = "install" /\ ~Skips(its[m], full)}}
Removed(its, full) ==
    {its[n].file : n \in {m \in DOMAIN its : its[m].action = "install" /\ ~Skips(its[m], full)}}
ReadBefore(c, have, full) ==
    LET its == c.spec.items
        bad == {n \in DOMAIN its : /\ ~Skips(its[n], full)
                                   /\ Unreadable(its[n], have \ Removed(SubSeq(its, 1, n - 1), full))}
    IN  IF bad = {} THEN its ELSE SubSeq(its, 1, Min(bad) - 1)
ParseCPIO(c, have, full) ==
    LET its == ReadBefore(c, have, full) IN
    [c EXCEPT !.raised = Len(its) < Len(c.spec.items), !.parses = @ + 1,
              !.list = @ \o [n \in DOMAIN its |->
                                [its[n] EXCEPT !.temp = IF Skips(its[n], full) THEN <<>>
                                                        ELSE Sorted(c, n)]]]

(* _parse_input_once(): packages are looked for in the source as they are  *)
(* read, and a parse that succeeded is not repeated.                       *)
ParseSVR4(c) ==
    IF c.parses > 0 THEN c
    ELSE LET bad == {n \in DOMAIN c.spec.items : c.spec.items[n].file # ""}
             its == IF bad = {} THEN c.spec.items ELSE SubSeq(c.spec.items, 1, Min(bad) - 1)
         IN  [c EXCEPT !.raised = bad # {}, !.list = @ \o its,
                       !.parses = IF bad = {} THEN 1 ELSE 0]

Parsed(c, have, full) ==
    CASE c.spec.kind = "IPS" -> ParseIPS(c)
      [] c.spec.kind = "P5I" -> ParseP5I(c)
      [] c.spec.kind = "CPIO" -> ParseCPIO(c, have, full)
      [] OTHER -> ParseSVR4(c)
(* _validate_input() *)
Invalid(s) == s.kind = "IPS" /\ s.zone /\ ~s.named
CPIO(c) == c.spec.kind = "CPIO"

----------------------------------------------------------------------------
(* The checkpoint *)

StopMonitorNever(m) == m
StopMonitor(m) == IF m.pc \in {"off", "ended"} THEN m ELSE [m EXCEPT !.done = TRUE]
TempsOf(c) == {c.list[n].temp : n \in {m \in DOMAIN c.list : c.list[m].action = "install"}}
CleanupMonitorOnly(c, files) == IF CPIO(c) THEN files ELSE files \ {Admin}
CleanupFiles(c, files) == IF CPIO(c) THEN files \ TempsOf(c) ELSE files \ {Admin}

(* get_progress_estimate(), on the way to the execution.  CPIO looks again *)
(* when it executes: its list is dropped.                                  *)
Estimate ==
    /\ ck.pc = "new"
    /\ LET c == Parsed(ck, lists, FALSE)
           raised == c.raised \/ Invalid(c.spec)
           its == ReadBefore(ck, lists, FALSE)
           made == IF CPIO(c) THEN TempLists(ck, its, FALSE) ELSE {}
       IN  /\ ck' = [c EXCEPT !.pc = IF raised THEN "failed" ELSE "ready",
                              !.prog = ~raised, !.raised = FALSE,
                              !.list = IF CPIO(c) /\ ~raised THEN <<>> ELSE @]
           /\ tmp' = IF raised THEN tmp \cup made ELSE tmp
           /\ lists' = IF CPIO(c) THEN lists \ Removed(its, FALSE) ELSE lists
    /\ UNCHANGED <<dst, mon>>

(* execute(): the input is parsed again, and the directory of CPIO and the *)
(* image of IPS are made.  Creating an image removes what is there.        *)
Finally(c, files, m) ==
    /\ ck' = [c EXCEPT !.pc = "cleanup"]
    /\ tmp' = CleanupFiles(c, files)
    /\ mon' = StopMonitor(m)
Execute(dry) ==
    /\ ck.pc = "ready"
    /\ LET c == [Parsed(ck, lists, TRUE) EXCEPT !.dry = dry]
           its == ReadBefore(ck, lists, TRUE)
           made == IF CPIO(c) THEN TempLists(ck, its, TRUE)
                   ELSE IF c.spec.kind = "SVR4" /\ ~c.raised THEN {Admin} ELSE {}
       IN  /\ IF c.raised
              THEN Finally([c EXCEPT !.res = "raised"], tmp \cup made, mon)
              ELSE /\ ck' = [c EXCEPT !.pc = "image"]
                   /\ tmp' = IF CPIO(c) /\ ck.cancel
                             THEN CleanupFiles(c, tmp \cup made) ELSE tmp \cup made
                   /\ UNCHANGED mon
           /\ lists' = IF CPIO(c) THEN lists \ Removed(its, TRUE) ELSE lists
    /\ UNCHANGED dst
(* get_ips_api_inst() *)
MakeImage(ok) ==
    /\ ck.pc = "image"
    /\ LET s == ck.spec
           create == s.kind = "IPS" /\ s.action = "create"
           good == ck.dry \/ s.kind \notin {"IPS", "P5I"} \/ (ok /\ (dst.there \/ create))
       IN  IF good
           THEN /\ ck' = [ck EXCEPT !.pc = "monitor"]
                /\ dst' = IF ck.dry THEN dst
                          ELSE IF create
                          THEN [there |-> TRUE, have |-> {},
                                pubs |-> IF Preferred(s) = <<>>
                                         THEN <<[name |-> NoPub, origins |-> {Default}]>>
                                         ELSE <<[name |-> Preferred(s)[1].name,
                                                 origins |-> Preferred(s)[1].origins]>>]
                          ELSE [dst EXCEPT !.there = TRUE]
                /\ UNCHANGED <<tmp, mon>>
           ELSE /\ Finally([ck EXCEPT !.res = "raised"], tmp, mon)
                /\ dst' = IF create THEN [there |-> FALSE, have |-> {}, pubs |-> <<>>] ELSE dst
    /\ UNCHANGED lists

(* startmonitor() returns when the thread has measured the destination.    *)
(* There is none for an image of fewer packages than make a unit.          *)
IPS(c) == c.spec.kind \in {"IPS", "P5I"}
Expected ==
    LET counts(i) == IPS(ck) \/ i.action = "install"
        units == FoldLeft(LAMBDA n, i : n + IF counts(i) THEN Cardinality(i.contents) ELSE 0,
                          0, ck.list)
    IN  IF IPS(ck) THEN (units \div PkgNum) * PkgNum ELSE units
Monitored == ~IPS(ck) \/ Expected # 0
StartMonitor ==
    /\ ck.pc = "monitor" /\ mon.pc = "off" /\ Monitored
    /\ mon' = [mon EXCEPT !.pc = "init"]
    /\ UNCHANGED <<ck, dst, tmp, lists>>
MonitorReady ==
    /\ ck.pc = "monitor" /\ (mon.pc \in {"watch", "ended"}) = Monitored
    /\ ck' = [ck EXCEPT !.pc = IF IPS(ck) THEN "publishers" ELSE "next"]
    /\ UNCHANGED <<dst, tmp, lists, mon>>

(* The publishers of an image that is there: the preferred one is put      *)
(* first, with the origins it is given and no others, and everything else  *)
(* removed; the additional ones are added, or given their origins.         *)
Given(p) == [name |-> p.name, origins |-> p.origins]
Without(pubs, name) ==
    FlattenSeq([i \in DOMAIN pubs |-> IF pubs[i].name = name THEN <<>> ELSE <<pubs[i]>>])
PlaceLast(pubs, p) == Append(Without(pubs, p.name), Given(p))
PlaceFirst(pubs, p) == <<Given(p)>> \o Without(pubs, p.name)
AddTo(pubs, p) ==
    IF \E i \in DOMAIN pubs : pubs[i].name = p.name
    THEN [i \in DOMAIN pubs |->
             IF pubs[i].name = p.name THEN [pubs[i] EXCEPT !.origins = @ \cup p.origins]
             ELSE pubs[i]]
    ELSE Append(pubs, Given(p))
SetPublishers(pubs, s) ==
    LET first == IF (s.kind = "P5I" \/ s.action = "use_existing") /\ Preferred(s) # <<>>
                 THEN <<Head(PlaceFirst(pubs, Preferred(s)[1]))>> ELSE pubs
    IN  FoldLeft(AddTo, first, Additional(s))
UpdatePublishers(ok) ==
    /\ ck.pc = "publishers"
    /\ IF ok \/ ck.dry
       THEN /\ dst' = IF ck.dry THEN dst ELSE [dst EXCEPT !.pubs = SetPublishers(@, ck.spec)]
            /\ ck' = [ck EXCEPT !.pc = "next"]
            /\ mon' = IF ck.cancel THEN StopMonitor(mon) ELSE mon
            /\ UNCHANGED tmp
       ELSE /\ Finally([ck EXCEPT !.res = "raised"], tmp, mon)
            /\ UNCHANGED dst
    /\ UNCHANGED lists

(* One item of the list.  check_cancel_event() cleans up and goes on.      *)
Item == ck.list[ck.at]
CheckCancel(c, files) == IF c.cancel THEN CleanupFiles(c, files) ELSE files
NextItem ==
    /\ ck.pc = "next" /\ ck.at <= Len(ck.list)
    /\ LET files == IF CPIO(ck) THEN tmp ELSE CheckCancel(ck, tmp)
           gone == CPIO(ck) /\ Item.action = "install" /\ Item.temp \notin files
       IN  IF ck.dry
           THEN ck' = [ck EXCEPT !.at = @ + 1] /\ UNCHANGED <<tmp, mon>>
           ELSE IF gone
           THEN Finally([ck EXCEPT !.res = "raised"], files, mon)
           ELSE /\ ck' = [ck EXCEPT !.pc = "busy", !.seen = @ \/ (~CPIO(ck) /\ ck.cancel)]
                /\ tmp' = files
                /\ mon' = IF ~CPIO(ck) /\ ck.cancel THEN StopMonitor(mon) ELSE mon
    /\ UNCHANGED <<dst, lists>>
Done(have, i) == IF i.action = "uninstall" THEN have \ i.contents ELSE have \cup i.contents

(* The operation ends.  pkgadd is asked for its status as soon as it has   *)
(* closed its output, when it may still be there; without its admin file   *)
(* it fails.  What cpio says is not looked at, a transform that fails is an *)
(* error.                                                                  *)
ReportsFailureNever(c, ended) == FALSE
ReportsFailure(c, ended) ==
    CASE c.spec.kind = "CPIO" -> Item.action = "transform" /\ ended = "failed"
      [] c.spec.kind = "SVR4" -> ended # "ok" \/ Admin \notin tmp
      [] OTHER -> ended = "failed"
Worked(c, ended) == ended # "failed" /\ (c.spec.kind = "SVR4" => Admin \in tmp)
ItemEnds(ended) ==
    /\ ck.pc = "busy"
    /\ ended = "closed" => ck.spec.kind = "SVR4"
    /\ dst' = IF Worked(ck, ended) THEN [dst EXCEPT !.have = Done(@, Item)] ELSE dst
    /\ IF ReportsFailure(ck, ended)
       THEN Finally([ck EXCEPT !.res = "raised"], tmp, mon)
       ELSE /\ ck' = [ck EXCEPT !.pc = "next", !.at = @ + 1]
            /\ UNCHANGED <<tmp, mon>>
    /\ UNCHANGED lists
AllItems ==
    /\ ck.pc = "next" /\ ck.at > Len(ck.list)
    /\ Finally([ck EXCEPT !.res = "ok"], tmp, mon)
    /\ UNCHANGED <<dst, lists>>
(* wait() *)
Joined ==
    /\ ck.pc = "cleanup" /\ mon.pc \in {"off", "ended"}
    /\ ck' = [ck EXCEPT !.pc = "done"]
    /\ UNCHANGED <<dst, tmp, lists, mon>>

(* cancel(), of the engine's thread: it reaches into an operation of       *)
(* pkg(5), and kills cpio(1); a package operation of SVR4 goes on, whose   *)
(* process nobody knows.                                                   *)
Cancel ==
    /\ ck.pc \notin {"new", "failed", "cleanup", "done"} /\ ~ck.cancel
    /\ IF ck.pc = "busy" /\ ck.spec.kind \in {"IPS", "P5I"}
       THEN Finally([ck EXCEPT !.cancel = TRUE, !.res = "raised"], tmp, mon)
       ELSE IF ck.pc = "busy" /\ ck.spec.kind = "CPIO"
       THEN /\ ck' = [ck EXCEPT !.cancel = TRUE, !.pc = "next", !.at = @ + 1]
            /\ UNCHANGED <<tmp, mon>>
       ELSE /\ ck' = [ck EXCEPT !.cancel = TRUE]
            /\ UNCHANGED <<tmp, mon>>
    /\ UNCHANGED <<dst, lists>>

----------------------------------------------------------------------------
(* The monitor thread.  It measures the destination until that answers,    *)
(* and reports what share of the expected size it has grown.  A size of    *)
(* nothing is an exception, that ends the thread.                          *)
Units(d) == Cardinality(d.have)
MonitorInit ==
    /\ mon.pc = "init" /\ dst.there
    /\ mon' = [mon EXCEPT !.pc = "watch", !.init = Units(dst)]
    /\ UNCHANGED <<ck, dst, tmp, lists>>
Percent(gain, size) == LET pct == (gain * 100) \div size IN IF pct >= 100 THEN 100 ELSE pct
MonitorLooks ==
    /\ mon.pc = "watch"
    /\ IF mon.done THEN mon' = [mon EXCEPT !.pc = "ended"]
       ELSE /\ Units(dst) > mon.init
            /\ IF Expected = 0 THEN mon' = [mon EXCEPT !.pc = "ended"]
               ELSE LET pct == Percent(Units(dst) - mon.init, Expected) IN
                    /\ pct # mon.pct
                    /\ mon' = [mon EXCEPT !.pct = pct,
                                          !.pc = IF pct = 100 THEN "ended" ELSE "watch"]
    /\ UNCHANGED <<ck, dst, tmp, lists>>

----------------------------------------------------------------------------
New(s) == [spec |-> s, pc |-> "new", list |-> <<>>, args |-> {}, parses |-> 0, at |-> 1,
           prog |-> FALSE, dry |-> FALSE, cancel |-> FALSE, seen |-> FALSE,
           raised |-> FALSE, res |-> "none"]
ListFiles(s) == {s.items[n].file : n \in DOMAIN s.items} \ {"", "missing"}
TransferInit ==
    /\ \E s \in Softwares : ck = New(s) /\ lists = ListFiles(s)
    /\ dst \in Images /\ tmp = {}
    /\ mon = [pc |-> "off", done |-> FALSE, init |-> 0, pct |-> 0]

TransferStep ==
    \/ Estimate \/ (\E dry \in BOOLEAN : Execute(dry))
    \/ (\E ok \in BOOLEAN : MakeImage(ok) \/ UpdatePublishers(ok))
    \/ StartMonitor \/ MonitorReady
    \/ NextItem \/ (\E e \in {"ok", "failed", "closed"} : ItemEnds(e))
    \/ AllItems \/ Joined
MonitorStep == MonitorInit \/ MonitorLooks
TransferNext == TransferStep \/ MonitorStep \/ Cancel
(* The two threads run, and an operation ends.                             *)
TransferSpec == /\ TransferInit /\ [][TransferNext]_transferVars
                /\ WF_transferVars(TransferStep) /\ WF_transferVars(MonitorStep)

----------------------------------------------------------------------------
(* Properties *)

(* A transfer of packages that says it succeeded has done all that the     *)
(* node asks for, in its order (AbstractIPS._transfer() and                *)
(* AbstractSVR4._transfer()); one with files relies on what cpio(1) does.  *)
SuccessIsTransferred ==
    (ck.pc = "done" /\ ck.res = "ok" /\ ~ck.dry /\ ck.spec.kind \in {"IPS", "SVR4"}) =>
        LET wanted == FoldLeft(Done, {}, ck.spec.items)
            touched == UNION {ck.spec.items[n].contents : n \in DOMAIN ck.spec.items}
        IN  dst.have \cap touched = wanted

(* After a transfer the image has the publishers of the manifest and no    *)
(* others, the preferred one first and, unless it is named twice, with the *)
(* origins it was given alone: none of an earlier installation is left     *)
(* (_transfer(), the publishers).                                          *)
PublishersAsAsked ==
    LET s == ck.spec IN
    (/\ ck.pc = "done" /\ ck.res = "ok" /\ ~ck.dry
     /\ s.kind \in {"IPS", "P5I"} /\ Preferred(s) # <<>>) =>
        LET p == Preferred(s)[1]
            names == {p.name} \cup {Additional(s)[n].name : n \in DOMAIN Additional(s)}
        IN  /\ {dst.pubs[n].name : n \in DOMAIN dst.pubs} = names
            /\ Len(dst.pubs) = Cardinality(names)
            /\ dst.pubs[1].name = p.name
            /\ (\A n \in DOMAIN Additional(s) : Additional(s)[n].name # p.name) =>
                   dst.pubs[1].origins = p.origins

(* What an execution made for itself is gone when it ends, however it      *)
(* ends: its file lists or its admin file, and its monitor.                *)
NothingLeftBehind == ck.pc = "done" => tmp = {} /\ mon.pc \in {"off", "ended"}

(* A cancelled transfer does no more work: once a check has seen the       *)
(* request, no further operation is begun (check_cancel_event()).          *)
CancelStops == [][ck.pc = "next" /\ ck'.pc = "busy" => ~ck'.seen]_transferVars

(* An execution ends, unless it is a dry run onto a destination that is    *)
(* not there, which its monitor waits for.                                 *)
TransferEnds ==
    (ck.pc = "image") ~> (ck.pc = "done" \/ (ck.dry /\ ~dst.there))

(* A transfer that succeeds did all it was asked to, and every execution   *)
(* cleans up after itself.                                                 *)
TransferSound == SuccessIsTransferred /\ PublishersAsAsked /\ NothingLeftBehind
=============================================================================
