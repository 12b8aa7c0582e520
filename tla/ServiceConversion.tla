------------------------- MODULE ServiceConversion -------------------------
(***************************************************************************)
(* installadm-convert: the services and clients that an earlier release    *)
(* kept in SMF, /var/ai and /tftpboot become those of this one.            *)
(*                                                                         *)
(* main() is a list of steps.  A step that meets an error it knows gives   *)
(* up the service it is about, any other error ends the program, and the   *)
(* machine may stop anywhere; the administrator may then start it again.   *)
(***************************************************************************)
EXTENDS Naturals, Sequences, SequencesExt, FiniteSets

CONSTANTS
    Servers,     \* what an installation server has, and which of its services
                 \* may meet errors
    MaxStarts,   \* bound: times the program is started
    NoImage

ASSUME ServiceConversionAssumption == MaxStarts \in Nat

VARIABLES
    server,      \* services, in the order of the dictionary, clients, options
    disk,        \* what SMF, /var/ai, /tftpboot and /etc/netboot hold, and
                 \* the images the services found have
    begun,       \* history: SMF, directories and clients when the program was
                 \* started last
    steps,       \* the rest of main()
    unconverted, \* services given up
    starts, state
convertVars == <<server, disk, begun, steps, unconverted, starts, state>>

Names(s) == {s.services[i].name : i \in DOMAIN s.services}
Service(n) == CHOOSE v \in Range(server.services) : v.name = n
Found(d) == [smf |-> d.smf, dir |-> d.dir, client |-> d.client]
Step(op, of) == [op |-> op, of |-> of]
ForEach(seq, f(_)) == FoldLeft(LAMBDA acc, x : acc \o f(x), <<>>, seq)

-----------------------------------------------------------------------------
(* Addresses of the clients of a network become ranges of the ISC server's *)
(* configuration.  They are sorted by the last octet first, and a range    *)
(* does not leave its first three.                                         *)

Before(a, b) == a.host < b.host \/ (a.host = b.host /\ a.net < b.net)
NextHost(a, last) == a.host = last.host + 1
NextInRange(a, last) == a.net = last.net /\ a.host = last.host + 1
GenerateIpRanges(clients) ==
    LET sorted == SetToSortSeq(clients, Before)
        starts0 == {i \in DOMAIN sorted : i = 1 \/ ~NextInRange(sorted[i], sorted[i - 1])}
        End(i) == CHOOSE j \in i .. Len(sorted) :
                     /\ j = Len(sorted) \/ j + 1 \in starts0
                     /\ \A k \in i + 1 .. j : k \notin starts0
    IN  {[lo |-> sorted[i], hi |-> sorted[End(i)]] : i \in starts0}

-----------------------------------------------------------------------------
(* What main() finds, and the steps it takes.  Services are those that SMF *)
(* still has; without one there is nothing to do.                          *)

GetLocalServices == SelectSeq(server.services, LAMBDA v : v.name \in disk.smf)
UpgradeSteps(v) ==
    <<Step("del_prop_group", v.name), Step("move_directory", v.name),
      Step("move_boot", v.name), Step("create_config", v.name),
      Step("move_install_conf", v.name)>>
    \o IF v.version = 0 /\ ~v.manifest THEN <<Step("add_manifest", v.name)>> ELSE <<>>
ClientSteps(c) == <<Step("remove_client", c), Step("create_client", c)>>
(* The clients still registered the old way, with a service that is there. *)
GetClients == {c \in DOMAIN server.clients :
                  disk.client[c] = "old" /\ server.clients[c] \in disk.smf}
MainSteps ==
    LET found == GetLocalServices
    IN  <<Step("dhcp", "")>>
        \o IF found = <<>> THEN <<>>
           ELSE <<Step("disable", ""), Step("image_paths", "")>>
                \o ForEach(found, UpgradeSteps)
                \o ForEach(SetToSeq(GetClients), ClientSteps)
                \o <<Step("netboot", "")>>
                \o ForEach(SelectSeq(found, LAMBDA v : v.default),
                           LAMBDA v : <<Step("rename", v.name)>>)
                \o <<Step("enable", "")>>

At(op) == state = "running" /\ steps # <<>> /\ Head(steps).op = op
It == Head(steps).of
Continue(rest) == /\ steps' = rest
                  /\ state' = IF rest = <<>> THEN "done" ELSE "running"
                  /\ UNCHANGED <<server, begun, starts>>
Does(d) == /\ Continue(Tail(steps))
           /\ disk' = IF server.dry THEN disk ELSE d
           /\ UNCHANGED unconverted
(* ServiceConversionError: on to the next service.                         *)
AboutService(s, n) == s.of = n
About(s, n) == s.of = n \/ (s.of \in DOMAIN server.clients /\ server.clients[s.of] = n)
GivesUp(d) ==
    /\ Continue(SelectSeq(Tail(steps), LAMBDA s : ~About(s, It)))
    /\ unconverted' = unconverted \cup {It}
    /\ disk' = d
Traceback(d) == /\ ~server.dry
                /\ state' = "stopped" /\ steps' = <<>> /\ disk' = d
                /\ UNCHANGED <<server, begun, unconverted, starts>>

-----------------------------------------------------------------------------
(* An error of the file system or a command at the service of this step    *)
Fails == ~server.dry /\ It \in server.faulty

(* The configuration of the ISC server is written in a dry run too, over   *)
(* the one of an earlier run; that it cannot be is only told.              *)
CreateIscDhcpConfiguration ==
    /\ At("dhcp")
    /\ Continue(Tail(steps))
    /\ \/ server.solarisDhcp /\ disk' = [disk EXCEPT !.isc = GenerateIpRanges(server.addresses)]
       \/ disk' = disk
    /\ UNCHANGED unconverted
DisableInstance == At("disable") /\ Does([disk EXCEPT !.online = FALSE])

(* A service that shares an image with an earlier one that was found gets  *)
(* a copy, if the image is there.                                          *)
(* Faulty variant: one copy is made.                                       *)
UniqueOnce(found, image) ==
    LET twice == {i \in DOMAIN found : \E j \in 1 .. i - 1 : found[j].image = found[i].image}
    IN  IF twice = {} THEN image
        ELSE [image EXCEPT ![found[CHOOSE i \in twice : TRUE].name] = "copy"]
Unique(found, image) ==
    FoldLeft(LAMBDA acc, v :
                IF v.copyable /\ \E n \in DOMAIN acc \ {v.name} :
                                    /\ acc[n] = acc[v.name]
                                    /\ \E i, j \in DOMAIN found :
                                          i < j /\ found[i].name = n /\ found[j] = v
                THEN [acc EXCEPT ![v.name] = v.name] ELSE acc,
             image, found)
ConvertImagePaths ==
    /\ At("image_paths")
    /\ \/ Does([disk EXCEPT !.image = Unique(GetLocalServices, @)])
       \/ Traceback(disk)                     \* no room for the copy
(* The group goes first; that it cannot is only warned about.              *)
DelPropGroup == /\ At("del_prop_group")
                /\ \/ Does([disk EXCEPT !.smf = @ \ {It}])
                   \/ Fails /\ Does(disk)
(* The directory of the service's name, or else of its port with a link,   *)
(* if the image is there; a dry run does not make the one they move to and *)
(* then takes it for something else.  A move that fails may have moved     *)
(* nothing, a part or (when it is the link that fails) everything; what    *)
(* is moved again after a part of it was ends inside that part.            *)
Moved(d) == CASE d = "none" -> "none"
              [] d = "part" -> "nested"
              [] OTHER -> "new"
MoveServiceDirectory ==
    /\ At("move_directory")
    /\ IF ~Service(It).copyable \/ (server.dry /\ ~server.hasDir) THEN GivesUp(disk)
       ELSE \/ Does([disk EXCEPT !.dir[It] = Moved(@)])
            \/ \E left \in {disk.dir[It], "part", "new"} :
                  /\ disk.dir[It] \in {"old", "port"} /\ Fails
                  /\ \/ GivesUp([disk EXCEPT !.dir[It] = left])
                     \/ Traceback([disk EXCEPT !.dir[It] = left])
(* Boot archives are found through the menu under /tftpboot; a vfstab that  *)
(* cannot be read or written is only warned of.                            *)
RemoveBootArchiveFromVfstab(n) ==
    {disk} \cup (IF server.dry THEN {} ELSE {[disk EXCEPT !.vfstab = @ \ {n}]})
(* menu.lst, after the archives' lines, or wanboot.conf.  The menu is      *)
(* moved and then edited, and either may fail; without a directory of the  *)
(* service there is nowhere to move it.                                    *)
MoveBootFiles ==
    /\ At("move_boot")
    /\ \E unlisted \in RemoveBootArchiveFromVfstab(It) :
         IF disk.boot[It] # "old" THEN GivesUp(unlisted)
         ELSE \/ Does([unlisted EXCEPT !.boot[It] = "new"])
              \/ disk.dir[It] = "none" /\ Traceback(unlisted)
              \/ \E left \in {"old", "new"} :
                    Fails /\ GivesUp([unlisted EXCEPT !.boot[It] = left])
CreateConfig ==
    /\ At("create_config")
    /\ \/ /\ disk.dir[It] # "none" \/ server.dry
          /\ Does([disk EXCEPT !.config[It] = disk.image[It]])
       \/ (Fails \/ disk.dir[It] = "none") /\ Traceback(disk)
(* install.conf, or its copy if it is a link that leads nowhere, moves to  *)
(* the service's directory and becomes a link to there.                    *)
MoveInstallConf ==
    /\ At("move_install_conf")
    /\ LET moved == [disk EXCEPT !.systemConf = @ \cup {It}]
       IN  Does(moved) \/ (Fails /\ (Traceback(disk) \/ Traceback(moved)))
(* The default manifest goes through installadm; when that fails it is put *)
(* back.                                                                   *)
UpgradeManifest ==
    /\ At("add_manifest")
    /\ IF disk.dir[It] = "none" THEN GivesUp(disk)
       ELSE \/ Does([disk EXCEPT !.manifest = @ \cup {It}])
            \/ Fails /\ Does(disk)
(* A client is removed, and made anew; neither failure is more than told.  *)
RemoveClient ==
    /\ At("remove_client")
    /\ Does([disk EXCEPT !.client[It] = "gone"]) \/ Does(disk)
CreateClient ==
    /\ At("create_client")
    /\ Does([disk EXCEPT !.client[It] = "new"]) \/ Does(disk)
(* What is left in /tftpboot; only when all of it could be moved does it   *)
(* become a link.                                                          *)
CopyNetbootFiles ==
    /\ At("netboot")
    /\ Does([disk EXCEPT !.tftpboot = "link"]) \/ Does(disk)
(* The names of the default aliases are free afterwards.                   *)
Rename == /\ At("rename")
          /\ \/ Does([disk EXCEPT !.renamed = @ \cup {It}])
             \/ Fails /\ Traceback(disk)
ServiceEnableAttempt == At("enable") /\ Does([disk EXCEPT !.online = TRUE])

(* The machine stops, or the administrator does.                           *)
Stop == state = "running" /\ Traceback(disk)
(* The images of the services found are those SMF has: that a service was  *)
(* given a copy of its own is written to its .config only.  (A run that    *)
(* came to its end leaves what one does that stops at its last step.)      *)
Start ==
    /\ state \in {"idle", "stopped"} /\ starts < MaxStarts
    /\ steps' = MainSteps /\ state' = "running" /\ starts' = starts + 1
    /\ unconverted' = {}
    /\ disk' = [disk EXCEPT !.image = [n \in Names(server) |-> Service(n).image]]
    /\ begun' = Found(disk)
    /\ UNCHANGED server

ConvertInit ==
    /\ server \in Servers
    /\ disk = [smf |-> Names(server),
               dir |-> [n \in Names(server) |-> Service(n).dir],
               boot |-> [n \in Names(server) |-> IF Service(n).boot THEN "old" ELSE "none"],
               image |-> [n \in Names(server) |-> Service(n).image],
               config |-> [n \in Names(server) |-> NoImage],
               client |-> [c \in DOMAIN server.clients |-> "old"],
               vfstab |-> Names(server), systemConf |-> {}, manifest |-> {}, renamed |-> {},
               isc |-> {}, tftpboot |-> "dir", online |-> TRUE]
    /\ begun = Found(disk)
    /\ steps = <<>> /\ unconverted = {} /\ starts = 0 /\ state = "idle"
ConvertNext ==
    \/ Start \/ Stop \/ CreateIscDhcpConfiguration \/ DisableInstance \/ ConvertImagePaths
    \/ DelPropGroup \/ MoveServiceDirectory \/ MoveBootFiles \/ CreateConfig
    \/ MoveInstallConf \/ UpgradeManifest \/ RemoveClient \/ CreateClient
    \/ CopyNetbootFiles \/ Rename \/ ServiceEnableAttempt
ConvertSpec == ConvertInit /\ [][ConvertNext]_convertVars

-----------------------------------------------------------------------------
(* Properties                                                              *)

InRange(a, r) == r.lo.net = a.net /\ r.hi.net = a.net /\ r.lo.host <= a.host /\ a.host <= r.hi.host

(* The ranges written are the addresses: each is in one, and no range has  *)
(* another.                                                                *)
RangesExact ==
    disk.isc # {} =>
        \A a \in [net : {1, 2}, host : 1 .. 4] :
           Cardinality({r \in disk.isc : InRange(a, r)}) = IF a \in server.addresses THEN 1 ELSE 0

(* A service that a run of the program found and did not report as not     *)
(* converted has all there is to it when that run is through, also if an   *)
(* earlier run stopped or gave the service up, and an image that no other  *)
(* service of the run has.                                                 *)
(* Only a directory of which an earlier run moved a part is not asked for. *)
(* The group in SMF goes first (main(), line 1923), so that a service at   *)
(* which a run stopped later is found by no other, and nothing is said of  *)
(* it here.                                                                *)
ConvertedIsWhole ==
    state = "done" /\ ~server.dry =>
        LET taken == begun.smf \ unconverted
        IN  \A n \in taken :
            /\ disk.config[n] # NoImage /\ disk.boot[n] = "new" /\ n \in disk.systemConf
            /\ disk.dir[n] = "new" \/ begun.dir[n] = "part"
            /\ Service(n).default => n \in disk.renamed
            /\ \A m \in taken \ {n} : disk.config[m] # disk.config[n]

(* The clients of a service that a run gave up are as that run found them. *)
UnconvertedClientsKept ==
    \A c \in DOMAIN server.clients :
        server.clients[c] \in unconverted => disk.client[c] = begun.client[c]

(* "-n, --dryrun - List but do not apply changes"                          *)
DryRunHarmless ==
    server.dry => disk.smf = Names(server) /\ disk.isc = {} /\ disk.online

(* The conversion of an old server, each time the program is started:      *)
(* exact address ranges, whole services, and the clients of the rest left  *)
(* alone.                                                                  *)
ConversionSound == RangesExact /\ ConvertedIsWhole /\ UnconvertedClientsKept
=============================================================================
