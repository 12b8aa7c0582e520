-------------------------- MODULE MCInstallClient --------------------------
(***************************************************************************)
(* What runs on a machine that is being installed: the client and its      *)
(* services, a transfer checkpoint, the instantiation of the target's      *)
(* pools, the boot configuration and the completion tasks.  One of them is *)
(* looked at at a time, so that each is explored beside the others at rest.*)
(***************************************************************************)
EXTENDS AIClient, Transfer, PoolInstantiation, BootMenu, CompletionTasks

(***************************************************************************)
(* Clients with an IPv4 interface, with an IPv6 one and with none; boots   *)
(* from the network, from media and with a prompt; and manifests of one    *)
(* and of two software nodes, one of them derived.                         *)
(***************************************************************************)
Sw(name, type, on) ==
    [name |-> name, type |-> type, install |-> on, contents |-> 1, img |-> FALSE]
Manif(script, sw, zones, pools, reboot) ==
    [script |-> script, sw |-> sw, zones |-> zones, pools |-> pools, reboot |-> reboot]
TheManifests ==
    {Manif(FALSE, <<Sw("none", "IPS", TRUE), Sw("add", "IPS", TRUE)>>, FALSE, {}, TRUE),
     Manif(TRUE, <<>>, FALSE, {}, FALSE),
     Manif(FALSE, <<Sw("one", "CPIO", TRUE)>>, TRUE, {"data"}, FALSE)}
TheGenerated == <<"generated-transfer-1", "generated-transfer-2">>
TheScripts ==
    {[readable |-> TRUE, hashbang |-> TRUE, accessible |-> TRUE, rc |-> 0, valid |-> v] :
        v \in BOOLEAN}
Boot(on, where, name, address) ==
    [install |-> on, where |-> where, name |-> name, address |-> address]
TheBoots ==
    {Boot(TRUE, "net", TRUE, "none"), Boot(FALSE, "net", TRUE, "none"),
     Boot(TRUE, "net", TRUE, "server"), Boot(TRUE, "media", FALSE, "none"),
     Boot(TRUE, "prompt", FALSE, "none")}
Opt(stop, list, zone) ==
    [stop |-> stop, list |-> list, dry |-> FALSE, zone |-> zone, profile |-> ~zone]
TheOptions ==
    {Opt("target-instantiation", FALSE, FALSE), Opt("first-transfer", FALSE, FALSE),
     Opt("none", TRUE, FALSE), Opt("target-instantiation", TRUE, FALSE),
     Opt("none", FALSE, TRUE), Opt("manifest-parser", FALSE, FALSE),
     Opt("target-discovery", FALSE, FALSE), [Opt("none", FALSE, FALSE) EXCEPT !.dry = TRUE]}
Host(iface, mask, unit) ==
    [uname |-> {"arch", "cpu"}, mem |-> 2048, unit |-> unit, iface |-> iface,
     ether |-> TRUE, ip |-> {0, 2, 3, 5}, mask |-> mask]
TheHosts == {Host("v4", {2, 3, 4, 5}, "Kilobytes"), Host("v6", {}, "Megabytes"),
             Host("none", {}, "")}

(***************************************************************************)
(* Nodes of each type of transfer, sound and refused ones, onto an image   *)
(* with publishers and packages of its own and onto nothing.               *)
(***************************************************************************)
It(action, contents, file, sized) ==
    [action |-> action, contents |-> contents, file |-> file, sized |-> sized, temp |-> <<>>]
Pub(name, origins) == [name |-> name, origins |-> origins, sigpol |-> FALSE]
Node(kind, action, pubs, items) ==
    [kind |-> kind, action |-> action, zone |-> FALSE, named |-> FALSE, pubs |-> pubs,
     args |-> {}, items |-> items]
In(c) == It("install", c, "", FALSE)
Out(c) == It("uninstall", c, "", FALSE)
TwoPubs == <<Pub("main", {"o1"}), Pub("more", {"o2"})>>
TheSoftwares ==
    {Node("IPS", "create", TwoPubs, <<In({"a", "b"}), Out({"a"})>>),
     Node("IPS", "create", <<>>, <<In({"a"}), In({"a"})>>),
     Node("IPS", "use_existing", TwoPubs, <<In({"a"})>>),
     Node("IPS", "use_existing", <<Pub("main", {"o1"}), Pub("main", {"o2"})>>, <<>>),
     [Node("IPS", "create", <<Pub("main", {"o1"})>>, <<In({"a"})>>) EXCEPT !.zone = TRUE],
     [Node("IPS", "create", <<Pub("main", {"o1"})>>, <<In({"a"})>>) EXCEPT
         !.zone = TRUE, !.named = TRUE],
     [Node("IPS", "create", TwoPubs, <<In({"a"})>>) EXCEPT !.args = {"force"}],
     [Node("IPS", "create", TwoPubs, <<In({"a"})>>) EXCEPT
         !.pubs[1].sigpol = TRUE, !.pubs[2].sigpol = TRUE],
     Node("P5I", "use_existing", <<Pub("file", {}), Pub("more", {"o2"})>>,
          <<In({"a"}), In({"b"})>>),
     Node("CPIO", "create", <<>>, <<In({"a", "b"}), It("install", {"c"}, "list", TRUE),
                                    Out({"b"}), It("transform", {"d"}, "script", FALSE)>>),
     Node("CPIO", "create", <<>>, <<In({"a"}), It("install", {"c"}, "list", FALSE)>>),
     Node("CPIO", "create", <<>>, <<In({"a"}), It("install", {"c"}, "missing", TRUE)>>),
     Node("SVR4", "create", <<Pub("main", {"o1"})>>, <<In({"a"}), Out({"a"}), In({"b"})>>),
     Node("SVR4", "create", <<Pub("main", {"o1"})>>, <<In({"a"}),
                                                      It("install", {"b"}, "missing", FALSE)>>)}
TheImages ==
    {[there |-> TRUE, pubs |-> <<[name |-> "old", origins |-> {"o3"}],
                                 [name |-> "main", origins |-> {"o4"}]>>, have |-> {"z"}],
     [there |-> FALSE, pubs |-> <<>>, have |-> {}]}

(***************************************************************************)
(* Pools to create, to keep and to delete, for the machine and for a zone, *)
(* dry and not, over a system that has none of them, a root pool in use as *)
(* swap and dump, also with volumes whose names begin like those of the    *)
(* desired ones, a data pool, and another root pool.                       *)
(***************************************************************************)
Fs(name, action) == [name |-> name, action |-> action, inBe |-> FALSE]
Zv(name, action, use) == [name |-> name, action |-> action, use |-> use]
Pl(name, action, fs, zvols) ==
    [name |-> name, action |-> action, fs |-> fs, zvols |-> zvols, be |-> name = "rpool",
     vdevs |-> "some"]
RootPool ==
    Pl("rpool", "create",
       <<Fs(<<"export">>, "create"), Fs(<<"export", "home">>, "create"),
         [Fs(<<"opt">>, "create") EXCEPT !.inBe = TRUE]>>,
       <<Zv(<<"swap">>, "create", "swap"), Zv(<<"dump">>, "create", "dump")>>)
KeptPool ==
    Pl("tank", "preserve", <<Fs(<<"a">>, "delete"), Fs(<<"b">>, "preserve")>>,
       <<Zv(<<"v">>, "create", "none"), Zv(<<"swap">>, "create", "swap")>>)
GonePool == Pl("tank", "delete", <<>>, <<Zv(<<"swap">>, "delete", "swap")>>)
TheTargets ==
    [pools : {<<RootPool>>, <<RootPool, KeptPool>>, <<RootPool, GonePool>>, <<KeptPool>>,
              <<[RootPool EXCEPT !.vdevs = "empty"]>>,
              <<KeptPool, [RootPool EXCEPT !.action = "preserve"]>>},
     dry : BOOLEAN, zone : {FALSE}]
    \cup [pools : {<<RootPool>>}, dry : {FALSE}, zone : {TRUE}]
TheBegins == {<<"swap", "swap2">>, <<"dump", "dump2">>}
Had(datasets, used, dumpTo) ==
    [zfs |-> [d \in datasets |-> "old"], swaps |-> used, dump |-> dumpTo]
OfRoot(names) == {<<"rpool">> \o n : n \in names}
OfTank(names) == {<<"tank">> \o n : n \in names}
TheSystems ==
    {Had({}, {}, <<>>),
     Had(OfRoot({<<>>, <<"swap">>, <<"dump">>, <<"export">>}), OfRoot({<<"swap">>}), <<>>),
     Had(OfRoot({<<>>, <<"swap">>, <<"dump">>, <<"export">>, <<"export", "home">>}),
            OfRoot({<<"swap">>}), <<"rpool", "dump">>),
     Had(OfRoot({<<>>, <<"swap">>, <<"dump">>, <<"dump2">>}), OfRoot({<<"swap">>}),
         <<"rpool", "dump2">>),
     Had(OfRoot({<<>>, <<"swap">>, <<"swap2">>}), OfRoot({<<"swap">>, <<"swap2">>}), <<>>),
     Had(OfTank({<<>>, <<"a">>, <<"b">>, <<"v">>, <<"swap">>, <<"mine">>}),
            OfTank({<<"swap">>}), <<>>),
     Had(OfTank({<<>>, <<"a">>, <<"a", "b">>}) \cup OfRoot({<<>>, <<"other">>}),
            OfRoot({<<"other">>}), <<>>)}

(***************************************************************************)
(* Edits of a menu by a client, the boot menu of an installed system with  *)
(* and without other boot environments, active ones too, of a SPARC system *)
(* and of an image.                                                        *)
(***************************************************************************)
Entry(kind, fs) == [kind |-> kind, bootfs |-> fs, title |-> "old"]
OldMenu ==
    [entries |-> <<Entry("solaris", "a"), Entry("chain", NoFs), Entry("solaris", "b")>>,
     default |-> 3]
Job(kind) ==
    [kind |-> kind, menu |-> OldMenu, bootfs |-> "a", bes |-> <<>>, chains |-> 1, target |-> "t",
     custom |-> <<>>, devs |-> 2, dry |-> FALSE, ready |-> TRUE, others |-> {},
     setBootfs |-> TRUE]
BootEnv(fs, active) == [bootfs |-> fs, active |-> active]
CustomEntry(default, where) == [default |-> default, at |-> where]
OfSystem(bes) == [Job("system") EXCEPT !.bes = bes]
TheJobs ==
    {[Job("edit") EXCEPT !.others = {"a", "c"}],
     [Job("edit") EXCEPT !.others = {"b"}, !.menu.default = 0, !.devs = 1, !.setBootfs = FALSE],
     [Job("edit") EXCEPT !.others = {"b"}, !.menu.default = 0, !.bootfs = "z", !.devs = 1],
     OfSystem(<<BootEnv("a", FALSE), BootEnv("t", FALSE), BootEnv("b", FALSE)>>),
     OfSystem(<<BootEnv("t", FALSE), BootEnv("a", TRUE)>>),
     [OfSystem(<<BootEnv("a", FALSE), BootEnv("t", FALSE)>>) EXCEPT
         !.custom = <<CustomEntry(TRUE, "start"), CustomEntry(TRUE, "end"), CustomEntry(FALSE, "start")>>],
     OfSystem(<<BootEnv("a", FALSE)>>), [OfSystem(<<>>) EXCEPT !.ready = FALSE],
     [OfSystem(<<BootEnv("t", FALSE)>>) EXCEPT !.dry = TRUE],
     Job("sparc"), [Job("sparc") EXCEPT !.dry = TRUE],
     [Job("image") EXCEPT !.chains = 3, !.target = NoFs, !.custom = <<CustomEntry(TRUE, "end")>>],
     [Job("image") EXCEPT !.chains = 3, !.target = NoFs, !.dry = TRUE]}

(***************************************************************************)
(* The completion tasks of the three installers, with what each lacks.     *)
(***************************************************************************)
Completion(by) ==
    [by |-> by, dry |-> FALSE, save |-> FALSE, packages |-> TRUE, dump |-> TRUE,
     swap |-> <<"swap1", "swap2">>, profiles |-> <<"profile1", "profile2">>,
     invalid |-> {}, missing |-> {"service_logs"}, x86 |-> TRUE]
TheInstalls ==
    {Completion("ai"), Completion("zone"), [Completion("ai") EXCEPT !.invalid = {"profile2"}],
     [Completion("ai") EXCEPT !.dry = TRUE], [Completion("text") EXCEPT !.save = TRUE],
     [Completion("text") EXCEPT !.profiles = <<>>, !.dump = FALSE, !.packages = FALSE],
     [Completion("ai") EXCEPT !.x86 = FALSE, !.missing = {}, !.swap = <<>>, !.profiles = <<>>],
     [Completion("text") EXCEPT !.dry = TRUE]}

-----------------------------------------------------------------------------
VARIABLE subject
Subjects == {"client", "transfer", "pools", "boot", "completion"}
machineVars == <<clientVars, transferVars, poolVars, bootVars, ictVars, subject>>

(* What is not looked at has one initial state.                            *)
Init ==
    /\ subject \in Subjects
    /\ ClientInit /\ (subject # "client" => loc.host = CHOOSE h \in Hosts : TRUE)
    /\ TransferInit /\ (subject # "transfer" =>
                          /\ ck = New(CHOOSE s \in Softwares : TRUE)
                          /\ dst = CHOOSE d \in Images : TRUE)
    /\ PoolInit /\ (subject # "pools" => /\ want = CHOOSE t \in Targets : TRUE
                                         /\ had = CHOOSE s \in Systems : TRUE)
    /\ BootInit /\ (subject # "boot" => job = CHOOSE j \in Jobs : TRUE)
    /\ IctInit /\ (subject # "completion" => install = CHOOSE i \in Installs : TRUE)
Next ==
    /\ UNCHANGED subject
    /\ \/ subject = "client" /\ ClientNext
          /\ UNCHANGED <<transferVars, poolVars, bootVars, ictVars>>
       \/ subject = "transfer" /\ TransferNext
          /\ UNCHANGED <<clientVars, poolVars, bootVars, ictVars>>
       \/ subject = "pools" /\ PoolNext
          /\ UNCHANGED <<clientVars, transferVars, bootVars, ictVars>>
       \/ subject = "boot" /\ BootNext
          /\ UNCHANGED <<clientVars, transferVars, poolVars, ictVars>>
       \/ subject = "completion" /\ IctNext
          /\ UNCHANGED <<clientVars, transferVars, poolVars, bootVars>>
Spec ==
    /\ Init /\ [][Next]_machineVars
    /\ WF_clientVars(subject = "client" /\ OnItsOwn)
    /\ WF_transferVars(subject = "transfer" /\ TransferStep)
    /\ WF_transferVars(subject = "transfer" /\ MonitorStep)
=============================================================================
