------------------------------ MODULE MCTargets ------------------------------
(***************************************************************************)
(* The checkpoint that selects the targets, on a system with three disks   *)
(* and two pools, with the manifests that can be put together from a few   *)
(* pools and disks; beside it the layout of one disk, on which it and the  *)
(* text installer make their changes; and the screens of the text          *)
(* installer and of sysconfig, where a user makes the same choices.        *)
(***************************************************************************)
EXTENDS TargetSelection, DiskLayout, InstallScreens, TLC

Slice(name, action, pool, vdev, size) ==
    [name |-> name, action |-> action, pool |-> pool, vdev |-> vdev, size |-> size,
     swap |-> FALSE]
Disk(ctd, size) ==
    [ctd |-> ctd, size |-> size, aliases |-> {ctd}, boot |-> FALSE, whole |-> TRUE,
     action |-> "create", swap |-> FALSE, pool |-> NoName, vdev |-> NoName,
     slices |-> <<>>, part |-> NoName, paction |-> "preserve", ppool |-> NoName,
     pvdev |-> NoName, psize |-> size, origin |-> "found"]
Pool(name, action, root, vdevs) ==
    [name |-> name, action |-> action, root |-> root, vdevs |-> vdevs, data |-> <<>>,
     bes |-> 0, beExists |-> FALSE, options |-> 0]
Vdev(name, red) == [name |-> name, red |-> red]
Zvol(name, action, use) == [kind |-> "zvol", name |-> name, action |-> action, use |-> use]

(* tank, a data pool on slice 1 of c1; two paths to c2; home on slice 0 of *)
(* c3.                                                                     *)
TheDisks ==
    [c \in {"c1", "c2", "c3"} |->
        CASE c = "c1" -> [Disk(c, 5) EXCEPT !.whole = FALSE, !.part = "1",
                            !.slices = <<Slice("0", "preserve", NoName, NoName, 4),
                                         Slice("1", "preserve", "tank", "v0", 1)>>]
          [] c = "c2" -> [Disk(c, 5) EXCEPT !.boot = TRUE, !.aliases = {"c2", "c2b"}]
          [] c = "c3" -> [Disk(c, 1) EXCEPT !.whole = FALSE, !.part = "1",
                            !.slices = <<Slice("0", "preserve", "home", "v0", 1)>>]]
ThePools ==
    [p \in {"tank", "home"} |->
        [Pool(p, "preserve", FALSE, <<Vdev("v0", "none")>>) EXCEPT
            !.data = IF p = "tank" THEN <<Zvol("z", "preserve", "none")>> ELSE <<>>]
        @@ [size |-> 1]]

ThePoolSpecs ==
    {Pool("root", "create", TRUE, <<Vdev("m", "none")>>),
     [Pool("root", "create", TRUE, <<>>) EXCEPT !.bes = 1, !.options = 1],
     Pool("data", "create", FALSE, <<Vdev("m", "mirror")>>),
     [Pool("data", "create", FALSE, <<>>) EXCEPT !.options = 1],
     [Pool("tank", "preserve", FALSE, <<>>) EXCEPT
        !.data = <<Zvol("z", "use_existing", "swap"), Zvol("z3", "create", "none")>>],
     [Pool("tank", "preserve", FALSE, <<>>) EXCEPT
        !.data = <<Zvol("z2", "create", "dump")>>],
     Pool("home", "delete", FALSE, <<>>)}
TheDiskSpecs ==
    {Disk("c1", 5), Disk("c2", 5), Disk("c2b", 5), Disk("c4", 5),
     [Disk("c2", 5) EXCEPT !.pool = "data"],
     [Disk("c3", 1) EXCEPT !.pool = "data"],
     [Disk("c1", 5) EXCEPT !.whole = FALSE, !.part = "1",
        !.paction = "use_existing_solaris2",
        !.slices = <<Slice("0", "create", NoName, NoName, 4)>>],
     [Disk("c1", 5) EXCEPT !.whole = FALSE,
        !.slices = <<Slice("0", "create", "root", NoName, 4)>>],
     [Disk("c1", 5) EXCEPT !.whole = FALSE,
        !.slices = <<Slice("1", "create", "root", NoName, 4)>>],
     [Disk("c2", 5) EXCEPT !.whole = FALSE, !.part = "1", !.paction = "create",
        !.ppool = "root", !.psize = 5],
     [Disk("c2", 5) EXCEPT !.whole = FALSE,
        !.slices = <<Slice("0", "create", "root", NoName, 1)>>],
     [Disk("c2", 5) EXCEPT !.whole = FALSE,
        !.slices = <<Slice("0", "create", "root", NoName, 1),
                     Slice("1", "create", "root", NoName, 1)>>],
     [Disk("c2", 5) EXCEPT !.whole = FALSE,
        !.slices = <<Slice("0", "create", NoName, NoName, 3),
                     Slice("1", "create", "data", NoName, 1),
                     Slice("3", "create", "data", NoName, 1)>>]}
(***************************************************************************)
(* An empty disk; a partition of another system before one with a VTOC; an *)
(* extended partition with a logical one, after one to be deleted; and a   *)
(* SPARC disk.                                                             *)
(***************************************************************************)
OnDiskPart(name, start, size, type, action, slices) ==
    [name |-> name, start |-> start, size |-> size, type |-> type, active |-> FALSE,
     action |-> action, slices |-> slices]
OnDiskSlice(name, start, size, action) ==
    [name |-> name, start |-> start, size |-> size, action |-> action]
TheLayouts ==
    {[parts |-> <<>>, slices |-> <<>>, x86 |-> TRUE],
     [parts |-> <<OnDiskPart(1, 1, 6, "other", "preserve", <<>>),
                  OnDiskPart(2, 9, 12, "solaris", "preserve",
                             <<OnDiskSlice(2, 0, 12, "preserve"),
                               OnDiskSlice(0, 3, 4, "preserve")>>)>>,
      slices |-> <<>>, x86 |-> TRUE],
     [parts |-> <<OnDiskPart(1, 3, 6, "other", "delete", <<>>),
                  OnDiskPart(2, 12, 9, "ext", "preserve", <<>>),
                  OnDiskPart(3, 13, 3, "other", "preserve", <<>>)>>,
      slices |-> <<>>, x86 |-> TRUE],
     [parts |-> <<>>, x86 |-> FALSE,
      slices |-> <<OnDiskSlice(2, 0, 24, "preserve"), OnDiskSlice(0, 4, 8, "preserve"),
                   OnDiskSlice(1, 15, 3, "delete")>>]}

(***************************************************************************)
(* Installations on two disks, one of which is too large to be used whole, *)
(* on an empty one, on SPARC and without disks, and sysconfig with all and *)
(* with a few of its groups.                                               *)
(***************************************************************************)
NoDisks == [d \in {} |-> "none"]
Now == [year |-> "leap", month |-> 12, day |-> 31]
OnText(isX86, disks, huge) ==
    [text |-> TRUE, x86 |-> isX86, nics |-> TRUE, groups |-> {}, disks |-> disks, huge |-> huge,
     now |-> Now]
OnGroups(groups, nics) ==
    [text |-> FALSE, x86 |-> TRUE, nics |-> nics, groups |-> groups, disks |-> NoDisks,
     huge |-> {}, now |-> Now]
TheSetups ==
    {OnText(TRUE, "d1" :> "none" @@ "d2" :> "sliced", {"d2"}), OnText(TRUE, "d1" :> "empty", {}),
     OnText(FALSE, "d1" :> "sliced", {}), OnText(TRUE, NoDisks, {}),
     OnGroups(Groups, FALSE), OnGroups(Groups \ {"identity"}, TRUE),
     OnGroups({"date_time"}, TRUE), OnGroups({"identity", "location"}, TRUE)}
(* A country that is in two regions, with a zone in each.                  *)
TheZones == [europe |-> [it |-> {"rome"}, ru |-> {"moscow"}], asia |-> [ru |-> {"omsk"}]]

-----------------------------------------------------------------------------
VARIABLE subject
targetVars == <<sel, layoutVars, screensVars, subject>>
Init ==
    /\ subject \in {"selection", "layout", "screens"}
    /\ SelInit /\ (subject # "selection" => sel.x86 /\ sel.noswap /\ sel.nodump)
    /\ LayoutInit /\ (subject # "layout" => disk = CHOOSE d \in Layouts : TRUE)
    /\ ScreensInit /\ (subject # "screens" => setup = CHOOSE s \in Setups : TRUE)
Next == /\ UNCHANGED subject
        /\ \/ subject = "selection" /\ SelNext /\ UNCHANGED <<layoutVars, screensVars>>
           \/ subject = "layout" /\ LayoutNext /\ UNCHANGED <<sel, screensVars>>
           \/ subject = "screens" /\ ScreensNext /\ UNCHANGED <<sel, layoutVars>>
Spec == Init /\ [][Next]_targetVars
=============================================================================
