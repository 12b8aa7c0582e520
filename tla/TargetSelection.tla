--------------------------- MODULE TargetSelection ---------------------------
(***************************************************************************)
(* The checkpoint that turns the targets of an AI manifest into the        *)
(* desired targets (cmd/auto-install/checkpoints/target_selection.py).  A  *)
(* manifest names ZFS pools and disks; the pools are merged with the ones  *)
(* discovered on the system, the disks with their partitions and slices    *)
(* are assigned to vdevs, and the result is validated.  Whatever goes      *)
(* wrong raises SelectionError or another exception: "refused".            *)
(*                                                                         *)
(* Sizes are numbers of one unit, the least a pool accepts is 1.  Where    *)
(* partitions and slices lie on the disk is the subject of DiskLayout: its *)
(* verdict on a disk is open here.  A disk has at most one partition that  *)
(* exists and names at most one; sizes are given.                          *)
(***************************************************************************)
EXTENDS Integers, Sequences, SequencesExt, FiniteSetsExt

CONSTANTS DiscPools,   \* the discovered pools, by name
          DiscDisks,   \* the discovered disks, by ctd name
          PoolSpecs,   \* pools a manifest may name
          DiskSpecs,   \* disks a manifest may name
          MaxPools, MaxDisks,  \* bounds on the manifest
          MinTarget,   \* minimum_target_size
          RootName,    \* the name the controller gives a root pool
          NoName       \* an attribute that is not given

ASSUME SelectionAssumption ==
    /\ MaxPools \in Nat /\ MaxDisks \in Nat /\ MinTarget \in Nat \ {0}
    /\ \A c \in DOMAIN DiscDisks :
          /\ c \in DiscDisks[c].aliases
          /\ \A o \in DOMAIN DiscDisks \ {c} :
                DiscDisks[c].aliases \cap DiscDisks[o].aliases = {}
    /\ RootName \notin DOMAIN DiscPools \cup {zp.name : zp \in PoolSpecs}

VARIABLE sel   \* the manifest and what the checkpoint has made of it

Preserved == {"preserve", "use_existing"}
Raidz == {"raidz", "raidz1", "raidz2", "raidz3"}
TopLevel == {"none", "mirror"} \cup Raidz
NotInRoot == {"log", "logmirror"}
DefaultVdev == "vdev"

Exists(name) == name \in DOMAIN DiscPools
Refused(s) == [s EXCEPT !.phase = "refused"]
IsRefused(s) == s.phase = "refused"
SetOf(q) == {q[i] : i \in DOMAIN q}
NamesOf(q) == {q[i].name : i \in DOMAIN q}
Distinct(q) == \A i, j \in DOMAIN q : q[i].name = q[j].name => i = j
Zvols(data, use) == SelectSeq(data, LAMBDA d : d.kind = "zvol" /\ d.use = use)

----------------------------------------------------------------------------
(* Pools *)

(* __handle_zpool() refuses ...                                            *)
ZpoolInvalid(s, zp) ==
    LET kept(d) == \/ d.kind = "fs" /\ d.action = "preserve"
                   \/ d.kind = "zvol" /\ d.action \in Preserved
        dumps == Zvols(zp.data, "dump")
    IN  \/ zp.name \in s.zmap
        \/ ~Distinct(zp.vdevs) \/ ~Distinct(zp.data)
        \/ zp.action \notin Preserved /\ \E d \in SetOf(zp.data) : kept(d)
        \/ s.noswap /\ Zvols(zp.data, "swap") # <<>>
        \/ dumps # <<>> /\ (s.nodump \/ s.dump \/ Len(dumps) > 1)
        \/ \E d \in SetOf(dumps) : d.action = "delete"
        \/ zp.options > 1
        \/ zp.bes > 0 /\ (~zp.root \/ zp.bes > 1 \/ s.be)

RecordPoolOnly(s, zp) ==
    IF ZpoolInvalid(s, zp) THEN Refused(s)
    ELSE [s EXCEPT !.vmap = @ \cup {<<zp.name, v>> : v \in NamesOf(zp.vdevs)},
                   !.pools = Append(@, zp)]

(* ... or copies the pool, with a vdev if it has none, and records it.     *)
HandleZpool(s, zp) ==
    LET added == zp.vdevs = <<>>
        new == IF added
               THEN [zp EXCEPT !.vdevs = <<[name |-> DefaultVdev, red |-> "mirror"]>>]
               ELSE zp
    IN  IF ZpoolInvalid(s, zp) \/ (zp.root /\ s.root # NoName) THEN Refused(s)
        ELSE [s EXCEPT !.zmap = @ \cup {zp.name},
                       !.vmap = @ \cup {<<zp.name, v>> : v \in NamesOf(new.vdevs)},
                       !.vadded = IF added THEN @ \cup {<<zp.name, DefaultVdev>>} ELSE @,
                       !.swaps = @ \cup {<<zp.name, d.name>> :
                                            d \in SetOf(Zvols(zp.data, "swap"))},
                       !.dump = @ \/ Zvols(zp.data, "dump") # <<>>,
                       !.be = @ \/ zp.bes > 0,
                       !.root = IF zp.root THEN zp.name ELSE @,
                       !.pools = Append(@, new),
                       !.shadow = FALSE]

(* A disk is found under any of its names.                                 *)
FindDisk(ctd) == {c \in DOMAIN DiscDisks : ctd \in DiscDisks[c].aliases}
ManyNamed(d) == Cardinality(DiscDisks[d.ctd].aliases) > 1

(* A discovered disk; only x86 has partitions.                             *)
Disc(s, c) == IF s.x86 THEN DiscDisks[c] ELSE [DiscDisks[c] EXCEPT !.part = NoName]

(* A slice, a partition or a disk that a discovered pool is made of.       *)
InPool(c, pool) ==
    DiscDisks[c].pool = pool \/ \E k \in SetOf(DiscDisks[c].slices) : k.pool = pool

(* __copy_zpool_discovered_devices(): the disks of the pool as they are.   *)
CopyDevices(s, pool) ==
    LET found == SetToSeq({c \in DOMAIN DiscDisks : InPool(c, pool)})
    IN  IF found = <<>> THEN Refused(s)
        ELSE [s EXCEPT !.disks = @ \o [i \in DOMAIN found |->
                 [Disc(s, found[i]) EXCEPT !.origin = "kept"]]]

(* One child of a preserved pool.  What is discovered under its name is    *)
(* to be removed, but delete_children() looks for the very object it is    *)
(* given, which is not there: the new one joins it, and the error about    *)
(* the name stays until the next child clears it.                          *)
PreservedChild(s, zp, d) ==
    LET mine == Last(s.pools)
        known == {e \in SetOf(mine.data) : e.name = d.name}
        old == CHOOSE e \in known : TRUE
        put(t, new, bad) ==
            [t EXCEPT !.pools = ReplaceAt(@, Len(@), [mine EXCEPT !.data = Append(@, new)]),
                      !.shadow = bad]
        reused == [old EXCEPT !.action = "create", !.use = d.use]
        flagged == \/ d.use = "swap" /\ s.noswap
                   \/ d.use = "dump" /\ s.nodump
    IN  CASE IsRefused(s) -> s
          [] known = {} /\ d.action # "create" -> Refused(s)
          [] known = {} -> put(s, d, flagged)
          [] known # {} /\ old.kind # d.kind -> Refused(s)
          [] known # {} /\ d.action \in {"preserve", "delete"} -> put(s, d, TRUE)
          [] known # {} /\ d.kind = "zvol" /\ d.action = "use_existing" ->
                IF \/ d.use = old.use \/ old.use = "dump" \/ flagged
                   \/ d.use = "dump" /\ s.dump
                THEN Refused(s)
                ELSE put([s EXCEPT !.dump = @ \/ d.use = "dump",
                                   !.swaps = IF d.use = "swap"
                                             THEN @ \cup {<<zp.name, d.name>>} ELSE @],
                         reused, TRUE)
          [] OTHER -> Refused(s)

(* __handle_preserved_zpool(): devices and options stay as they are.       *)
HandlePreserved(s, zp) ==
    LET one == [s EXCEPT !.pools = ReplaceAt(@, Len(@),
                                     [Last(@) EXCEPT !.action = zp.action])]
        all == FoldLeft(LAMBDA t, d : PreservedChild(t, zp, d), one, zp.data)
    IN  IF \/ zp.vdevs # <<>> \/ zp.options > 0
           \/ zp.bes > 0 /\ (~zp.root \/ zp.beExists \/ zp.bes > 1 \/ s.be)
        THEN Refused(s)
        ELSE IF zp.bes = 0 \/ IsRefused(all) THEN all
        ELSE [all EXCEPT !.be = TRUE, !.shadow = FALSE,
                         !.pools = ReplaceAt(@, Len(@), [Last(@) EXCEPT !.bes = 1])]

(* One pool of __handle_logical().                                         *)
MergeZpool(s, zp) ==
    IF zp.action \notin Preserved THEN HandleZpool(s, zp)
    ELSE IF ~Exists(zp.name) \/ (zp.action = "use_existing" /\ ~DiscPools[zp.name].root)
    THEN Refused(s)
    ELSE LET copied == HandleZpool(s, DiscPools[zp.name])
             placed == CopyDevices(copied, zp.name)
         IN  IF IsRefused(copied) \/ IsRefused(placed) THEN Refused(s)
             ELSE HandlePreserved(placed, zp)

DereferencedKnown(s, dev) ==
    IF dev.pool \in s.zmap THEN [dev EXCEPT !.pool = NoName, !.vdev = NoName] ELSE dev

(* __remove_invalid_zpool_references()                                     *)
Dereferenced(s, dev) ==
    IF dev.pool # NoName /\ dev.pool \notin s.zmap
    THEN [dev EXCEPT !.pool = NoName, !.vdev = NoName] ELSE dev
CleanDisk(s, d) ==
    [Dereferenced(s, d) EXCEPT !.slices =
        [i \in DOMAIN @ |-> Dereferenced(s, @[i])]]

(* __add_disks_to_map(): a disk goes in under all of its names.            *)
MapDisk(s, d) == IF IsRefused(s) \/ d.ctd \in s.dmap THEN Refused(s)
                 ELSE [s EXCEPT !.dmap = @ \cup {d.ctd} \cup d.aliases]

(* The end of __handle_logical().                                          *)
FinishLogical(s) ==
    LET clean == [s EXCEPT !.disks = [i \in DOMAIN @ |-> CleanDisk(s, @[i])]]
        mapped == FoldLeft(MapDisk, clean, clean.disks)
        keeping == \E zp \in SetOf(s.manPools) : zp.action \in Preserved
    IN  IF s.shadow \/ (keeping /\ IsRefused(mapped)) THEN Refused(s)
        ELSE [(IF keeping THEN mapped ELSE s) EXCEPT !.phase = "disks"]

----------------------------------------------------------------------------
(* Which vdev a device belongs to *)

(* __device_is_identifiable(): the pool and the vdev, or nothing.          *)
Identity(s, dev) ==
    LET inPool == {v \in s.vmap : v[1] = dev.pool}
        named == {v \in s.vmap : v[2] = dev.vdev}
        fit == CASE dev.pool # NoName /\ dev.vdev # NoName ->
                        {<<dev.pool, dev.vdev>>} \cap s.vmap
                 [] dev.pool # NoName /\ dev.vdev = NoName -> inPool
                 [] dev.pool = NoName /\ dev.vdev # NoName -> named
                 [] OTHER -> {}
    IN  IF Cardinality(fit) = 1 THEN CHOOSE v \in fit : TRUE ELSE NoName
Identifiable(s, dev) == Identity(s, dev) # NoName

(* __check_in_root_pool()                                                  *)
InRootPool(s, dev) ==
    dev.pool = s.root \/ (dev.pool = NoName /\ <<s.root, dev.vdev>> \in s.vmap)

(* __get_vdev_devices(): the disks of the map come once for each of their  *)
(* names.  A device that names a vdev it cannot be identified with, or one *)
(* with children that does, is an error.                                   *)
Devices(d) ==
    CASE d.slices # <<>> -> d.slices
      [] d.slices = <<>> /\ d.part # NoName ->
            <<[d EXCEPT !.pool = d.ppool, !.vdev = d.pvdev, !.size = d.psize,
                        !.action = d.paction]>>
      [] OTHER -> <<d>>
Ways(s, d) == Cardinality(d.aliases \cap s.dmap)
Listed(s) == {i \in DOMAIN s.disks : s.disks[i].ctd \in s.dmap}
DeviceErrors(s) ==
    \E i \in Listed(s) : LET d == s.disks[i] IN
        \/ d.slices # <<>> /\ (d.pool # NoName \/ d.vdev # NoName)
        \/ d.part # NoName /\ d.slices # <<>> /\ (d.ppool # NoName \/ d.pvdev # NoName)
        \/ \E k \in SetOf(Devices(d)) :
              /\ k.pool # NoName \/ k.vdev # NoName
              /\ ~Identifiable(s, k)
              /\ ~(d.slices # <<>> /\ (k.action = "delete" \/ k.swap))
VdevDevices(s, pool, vdev) ==
    {<<i, j, w>> \in UNION {{i} \X (DOMAIN Devices(s.disks[i]))
                                \X (1 .. Ways(s, s.disks[i])) : i \in Listed(s)} :
        Identity(s, Devices(s.disks[i])[j]) = <<pool, vdev>>}
DeviceAt(s, v) == Devices(s.disks[v[1]])[v[2]]

----------------------------------------------------------------------------
(* Disks *)

(* The slice of the default layout, which is all of the disk.              *)
RootSlice(s, size, vdev) ==
    [name |-> "0", action |-> "create", pool |-> s.root, vdev |-> vdev,
     size |-> size, swap |-> FALSE]
RootVdev(s) == IF s.generated THEN DefaultVdev ELSE NoName

(* apply_default_layout() of the controller, on a wiped disk.              *)
DefaultLayout(s, d, vdev) ==
    [d EXCEPT !.whole = FALSE, !.pool = NoName, !.vdev = NoName, !.origin = "wiped",
              !.part = IF s.x86 THEN "1" ELSE NoName, !.paction = "create",
              !.ppool = NoName, !.pvdev = NoName, !.psize = d.size,
              !.slices = <<RootSlice(s, d.size, vdev)>>]

(* __check_valid_zpool_vdev()                                              *)
ValidReference(s, dev) ==
    /\ dev.pool # NoName => dev.pool \in s.zmap
    /\ dev.vdev # NoName =>
        Cardinality({v \in s.vmap : /\ v[2] = dev.vdev
                                    /\ dev.pool \in {NoName, v[1]}}) = 1

(* __handle_disk() for a whole disk.                                       *)
WholeDisk(s, m, disc) ==
    LET ref == IF m.pool = NoName /\ m.vdev = NoName
               THEN [pool |-> s.root, vdev |-> RootVdev(s)]
               ELSE [pool |-> m.pool, vdev |-> m.vdev]
    IN  IF InRootPool(s, ref)
        THEN DefaultLayout(s, disc, IF s.generated THEN DefaultVdev ELSE ref.vdev)
        ELSE [disc EXCEPT !.whole = TRUE, !.pool = ref.pool, !.vdev = ref.vdev,
                          !.slices = <<>>, !.part = NoName, !.origin = "wiped"]

(* __handle_slice(): a slice to preserve or delete is the existing one.    *)
SliceInvalid(m, old) == m.action = "preserve" /\ m.name \notin NamesOf(old)
NewSlice(m, old) ==
    LET existing == CHOOSE k \in SetOf(old) : k.name = m.name IN
    CASE m.action = "create" -> m
      [] m.action = "preserve" -> [existing EXCEPT !.action = "preserve"]
      [] m.action = "delete" -> [existing EXCEPT !.action = "delete",
                                                 !.pool = NoName, !.vdev = NoName]

(* __handle_slices(): existing slices the manifest does not name stay,     *)
(* out of every pool; the preserved ones come first.  The generated root   *)
(* pool goes to the first new slice that is large enough.                  *)
HandleSlices(s, slices, old, keep) ==
    LET stay == IF keep THEN SelectSeq(old, LAMBDA k : k.name \notin NamesOf(slices))
                ELSE <<>>
        left == [i \in DOMAIN stay |-> [stay[i] EXCEPT !.pool = NoName, !.vdev = NoName]]
        real == SelectSeq(slices, LAMBDA k : ~(k.action = "delete"
                                               /\ k.name \notin NamesOf(old)))
        ordered == SelectSeq(real, LAMBDA k : k.action = "preserve")
                   \o SelectSeq(real, LAMBDA k : k.action # "preserve")
        new == left \o [i \in DOMAIN ordered |-> NewSlice(ordered[i], old)]
        fresh == {i \in DOMAIN new : i > Len(left) /\ new[i].action # "preserve"}
        large == {i \in fresh : /\ new[i].pool = NoName /\ new[i].vdev = NoName
                                /\ ~new[i].swap /\ new[i].action = "create"
                                /\ new[i].size >= MinTarget}
        needed == s.generated /\ \A i \in fresh : new[i].pool = NoName /\ new[i].vdev = NoName
        first == CHOOSE i \in large : \A j \in large : i <= j
    IN  IF (\E m \in SetOf(slices) : SliceInvalid(m, old)) \/ (needed /\ large = {})
        THEN <<FALSE, <<>>>>
        ELSE <<TRUE, IF needed THEN [new EXCEPT ![first].pool = s.root,
                                                ![first].vdev = DefaultVdev]
                     ELSE new>>

(* __handle_disk() for a disk with slices (SPARC) ...                      *)
SlicedDisk(s, m, disc) ==
    LET r == HandleSlices(s, m.slices, disc.slices, ~m.whole)
    IN  IF ~r[1] THEN <<FALSE, disc>>
        ELSE <<TRUE, [disc EXCEPT !.whole = FALSE, !.slices = r[2],
                                  !.origin = IF m.whole THEN "wiped" ELSE "edited"]>>

(* ... or with a partition (x86), __handle_partition().  A partition that  *)
(* is preserved comes without its slices; an existing one of another name  *)
(* is preserved, and may not be a second one of Solaris.                   *)
PartitionedDisk(s, m, disc) ==
    LET there == disc.part = m.part
        ref == [pool |-> m.ppool, vdev |-> m.pvdev]
        bare == [disc EXCEPT !.whole = FALSE, !.slices = <<>>, !.part = m.part,
                             !.paction = m.paction, !.ppool = NoName, !.pvdev = NoName,
                             !.psize = m.psize, !.origin = IF m.whole THEN "wiped" ELSE "edited"]
        old == IF there THEN disc.slices ELSE <<>>
        r == HandleSlices(s, m.slices, old,
                          ~m.whole /\ m.paction = "use_existing_solaris2")
        unnamed == m.ppool = NoName /\ m.pvdev = NoName
    IN  CASE m.paction # "create" /\ ~there ->
                IF m.paction = "delete" THEN <<TRUE, [bare EXCEPT !.part = NoName]>>
                ELSE <<FALSE, disc>>
          [] m.paction \in {"preserve", "delete"} /\ there -> <<TRUE, bare>>
          [] disc.part \notin {NoName, m.part} /\ ~m.whole -> <<FALSE, disc>>
          [] m.slices # <<>> /\ (there \/ m.paction = "create") ->
                <<r[1], [bare EXCEPT !.slices = r[2]]>>
          [] m.slices = <<>> /\ (InRootPool(s, ref) \/ unnamed) ->
                <<TRUE, [bare EXCEPT !.slices = <<RootSlice(s, m.psize,
                            IF unnamed THEN RootVdev(s) ELSE m.pvdev)>>]>>
          [] OTHER -> <<TRUE, [bare EXCEPT !.ppool = m.ppool, !.pvdev = m.pvdev]>>

HandleDisk(s, m) ==
    LET disc == Disc(s, CHOOSE c \in FindDisk(m.ctd) : TRUE)
        new == IF m.whole /\ m.part = NoName /\ m.slices = <<>>
               THEN <<TRUE, WholeDisk(s, m, disc)>>
               ELSE IF s.x86 THEN PartitionedDisk(s, m, disc) ELSE SlicedDisk(s, m, disc)
    IN  IF \/ FindDisk(m.ctd) = {}
           \/ s.generated /\ (m.pool = s.root \/ m.vdev = DefaultVdev)
        THEN Refused(s)
        ELSE IF \/ disc.ctd \in s.dmap \/ ~ValidReference(s, m)
                \/ ~m.whole /\ m.part = NoName /\ m.slices = <<>>
                \/ s.x86 /\ m.slices # <<>> /\ m.part = NoName
                \/ ~s.x86 /\ m.part # NoName
                \/ ~new[1]
        THEN Refused(s)
        ELSE [MapDisk(s, disc) EXCEPT !.disks = Append(@, new[2])]

----------------------------------------------------------------------------
(* Where the root pool comes from *)

GeneratedPool(red) ==
    [name |-> RootName, action |-> "create", root |-> TRUE,
     vdevs |-> <<[name |-> DefaultVdev, red |-> red]>>, data |-> <<>>,
     bes |-> 1, beExists |-> FALSE, options |-> 0]

BigEnough(c) == DiscDisks[c].size >= MinTarget
InitialDisks ==
    LET boot == {c \in DOMAIN DiscDisks : DiscDisks[c].boot /\ BigEnough(c)}
    IN  IF boot # {} THEN boot ELSE {c \in DOMAIN DiscDisks : BigEnough(c)}

(* The manifest names disks only, all of them whole: the controller        *)
(* selects them.  One that was not discovered is left out.                 *)
WholeDisksOnly(s) ==
    /\ s.manPools = <<>> /\ s.manDisks # <<>>
    /\ \A d \in SetOf(s.manDisks) :
          /\ d.whole /\ d.pool = NoName /\ d.vdev = NoName
          /\ d.part = NoName /\ d.slices = <<>>
ControllerSelects(s, ctds) ==
    LET pool == GeneratedPool(IF Len(ctds) = 1 THEN "none" ELSE "mirror")
        logical == [HandleZpool(s, pool) EXCEPT !.generated = TRUE]
        disks == [i \in DOMAIN ctds |->
                    DefaultLayout(logical, Disc(s, ctds[i]), DefaultVdev)]
        mapped == FoldLeft(MapDisk, logical, disks)
    IN  IF \/ ctds = <<>> \/ \E c \in SetOf(ctds) : ~BigEnough(c)
           \/ IsRefused(mapped)
        THEN Refused(s)
        ELSE [mapped EXCEPT !.disks = disks, !.phase = "check"]

(* __create_temp_logical_tree(): the root pool is added to the logical     *)
(* part of the manifest, which then takes the place of the merged one.     *)
TempRootPool(s) ==
    [s EXCEPT !.pools = Append(s.manPools, GeneratedPool("mirror")),
              !.zmap = @ \cup {RootName},
              !.vmap = @ \cup {<<RootName, DefaultVdev>>},
              !.be = TRUE, !.root = RootName, !.generated = TRUE]

(* Without any disk in the manifest one is selected for a new root pool.   *)
RootPool(s) == CHOOSE zp \in SetOf(s.pools) : zp.name = s.root
PlaceOn(s, c) ==
    LET in == {v \in s.vmap : v[1] = s.root}
        vdev == IF Cardinality(in) = 1 THEN (CHOOSE v \in in : TRUE)[2] ELSE NoName
    IN  [s EXCEPT !.disks = Append(@, DefaultLayout(s, Disc(s, c), vdev)),
                  !.dmap = @ \cup {c}]
NeedsInitialDisk(s) ==
    s.manDisks = <<>> /\ s.root # NoName /\ RootPool(s).action \notin Preserved

(* A root pool that was generated must have got a device.                  *)
DisksDone(s) ==
    IF s.generated /\ (DeviceErrors(s) \/ VdevDevices(s, s.root, DefaultVdev) = {})
    THEN Refused(s)
    ELSE [s EXCEPT !.phase = "check", !.generated = FALSE]

----------------------------------------------------------------------------
(* Validation *)

(* The devices a discovered pool holds and whoever is not named in the     *)
(* desired logical part keeps: __compile_remaining_existing_devices_map(). *)
Remaining(s) == DOMAIN DiscPools \ {zp.name : zp \in SetOf(s.pools)}
HeldBy(c, slice, pools) ==
    \E k \in SetOf(DiscDisks[c].slices) : k.name = slice /\ k.pool \in pools
InUseWholeDisk(s, v) == DiscDisks[s.disks[v[1]].ctd].pool \in Remaining(s)
InUse(s, v) ==
    LET d == s.disks[v[1]]
        dev == DeviceAt(s, v)
    IN  IF d.slices # <<>> THEN HeldBy(d.ctd, dev.name, Remaining(s))
        ELSE d.part = NoName /\ (\/ DiscDisks[d.ctd].pool \in Remaining(s)
                                 \/ HeldBy(d.ctd, "0", Remaining(s)))

(* __get_zpool_available_size(): the first toplevel vdev decides; it must  *)
(* have devices.  Zero stands for the error.                               *)
SizeOf(s, D) == FoldSet(LAMBDA v, n : n + DeviceAt(s, v).size, 0, D)
Smallest(s, D) == CHOOSE n \in {DeviceAt(s, v).size : v \in D} :
                      \A v \in D : n <= DeviceAt(s, v).size
AvailableInAll(s, zp) ==
    LET D == UNION {VdevDevices(s, zp.name, v) : v \in NamesOf(zp.vdevs)}
    IN  IF zp.action \in Preserved THEN DiscPools[zp.name].size ELSE SizeOf(s, D)
Available(s, zp) ==
    LET top == SelectSeq(zp.vdevs, LAMBDA v : v.red \in TopLevel)
        D == VdevDevices(s, zp.name, top[1].name)
    IN  IF zp.action \in Preserved
        THEN IF Exists(zp.name) THEN DiscPools[zp.name].size ELSE 0
        ELSE IF top = <<>> THEN 0 ELSE IF D = {} THEN 0
        ELSE IF top[1].red = "none" THEN SizeOf(s, D) ELSE Smallest(s, D)

(* What four fifths of the pool have room for after the installation is    *)
(* shared at 1024 to 256, on a machine with the memory that swap is an     *)
(* offer and not a requirement.                                            *)
CalcSwapDumpSize(available) ==
    LET free == (4 * available) \div 5 - MinTarget
        swap == IF free > 0 THEN (free * 1024) \div (1024 + 256) ELSE 0
    IN  [swap |-> swap, dump |-> IF free > 0 THEN free - swap ELSE 0]

(* __validate_swap_and_dump()                                              *)
WithSwapAndDump(s) ==
    LET size == CalcSwapDumpSize(Available(s, RootPool(s)))
        zvol(use) == <<[kind |-> "zvol", name |-> use, action |-> "create", use |-> use]>>
        swap == IF ~s.noswap /\ s.swaps = {} /\ size.swap > 0 THEN zvol("swap") ELSE <<>>
        dump == IF ~s.nodump /\ ~s.dump /\ size.dump > 0 THEN zvol("dump") ELSE <<>>
    IN  [s EXCEPT !.pools = [i \in DOMAIN @ |->
                    IF @[i].name = s.root THEN [@[i] EXCEPT !.data = @ \o swap \o dump]
                    ELSE @[i]]]

(* __validate_zpool_actions()                                              *)
ActionInvalid(zp) ==
    \/ zp.action \in Preserved /\ ~Exists(zp.name)
    \/ zp.action = "preserve" /\ (zp.root \/ DiscPools[zp.name].root)
    \/ zp.action = "use_existing" /\ ~(/\ zp.root /\ DiscPools[zp.name].root
                                       /\ DiscPools[zp.name].size >= MinTarget)

(* __validate_vdev(): a mirror of one device is changed to none where the  *)
(* pool is the root pool or the vdev was added for it, and several devices *)
(* of a root pool become a mirror.                                         *)
LeastDevices(red) ==
    CASE red \in {"mirror", "logmirror", "raidz", "raidz1"} -> 2
      [] red = "raidz2" -> 3
      [] red = "raidz3" -> 4
      [] OTHER -> 1
Adjusted(s, zp, v) ==
    LET n == Cardinality(VdevDevices(s, zp.name, v.name))
        added == <<zp.name, v.name>> \in s.vadded
    IN  CASE zp.action \in Preserved -> v
          [] n = 1 /\ v.red = "mirror" /\ (zp.root \/ added) -> [v EXCEPT !.red = "none"]
          [] n > 1 /\ zp.root /\ v.red = "none" -> [v EXCEPT !.red = "mirror"]
          [] OTHER -> v
VdevEmpty(s, zp, v) ==
    LET D == VdevDevices(s, zp.name, v.name)
    IN  \/ zp.action \notin Preserved /\ D = {}
        \/ \E d \in D : InUse(s, d)
VdevInvalid(s, zp, v) ==
    LET D == VdevDevices(s, zp.name, v.name)
        new == Adjusted(s, zp, v)
    IN  \/ \E d \in D : InUse(s, d) \/ (v.red \in TopLevel /\ DeviceAt(s, d).size < 1)
        \/ zp.action \notin Preserved /\ Cardinality(D) < LeastDevices(new.red)
        \/ zp.root /\ new.red \in Raidz \cup NotInRoot

(* __validate_logical().  Options are counted over all the pools.          *)
LogicalInvalid(s) ==
    \/ DeviceErrors(s) \/ s.root = NoName
    \/ Cardinality({i \in DOMAIN s.pools : s.pools[i].root}) # 1
    \/ Available(s, RootPool(s)) < MinTarget
    \/ FoldLeft(LAMBDA n, zp : n + zp.options, 0, s.pools) > 1
    \/ FoldLeft(LAMBDA n, zp : n + zp.bes, 0, s.pools) > 1
    \/ \E zp \in SetOf(s.pools) :
          \/ ActionInvalid(zp)
          \/ zp.bes > 0 /\ ~zp.root
          \/ \E v \in SetOf(zp.vdevs) : VdevInvalid(s, zp, v)
          \/ zp.action # "delete" /\ \A v \in SetOf(zp.vdevs) : v.red \notin TopLevel
Completed(s) ==
    [s EXCEPT !.pools = [i \in DOMAIN @ |->
        [@[i] EXCEPT !.vdevs = [j \in DOMAIN @ |-> Adjusted(s, s.pools[i], @[j])],
                     !.bes = IF s.pools[i].root THEN 1 ELSE @]]]

(* __validate_disks()                                                      *)
Kids(d) == d.part # NoName \/ d.slices # <<>>
Whole(d) == [pool |-> d.pool, vdev |-> d.vdev]
Part(d) == [pool |-> d.ppool, vdev |-> d.pvdev]
DiskInvalid(s, d) ==
    \/ d.whole /\ (InRootPool(s, d) \/ Kids(d) \/ ~Identifiable(s, d))
    \/ ~d.whole /\ (~Kids(d) \/ Identifiable(s, d))
    \/ ~Distinct(d.slices)
    \/ \E k \in SetOf(d.slices) : k.swap /\ Identifiable(s, k)
    \/ /\ d.part # NoName /\ d.paction \in {"create", "use_existing_solaris2"}
       /\ \/ Identifiable(s, Part(d)) /\ (d.slices # <<>> \/ InRootPool(s, Part(d)))
          \/ ~Identifiable(s, Part(d)) /\ d.slices = <<>>
RootSliceOn(s, d) ==
    /\ ~d.whole
    /\ d.part # NoName => d.paction \in {"create", "use_existing_solaris2"}
    /\ \E k \in SetOf(d.slices) :
          k.action = "create" /\ Identifiable(s, k) /\ InRootPool(s, k)
DisksInvalid(s) ==
    \/ \E i, j \in DOMAIN s.disks : i # j /\ s.disks[i].ctd = s.disks[j].ctd
    \/ \E d \in SetOf(s.disks) : DiskInvalid(s, d)
    \/ ~\E d \in SetOf(s.disks) : RootSliceOn(s, d)

Validate(s) ==
    IF s.root = NoName THEN Refused(s)
    ELSE LET full == WithSwapAndDump(s) IN
         IF LogicalInvalid(full) \/ DisksInvalid(full) THEN Refused(s)
         ELSE [Completed(full) EXCEPT !.phase = "selected"]

----------------------------------------------------------------------------
SelInit ==
    \E x86, noswap, nodump \in BOOLEAN :
        sel = [phase |-> "writing", x86 |-> x86, noswap |-> noswap, nodump |-> nodump,
               manPools |-> <<>>, manDisks |-> <<>>, next |-> 1,
               pools |-> <<>>, zmap |-> {}, vmap |-> {}, vadded |-> {}, swaps |-> {},
               dump |-> FALSE, be |-> FALSE, root |-> NoName, generated |-> FALSE,
               disks |-> <<>>, dmap |-> {}, shadow |-> FALSE]

(* The manifest is parsed into pools and disks.                            *)
NamePool(zp) ==
    /\ sel.phase = "writing" /\ sel.manDisks = <<>> /\ Len(sel.manPools) < MaxPools
    /\ sel' = [sel EXCEPT !.manPools = Append(@, zp)]
NameDisk(d) ==
    /\ sel.phase = "writing" /\ Len(sel.manDisks) < MaxDisks
    /\ (d.part # NoName => sel.x86)
    /\ sel' = [sel EXCEPT !.manDisks = Append(@, d)]

(* select_targets(): with nothing in the manifest the controller selects.  *)
SelectDefault ==
    /\ sel.phase = "writing" /\ ~sel.noswap /\ ~sel.nodump
    /\ sel.manPools = <<>> /\ sel.manDisks = <<>>
    /\ IF InitialDisks = {} THEN sel' = Refused(sel)
       ELSE \E c \in InitialDisks : sel' = ControllerSelects(sel, <<c>>)
HandleTarget ==
    /\ sel.phase = "writing"
    /\ sel.noswap \/ sel.nodump \/ sel.manPools # <<>> \/ sel.manDisks # <<>>
    /\ sel' = [sel EXCEPT !.phase = "pools"]

(* __handle_logical(), a pool at a time.                                   *)
StepPool ==
    /\ sel.phase = "pools" /\ sel.next <= Len(sel.manPools)
    /\ sel' = [MergeZpool(sel, sel.manPools[sel.next]) EXCEPT !.next = @ + 1]
PoolsDone ==
    /\ sel.phase = "pools" /\ sel.next > Len(sel.manPools)
    /\ sel' = [FinishLogical(sel) EXCEPT !.next = 1]

(* The middle of __handle_target().                                        *)
SelectWholeDisks ==
    /\ sel.phase = "disks" /\ sel.next = 1 /\ WholeDisksOnly(sel)
    /\ LET found == SelectSeq(sel.manDisks, LAMBDA d : FindDisk(d.ctd) # {})
       IN  sel' = ControllerSelects(sel, [i \in DOMAIN found |->
                                            CHOOSE c \in FindDisk(found[i].ctd) : TRUE])
GenerateRoot ==
    /\ sel.phase = "disks" /\ sel.next = 1 /\ sel.root = NoName
    /\ ~WholeDisksOnly(sel)
    /\ sel' = TempRootPool(sel)
SelectInitialDisk ==
    /\ sel.phase = "disks" /\ sel.root # NoName /\ NeedsInitialDisk(sel)
    /\ IF InitialDisks = {} THEN sel' = Refused(sel)
       ELSE \E c \in InitialDisks : sel' = DisksDone(PlaceOn(sel, c))
StepDisk ==
    /\ sel.phase = "disks" /\ sel.root # NoName /\ sel.next <= Len(sel.manDisks)
    /\ sel' = [HandleDisk(sel, sel.manDisks[sel.next]) EXCEPT !.next = @ + 1]
(* The shadow lists find that the slices or partitions do not fit.         *)
RefuseDisk ==
    /\ sel.phase = "disks" /\ sel.root # NoName /\ sel.next <= Len(sel.manDisks)
    /\ sel' = Refused(sel)
LeaveDisks ==
    /\ sel.phase = "disks" /\ sel.root # NoName /\ sel.next > Len(sel.manDisks)
    /\ ~NeedsInitialDisk(sel)
    /\ sel' = DisksDone(sel)
Check == sel.phase = "check" /\ sel' = Validate(sel)

SelNext ==
    \/ \E zp \in PoolSpecs : NamePool(zp)
    \/ \E d \in DiskSpecs : NameDisk(d)
    \/ SelectDefault \/ HandleTarget \/ StepPool \/ PoolsDone
    \/ SelectWholeDisks \/ GenerateRoot \/ SelectInitialDisk
    \/ StepDisk \/ RefuseDisk \/ LeaveDisks \/ Check

SelSpec == SelInit /\ [][SelNext]_sel
----------------------------------------------------------------------------
Selected == sel.phase = "selected"
VdevsOf(zp) == SetOf(zp.vdevs)
RealDevices(zp, v) == {<<d[1], d[2]>> : d \in VdevDevices(sel, zp.name, v.name)}
RealSize(zp, v) == FoldSet(LAMBDA d, n : n + DeviceAt(sel, d).size, 0, RealDevices(zp, v))
CountedTwice(zp, v) == \E d \in RealDevices(zp, v) : ManyNamed(sel.disks[d[1]])

(* The pools, vdevs and disks that the maps record are ones that exist,    *)
(* and a vdev or a root pool is only recorded with its pool.               *)
SelTypeOK ==
    /\ sel.phase \in {"writing", "pools", "disks", "check", "selected", "refused"}
    /\ sel.zmap \subseteq DOMAIN DiscPools \cup {RootName} \cup {zp.name : zp \in PoolSpecs}
    /\ \A v \in sel.vmap : v[1] \in sel.zmap
    /\ sel.dmap \subseteq UNION {DiscDisks[c].aliases : c \in DOMAIN DiscDisks}
    /\ sel.root # NoName => sel.root \in sel.zmap

(* An accepted selection has one root pool with one boot environment, no   *)
(* raidz or log vdev, and room for the installation: every device of its   *)
(* first vdev is large enough, or they are together where the manifest     *)
(* asked for no redundancy, unless a disk with several names counts for    *)
(* more than it has (__validate_logical, __validate_vdev).                 *)
RootInstallable ==
    Selected =>
        \E zp \in SetOf(sel.pools) :
            /\ zp.root /\ zp.bes = 1 /\ \A o \in SetOf(sel.pools) \ {zp} : ~o.root
            /\ \A v \in VdevsOf(zp) : v.red \in {"none", "mirror"}
            /\ LET D == VdevDevices(sel, zp.name, zp.vdevs[1].name)
                   asked == {m \in SetOf(sel.manPools) : m.name = zp.name}
               IN  \/ zp.action \in Preserved
                   \/ Smallest(sel, D) >= MinTarget
                   \/ /\ \/ RealSize(zp, zp.vdevs[1]) >= MinTarget
                         \/ CountedTwice(zp, zp.vdevs[1])
                      /\ \E m \in asked : m.vdevs # <<>> /\ m.vdevs[1].red = "none"

(* The vdevs of an accepted selection have as many different devices as    *)
(* their redundancy needs, unless one of them is on a disk with several    *)
(* names: such a disk is listed once for each name it has in the map, and  *)
(* a mirror of this one disk is accepted (__validate_vdev counts what      *)
(* __get_vdev_devices returns; __add_disks_to_map, 876-882).               *)
EnoughDevices ==
    Selected =>
        \A zp \in {p \in SetOf(sel.pools) : p.action \notin Preserved} :
            \A v \in VdevsOf(zp) :
                \/ Cardinality(RealDevices(zp, v)) >= LeastDevices(v.red)
                \/ CountedTwice(zp, v)

(* The disks of a pool that is preserved are in the selection as they were *)
(* discovered, whatever the manifest says about disks: nothing on them is  *)
(* created, and the slices of the pool still refer to it.                  *)
KeptPoolsIntact ==
    Selected =>
        \A zp \in {p \in SetOf(sel.pools) : p.action \in Preserved} :
            \A c \in {d \in DOMAIN DiscDisks : InPool(d, zp.name)} :
                \E d \in SetOf(sel.disks) :
                    /\ d.ctd = c /\ d.origin = "kept"
                    /\ NamesOf(d.slices) = NamesOf(DiscDisks[c].slices)
                    /\ \A k \in SetOf(DiscDisks[c].slices) :
                          k.pool = zp.name => k \in SetOf(d.slices)

(* No device of a new pool is one that an unnamed pool on the system is    *)
(* made of, and a slice of such a pool stays on every disk that is edited  *)
(* unless the manifest names that slice (__validate_vdev_devices,          *)
(* __handle_slices).                                                       *)
OthersSpared ==
    Selected =>
        \A d \in SetOf(sel.disks) : \A k \in SetOf(DiscDisks[d.ctd].slices) :
            k.pool \in Remaining(sel) =>
                /\ \A n \in SetOf(d.slices) :
                      n.name = k.name => ~Identifiable(sel, n)
                /\ (/\ d.origin = "edited"
                    /\ d.part # NoName => d.paction = "use_existing_solaris2"
                    /\ \A m \in SetOf(sel.manDisks) :
                          d.ctd \in FindDisk(m.ctd) => k.name \notin NamesOf(m.slices))
                   => \E n \in SetOf(d.slices) : n.name = k.name /\ n.action = k.action

(* A selection that target selection accepts can be installed and touches  *)
(* nothing it was not told to.                                             *)
SelectionSound ==
    SelTypeOK /\ RootInstallable /\ EnoughDevices /\ KeptPoolsIntact /\ OthersSpared
=============================================================================
