----------------------------- MODULE JumpStart -----------------------------
(***************************************************************************)
(* js2ai: the profile of a JumpStart installation becomes a manifest.      *)
(*                                                                         *)
(* Keywords are read in three passes (XMLProfileData.__process_profile):   *)
(* first what says where the root disk is, then the pool keyword, which    *)
(* goes before the others, then the remaining lines in their order.  Each  *)
(* adds to one tree what later ones may contradict, and a line that is     *)
(* refused is reported and leaves the tree as it was at that moment.       *)
(***************************************************************************)
EXTENDS Naturals, Sequences, SequencesExt, FiniteSets

CONSTANT Profiles    \* the profiles: sequences of lines, a line has a key and values

VARIABLES
    profile,   \* prof_dict, in the order of its lines
    pass,      \* where __process_profile is
    at,        \* the line it reads
    rest,      \* lines the first pass leaves to the last
    poolLine,  \* pool_obj: the first pool line, or the empty sequence
    conv       \* the object: its settings, the target of its tree, its report
jumpVars == <<profile, pass, at, rest, poolLine, conv>>

(* A device is a disk, or a slice of one.  The name of a disk is also      *)
(* "any" or, before it is resolved, "rootdisk".                            *)
Whole == "whole"
Dev(disk, slice) == [disk |-> disk, slice |-> slice]
AnyDevice == Dev("any", Whole)
NoDevice == Dev("", Whole)
DiskOf(d) == Dev(d.disk, Whole)
AsSlice(d) == IF d.slice = Whole /\ d \notin {NoDevice, AnyDevice} THEN Dev(d.disk, "0") ELSE d
NotDisks == {"any", "all", "rootdisk", "existing", "bogus"}
ValidDisk(d) == d.disk \notin NotDisks /\ d.slice = Whole
ValidSlice(d) == d.disk \notin NotDisks /\ d.slice # Whole

Numeric == {"10", "20"}
Unsized == {"auto", "all", "none"}
RootName == "rpool"

NewConversion ==
    [arch |-> "generic", partitioning |-> "none", usedisk |-> <<>>, boot |-> NoDevice,
     root |-> NoDevice, rootdisk |-> NoDevice, by |-> "", size |-> "all",
     poolName |-> RootName, poolBy |-> "", attached |-> FALSE, logical |-> {},
     disks |-> [d \in {} |-> d], pools |-> <<>>, local |-> FALSE,
     install |-> <<>>, uninstall |-> <<>>, locales |-> <<>>, errors |-> {},
     tree |-> TRUE, raised |-> FALSE]

Error(c, kind) == [c EXCEPT !.errors = @ \cup {kind}]
Rejected(c) == [c EXCEPT !.tree = FALSE]
(* The checks a handler makes, in their order: the first that fails is     *)
(* reported, and what follows them is done when none does.                 *)
Checked(c, checks, result) ==
    IF \A i \in DOMAIN checks : ~checks[i][1] THEN result
    ELSE Error(c, checks[CHOOSE i \in DOMAIN checks :
                           /\ checks[i][1]
                           /\ \A j \in 1 .. i - 1 : ~checks[j][1]][2])

RootPoolExists(c) == \E i \in DOMAIN c.pools : c.pools[i].root

-----------------------------------------------------------------------------
(* The architecture: generic until a line makes it x86 or SPARC, or both   *)
(* (None in the code) when a disk is used before either.                   *)

ArchConflict(c, arch) == c.arch \notin {"generic", arch}
ChangeArch(c, arch) == IF c.arch = "generic" THEN [c EXCEPT !.arch = arch] ELSE c

-----------------------------------------------------------------------------
(* The target: disks with their slices, pools with their vdevs.            *)

CreateZfsPool(c, name, root) ==
    [c EXCEPT !.pools = Append(@, [name |-> name, root |-> root, vdevs |-> [v \in {} |-> v],
                                   zvols |-> {}]),
              !.logical = IF @ = {} THEN {"logical", "swap"} ELSE @]
CreateRootPool(c, keyword, name, logical) ==
    IF RootPoolExists(c) THEN c
    ELSE [CreateZfsPool([c EXCEPT !.logical = IF @ = {} THEN logical ELSE @], name, TRUE)
             EXCEPT !.poolBy = keyword]
CreateVdev(c, i, redundancy, name) ==
    [c EXCEPT !.pools[i].vdevs = (name :> redundancy) @@ @]
CreateZvol(c, i, use, size) ==
    IF size \notin Numeric THEN c
    ELSE [c EXCEPT !.pools[i].zvols = @ \cup {[use |-> use, size |-> size]},
                   !.logical = @ \cup {use}]
RootPoolIndex(c) == CHOOSE i \in DOMAIN c.pools : c.pools[i].root

NewDisk(whole, arch) ==
    [whole |-> whole, partition |-> arch # "sparc", size |-> "none", slices |-> <<>>]

(* On SPARC the slices are looked for below the name of the disk, where    *)
(* there are none.  A device that is not a slice has no number to compare. *)
SlicesBelowName(c, disk) == <<>>
SlicesSeen(c, disk) == IF c.arch = "sparc" THEN <<>> ELSE c.disks[disk].slices
SliceExists(c, device) ==
    \E i \in DOMAIN SlicesSeen(c, device.disk) :
        SlicesSeen(c, device.disk)[i].name = device.slice
SizesConflict(c, device, size) ==
    /\ SlicesSeen(c, device.disk) # <<>>
    /\ (Head(SlicesSeen(c, device.disk)).size = "none") # (size \in Unsized)
MayAddSlice(c, device, size) ==
    \/ device.disk \notin DOMAIN c.disks
    \/ ~SliceExists(c, device) /\ ~SizesConflict(c, device, size)

AddSlice(c, device, size, pool, vdev, swap) ==
    [c EXCEPT !.disks[device.disk].slices =
        Append(@, [name |-> AsSlice(device).slice, pool |-> pool, vdev |-> vdev, swap |-> swap,
                   size |-> IF size \in Unsized THEN "none" ELSE size])]
AddDevice(c, device, size, pool, vdev, swap) ==
    LET named == Contains(c.usedisk, device.disk)
        whole == \/ size = "all" \/ device.slice = Whole
                 \/ named /\ c.partitioning = "default"
        used == [c EXCEPT !.usedisk = RemoveFirst(@, device.disk)]
        both == ChangeArch(used, "both")
        created == [both EXCEPT !.disks = (device.disk :> NewDisk(whole, both.arch)) @@ @]
    IN  IF c.raised \/ device = AnyDevice THEN c
        ELSE IF device.disk \notin DOMAIN c.disks
             THEN AddSlice(created, device, size, pool, vdev, swap)
        ELSE IF device.slice = Whole THEN [used EXCEPT !.raised = TRUE]
        ELSE IF ~MayAddSlice(used, device, size) THEN Error(used, "conversion")
        ELSE AddSlice(used, device, size, pool, vdev, swap)
AddDevices(c, devices, size, pool, vdev) ==
    FoldLeft(LAMBDA acc, d : AddDevice(acc, d, size, pool, vdev, FALSE), c, devices)

-----------------------------------------------------------------------------
(* Devices of a line: "any" is the root disk or the next disk of usedisk,  *)
(* "rootdisk" stands for the root disk.  NoDevice when it was refused.     *)

DeviceConversion(c, device, allowAny, useRootdisk) ==
    LET disk == IF c.usedisk = <<>> THEN AnyDevice ELSE Dev(Head(c.usedisk), Whole)
        popped == IF c.usedisk = <<>> THEN c ELSE [c EXCEPT !.usedisk = Tail(@)]
        rooted == IF c.rootdisk = AnyDevice THEN [popped EXCEPT !.rootdisk = disk] ELSE c
        taken == IF useRootdisk
                 THEN IF rooted.rootdisk = NoDevice THEN AnyDevice ELSE AsSlice(rooted.rootdisk)
                 ELSE AsSlice(disk)
        after == IF useRootdisk THEN rooted ELSE popped
        resolved == IF device.disk = "rootdisk" THEN Dev(c.rootdisk.disk, device.slice)
                    ELSE device
    IN  IF device = AnyDevice
        THEN IF taken = AnyDevice /\ ~allowAny
             THEN [c |-> Error(after, "conversion"), device |-> NoDevice]
             ELSE [c |-> after, device |-> taken]
        ELSE IF (device.disk = "rootdisk" /\ c.rootdisk = NoDevice) \/ ~ValidSlice(resolved)
             THEN [c |-> Error(c, "conversion"), device |-> NoDevice]
             ELSE [c |-> c, device |-> resolved]
DevicesConversion(c, devices, allowAny, useRootdisk) ==
    FoldLeft(LAMBDA acc, d :
                IF ~acc.ok THEN acc
                ELSE LET next == DeviceConversion(acc.c, d, allowAny, useRootdisk)
                     IN  [c |-> next.c, devices |-> Append(acc.devices, next.device),
                          ok |-> next.device # NoDevice],
             [c |-> c, devices |-> <<>>, ok |-> TRUE], devices)

(* A root device is compared as it is, a boot device as a disk.            *)
RootdiskConflictOfDisks(c, device) ==
    c.rootdisk # NoDevice /\ DiskOf(device) # DiskOf(c.rootdisk)
RootdiskConflict(c, device) ==
    /\ c.rootdisk # NoDevice
    /\ IF c.root # NoDevice THEN device # c.rootdisk
       ELSE c.by # "fdisk" /\ DiskOf(device) # c.rootdisk
RootdiskConflictReported(c, devices) ==
    IF \E i \in DOMAIN devices : RootdiskConflict(c, devices[i]) THEN Error(c, "conversion") ELSE c
Repeated(devices) == \E i, j \in DOMAIN devices : i # j /\ devices[i] = devices[j]

-----------------------------------------------------------------------------
(* The first pass.                                                         *)

StoreRootDevice(c, v) ==
    LET differs == c.boot # NoDevice /\ v.device # DiskOf(c.boot)
        stored == [c EXCEPT !.root = v.device, !.rootdisk = v.device, !.by = "root_device"]
    IN  Checked(c, <<<<c.root # NoDevice, "process">>, <<v.bad, "process">>,
                     <<~ValidSlice(v.device), "conversion">>>>,
                IF differs THEN Error(stored, "conversion") ELSE stored)

StoreBootDevice(c, v) ==
    LET arch == IF ValidSlice(v.device) THEN "sparc" ELSE "x86"
        placed == IF v.device = AnyDevice THEN c ELSE ChangeArch(c, arch)
        warned == IF v.eeprom = "update" THEN Error(placed, "unsupported") ELSE placed
        ignored == c.root # NoDevice /\ DiskOf(c.root) # v.device
        chosen == [warned EXCEPT !.rootdisk = IF c.root = NoDevice THEN v.device ELSE @,
                                 !.by = "boot_device", !.boot = v.device]
    IN  Checked(c, <<<<c.boot # NoDevice, "process">>, <<v.bad, "process">>,
                     <<v.device.disk = "existing", "unsupported">>,
                     <<v.device # AnyDevice /\ ~ValidDisk(v.device) /\ ~ValidSlice(v.device),
                       "conversion">>,
                     <<v.device # AnyDevice /\ ArchConflict(c, arch), "conversion">>>>,
                IF v.eeprom \notin {"none", "preserve", "update"} THEN Error(placed, "process")
                ELSE IF ignored THEN Error(warned, "conversion")
                ELSE chosen)

StorePartitioning(c, v) ==
    Checked(c, <<<<c.partitioning # "none", "process">>, <<v.bad, "process">>>>,
            IF v.type \in {"default", "explicit"} THEN [c EXCEPT !.partitioning = v.type]
            ELSE Rejected([Error(c, "unsupported") EXCEPT !.errors = @ \ {"conversion"}]))

StoreUsedisk(c, v) ==
    Checked(c, <<<<v.bad, "process">>>>,
            IF Contains(v.disks, "bogus")
            THEN Error([c EXCEPT !.usedisk = @ \o SubSeq(v.disks, 1, SelectInSeq(v.disks,
                                                    LAMBDA d : d = "bogus") - 1)], "conversion")
            ELSE [c EXCEPT !.usedisk = @ \o v.disks])

ValidInstallType(v) == v.key = "install_type" /\ v.type = "initial_install"
WrongInstallType(c, v) ==
    Rejected(Error(c, IF v.key = "install_type" /\ v.type = "upgrade" THEN "unsupported"
                      ELSE "process"))

Stored(c, v) ==
    CASE v.key = "root_device" -> StoreRootDevice(c, v)
      [] v.key = "boot_device" -> StoreBootDevice(c, v)
      [] v.key = "partitioning" -> StorePartitioning(c, v)
      [] v.key = "usedisk" -> StoreUsedisk(c, v)
      [] v.key = "pool" -> IF poolLine = <<>> THEN c ELSE Error(c, "process")
      [] v.key = "fdisk" -> IF ArchConflict(c, "x86") THEN Error(c, "conversion")
                            ELSE ChangeArch(c, "x86")
      [] OTHER -> c
FirstPassKeys == {"install_type", "root_device", "boot_device", "partitioning", "usedisk", "pool"}

ScanLine ==
    /\ pass = "scan" /\ at <= Len(profile)
    /\ LET v == profile[at]
           wrong == at = 1 /\ ~ValidInstallType(v)
           stops == v.key = "fdisk" /\ ArchConflict(conv, "x86")
       IN  /\ conv' = IF wrong THEN WrongInstallType(conv, v) ELSE Stored(conv, v)
           /\ pass' = IF ~conv'.tree THEN "rejected" ELSE IF stops THEN "done" ELSE "scan"
           /\ rest' = IF v.key \in FirstPassKeys THEN rest ELSE Append(rest, v)
           /\ poolLine' = IF v.key = "pool" /\ poolLine = <<>> THEN <<v>> ELSE poolLine
    /\ at' = at + 1
    /\ UNCHANGED profile

-----------------------------------------------------------------------------
(* The second pass: the pool keyword.  Its name becomes the name of the    *)
(* root pool before the rest of the line has been looked at.               *)

BadSize(size, others) == size \notin Numeric \cup others
ValidMirror(devices) == ~Repeated(devices)
CreatePool(c, v, devices) ==
    LET logical == {"logical"} \cup (IF v.swap = "0" THEN {} ELSE {"swap"})
                               \cup (IF v.dump = "0" THEN {} ELSE {"dump"})
        pool == CreateRootPool(c, "pool", c.poolName, logical)
        vdev == CreateVdev(pool, RootPoolIndex(pool),
                           IF v.mirror THEN "mirror" ELSE "none", RootName)
        filled == AddDevices(vdev, devices, v.size, c.poolName, RootName)
        zvols == CreateZvol(CreateZvol(filled, RootPoolIndex(filled), "swap", v.swap),
                            RootPoolIndex(filled), "dump", v.dump)
    IN  IF v.mirror \/ c.rootdisk # NoDevice THEN zvols
        ELSE [zvols EXCEPT !.root = devices[1], !.rootdisk = devices[1], !.by = "pool"]
ConvertPool(c, v) ==
    LET named == [c EXCEPT !.poolName = v.name]
        converted == DevicesConversion(named, v.devices, ~v.mirror /\ v.size = "auto", ~v.mirror)
        reported == RootdiskConflictReported(converted.c, converted.devices)
    IN  IF v.bad \/ v.name = "too long"
        THEN Error(c, IF v.bad THEN "process" ELSE "conversion")
        ELSE Checked(named, <<<<v.size = "existing", "unsupported">>,
                              <<BadSize(v.size, {"auto"}), "conversion">>,
                              <<BadSize(v.swap, {"auto", "0"}), "conversion">>,
                              <<BadSize(v.dump, {"auto", "0"}), "conversion">>,
                              <<IF v.mirror THEN Len(v.devices) < 1 ELSE Len(v.devices) # 1,
                                "process">>>>,
             IF ~converted.ok THEN converted.c
             ELSE IF v.mirror /\ ~ValidMirror(converted.devices)
                  THEN Error(converted.c, "conversion")
             ELSE CreatePool(reported, v, converted.devices))

-----------------------------------------------------------------------------
(* The third pass: the other lines.                                        *)

FdiskEntry(c, disk, size) ==
    LET sets == /\ ~RootPoolExists(c) /\ c.partitioning = "default"
                /\ c.rootdisk = NoDevice
        rooted == IF ~sets THEN c
                  ELSE [c EXCEPT !.rootdisk = Dev(disk, Whole), !.by = "fdisk",
                                 !.size = size]
        there == IF disk \in DOMAIN c.disks
                 THEN [rooted EXCEPT !.disks[disk].whole = @ \/ size = "all"]
                 ELSE [rooted EXCEPT !.disks = (disk :> NewDisk(size = "all", "x86")) @@ @]
    IN  IF size = "all" \/ there.disks[disk].size = size THEN there
        ELSE IF there.disks[disk].size = "none" THEN [there EXCEPT !.disks[disk].size = size]
        ELSE Error(there, "conversion")
ConvertFdisk(c, v) ==
    LET disk == IF v.device.disk = "rootdisk" THEN DiskOf(c.rootdisk) ELSE v.device
    IN  Checked(c, <<<<v.bad, "process">>,
                     <<v.device.disk = "all", "unsupported">>,
                     <<v.device.disk = "rootdisk" /\ c.rootdisk = NoDevice, "conversion">>,
                     <<~ValidDisk(disk), "conversion">>,
                     <<v.type # "solaris", "unsupported">>,
                     <<v.size \in {"maxfree", "delete", "0"}, "unsupported">>,
                     <<BadSize(v.size, {"all"}), "conversion">>>>,
                FdiskEntry(c, disk.disk, v.size))

FilesysRoot(c, device, size) ==
    LET conflict == RootdiskConflict(c, device)
        settled == IF conflict THEN Error(c, "conversion")
                   ELSE [c EXCEPT !.root = device, !.rootdisk = device, !.by = "filesys"]
        pool == CreateRootPool(settled, "filesys", RootName, {"logical", "swap"})
    IN  AddDevice(CreateVdev(pool, RootPoolIndex(pool), "none", RootName),
                  device, size, c.poolName, RootName, FALSE)
FilesysSwap(c, device, size) ==
    IF c.rootdisk = AnyDevice THEN Error(c, "conversion")
    ELSE AddDevice(c, device, size, "", "", TRUE)
(* Optional parameters are reported and left out.                          *)
RemoteOrBad(v) == <<<<v.remote, "unsupported">>, <<v.bad, "process">>>>
IgnoringOptional(c, v) == IF v.optional THEN Error(c, "conversion") ELSE c
UnsupportedMount(v) == <<<<v.mount \notin {"/", "swap"}, "unsupported">>>>
ConvertFilesys(c, v) ==
    LET reported == IgnoringOptional(c, v)
        converted == DeviceConversion(reported, v.device, v.size = "all", v.mount = "/")
        d == converted.device
    IN  Checked(c, RemoteOrBad(v), Checked(reported, UnsupportedMount(v),
        IF d = NoDevice THEN converted.c
        ELSE Checked(converted.c,
                     <<<<v.size \in {"free", "existing", "auto"}, "unsupported">>,
                       <<BadSize(v.size, {"all"}), "conversion">>,
                       <<v.mount = "/" /\ RootPoolExists(c), "conversion">>>>,
                     IF v.mount = "swap" THEN FilesysSwap(converted.c, d, v.size)
                     ELSE FilesysRoot(converted.c, d, v.size))))

MirroredSwap(c, pool, devices, size) ==
    LET filled == AddDevices(c, devices, size, pool, pool)
        created == CreateZfsPool(filled, pool, FALSE)
        last == Len(created.pools)
    IN  IF ~MayAddSlice(c, devices[2], size) THEN Error(c, "conversion")
        ELSE CreateZvol(CreateVdev(created, last, "mirror", pool), last, "swap", size)
MirroredRoot(c, pool, devices, size) ==
    LET reported == RootdiskConflictReported(c, devices)
        unset == IF c.rootdisk = NoDevice THEN reported
                 ELSE [reported EXCEPT !.rootdisk = NoDevice, !.by = ""]
        filled == AddDevices(unset, devices, size, pool, pool)
        created == CreateRootPool(filled, "filesys", pool, {"logical", "swap"})
    IN  CreateVdev(created, RootPoolIndex(created), "mirror", pool)
ConvertFilesysMirror(c, v) ==
    LET pool == CASE v.name # "" -> v.name [] v.mount = "swap" -> "rpool_swap" [] OTHER -> RootName
        reported == IgnoringOptional(c, v)
        converted == DevicesConversion(reported, v.devices, FALSE, FALSE)
    IN  Checked(c, RemoteOrBad(v), Checked(reported, UnsupportedMount(v),
        IF ~converted.ok THEN converted.c
        ELSE Checked(converted.c,
                     <<<<v.size \in {"free", "existing", "all", "auto"}, "unsupported">>,
                       <<BadSize(v.size, {}), "conversion">>,
                       <<v.mount = "/" /\ RootPoolExists(c), "conversion">>,
                       <<~ValidMirror(converted.devices), "conversion">>>>,
                     IF v.mount = "swap"
                     THEN MirroredSwap(converted.c, pool, converted.devices, v.size)
                     ELSE MirroredRoot(converted.c, pool, converted.devices, v.size))))

ConvertLocale(c, v) ==
    Checked(c, <<<<v.bad, "process">>>>, [c EXCEPT !.locales = Append(@, v.locale)])

(* A package is looked for in the repository until that fails once, from   *)
(* then on in the local image.  A search finds a new name, finds none, is  *)
(* slow and stops without one, or raises an error; the error of the        *)
(* repository is not reported.                                             *)
Answers == {"renamed", "unknown", "slow", "raised"}
AddSoftware(c, v, remote, local) ==
    LET asksLocal == c.local \/ remote = "raised"
        answer == IF asksLocal THEN local ELSE remote
        name == [package |-> v.package, renamed |-> answer = "renamed"]
        added == {e \in {"warning", "conversion"} :
                    IF e = "warning" THEN answer = "slow" ELSE answer = "raised"}
        searched == [c EXCEPT !.local = asksLocal, !.errors = @ \cup added]
    IN  IF v.action = "add"
        THEN [searched EXCEPT !.uninstall = RemoveFirst(@, name), !.install = Append(@, name)]
        ELSE [searched EXCEPT !.install = RemoveFirst(@, name), !.uninstall = Append(@, name)]
ConvertPackage(c, v, remote, local) ==
    Checked(c, <<<<v.from # "", "unsupported">>, <<v.action \notin {"add", "delete"}, "process">>>>,
            AddSoftware(c, v, remote, local))
ConvertSystemType(c, v) ==
    Checked(c, <<<<v.bad, "process">>, <<v.type # "standalone", "unsupported">>>>, c)

Converted(c, v, remote, local) ==
    CASE v.key = "fdisk" -> ConvertFdisk(c, v)
      [] v.key = "filesys" /\ ~v.mirror -> ConvertFilesys(c, v)
      [] v.key = "filesys" /\ v.mirror -> ConvertFilesysMirror(c, v)
      [] v.key = "locale" -> ConvertLocale(c, v)
      [] v.key = "package" -> ConvertPackage(c, v, remote, local)
      [] v.key = "system_type" -> ConvertSystemType(c, v)
      [] OTHER -> Error(c, "unsupported")

-----------------------------------------------------------------------------
(* After the lines: a root pool from the root disk, or for "partitioning   *)
(* default", then the disks of usedisk.  AddDevice takes each out of the   *)
(* list that the loop goes over, so that the loop passes over the next.    *)

RootPoolFromSettings(c) ==
    LET pool == CreateRootPool(c, IF c.rootdisk # NoDevice THEN c.by ELSE "partitioning",
                               RootName, {"logical", "swap"})
        vdev == CreateVdev(pool, RootPoolIndex(pool), "none", RootName)
    IN  IF RootPoolExists(c) THEN c
        ELSE IF c.rootdisk # NoDevice
             THEN AddDevice(vdev, c.rootdisk, c.size, c.poolName, RootName, FALSE)
        ELSE IF c.partitioning = "default" THEN vdev
        ELSE c
RootPoolIsMirror(c) == "mirror" \in Range(c.pools[RootPoolIndex(c)].vdevs)
AddUsedisks(c) ==
    IF ~RootPoolExists(c) \/ RootPoolIsMirror(c) THEN c
    ELSE FoldLeft(LAMBDA acc, i :
                    IF acc.next > Len(acc.c.usedisk) THEN acc
                    ELSE [c |-> AddDevice(acc.c, Dev(acc.c.usedisk[acc.next], Whole), "none",
                                          c.poolName, RootName, FALSE),
                          next |-> acc.next + 1],
                  [c |-> c, next |-> 1], [i \in 1 .. Len(c.usedisk) |-> i]).c

(* A target with nothing in it is taken out of the tree; the root pool for *)
(* which the installer is to find a disk is put into it all the same.      *)
TargetKept(c) == [c EXCEPT !.attached = DOMAIN c.disks # {} \/ c.logical # {}]
NothingConverted(c) == ~c.attached /\ c.install \o c.uninstall \o c.locales = <<>>
Completed(c) ==
    IF NothingConverted(c) /\ c.errors # {} THEN Rejected(c)
    ELSE CreateRootPool(c, "default", RootName, {"logical", "swap"})

(* __find_xml_entry_points() makes an empty target, then the pool line.    *)
ConvertPoolLine ==
    /\ pass = "scan" /\ at > Len(profile)
    /\ conv' = IF profile = <<>> THEN Rejected(conv)
               ELSE LET c == [conv EXCEPT !.attached = TRUE]
                    IN  IF poolLine = <<>> THEN c ELSE ConvertPool(c, poolLine[1])
    /\ pass' = IF profile = <<>> THEN "rejected" ELSE IF conv'.raised THEN "raised" ELSE "convert"
    /\ at' = 1
    /\ UNCHANGED <<profile, rest, poolLine>>

ConvertLine ==
    /\ pass = "convert" /\ at <= Len(rest)
    /\ \E remote, local \in IF rest[at].key = "package" THEN Answers ELSE {"unknown"} :
          conv' = Converted(conv, rest[at], remote, local)
    /\ pass' = IF conv'.raised THEN "raised" ELSE "convert"
    /\ at' = at + 1
    /\ UNCHANGED <<profile, rest, poolLine>>

FinishProfile ==
    /\ pass = "convert" /\ at > Len(rest)
    /\ LET added == AddUsedisks(RootPoolFromSettings(conv))
       IN  conv' = IF added.raised THEN added ELSE Completed(TargetKept(added))
    /\ pass' = IF conv'.raised THEN "raised" ELSE "done"
    /\ UNCHANGED <<profile, at, rest, poolLine>>

(* A profile for both architectures is written twice, for SPARC without    *)
(* the partitions (fetch_tree).                                            *)
FetchTree(c, arch) ==
    IF arch = "sparc" /\ c.arch \in {"both", "x86"}
    THEN [d \in DOMAIN c.disks |-> [c.disks[d] EXCEPT !.partition = FALSE, !.size = "none"]]
    ELSE c.disks
Manifests(c) ==
    IF ~c.tree THEN {}
    ELSE {[arch |-> a, disks |-> FetchTree(c, a)] :
             a \in IF c.arch = "both" THEN {"x86", "sparc"} ELSE {c.arch}}

JumpStarts == /\ pass = "scan" /\ at = 1 /\ rest = <<>> /\ poolLine = <<>>
              /\ conv = NewConversion
JumpInit == profile \in Profiles /\ JumpStarts
JumpNext == ScanLine \/ ConvertPoolLine \/ ConvertLine \/ FinishProfile

-----------------------------------------------------------------------------
(* Properties.                                                             *)

Lines(key) == {i \in DOMAIN profile : profile[i].key = key}
SlicesOf(c) == {<<d, i>> \in (DOMAIN c.disks) \X (1 .. 9) : i \in DOMAIN c.disks[d].slices}
SliceAt(c, p) == c.disks[p[1]].slices[p[2]]
Written == pass = "done" /\ conv.tree

(* Except on SPARC, whatever lines come together, a disk has no slice      *)
(* twice, and no slice that takes the disk beside one that has a size      *)
(* (__is_valid_to_add_slice, lines 819-884).                               *)
SlicesApart ==
    conv.arch # "sparc" =>
        \A p, q \in SlicesOf(conv) : p[1] = q[1] /\ p # q =>
            /\ SliceAt(conv, p).name # SliceAt(conv, q).name
            /\ (SliceAt(conv, p).size = "none") = (SliceAt(conv, q).size = "none")

(* A slice that a manifest puts into a pool is in a pool and a vdev the    *)
(* manifest has, unless a pool line gave its name and was then refused.    *)
SlicesInPools ==
    Written /\ (conv.poolBy = "pool" \/ conv.poolName = RootName) =>
        \A p \in SlicesOf(conv) : SliceAt(conv, p).pool # "" =>
            \E i \in DOMAIN conv.pools :
                /\ conv.pools[i].name = SliceAt(conv, p).pool
                /\ SliceAt(conv, p).vdev \in DOMAIN conv.pools[i].vdevs

(* The target of a manifest has one root pool, whichever of the keywords   *)
(* that can make it came first.                                            *)
OneRootPool == Written /\ conv.attached => Cardinality({i \in DOMAIN conv.pools : conv.pools[i].root}) = 1

(* Partitions are for x86.  The disks of a profile are all laid out for    *)
(* one architecture, and what is written for SPARC beside x86 leaves out   *)
(* no size (the comment in fetch_tree: the partition is the only           *)
(* difference).                                                            *)
ArchSettled ==
    /\ \A d \in DOMAIN conv.disks : conv.disks[d].partition = (conv.arch # "sparc")
    /\ \A m \in Manifests(conv) : \A d \in DOMAIN m.disks :
          /\ m.disks[d].partition = (m.arch # "sparc")
          /\ m.disks[d].size = conv.disks[d].size

(* A disk of usedisk that another line already used is not used again      *)
(* (lines 755-761); where the profile names a disk once.                   *)
UsedisksUnused ==
    (\A i, j \in Lines("usedisk") : i # j => Range(profile[i].disks) \cap Range(profile[j].disks) = {})
    => \A p \in SlicesOf(conv) : ~Contains(conv.usedisk, p[1])

(* The slice is on its disk, for swap or in the pool.                      *)
SliceThere(c, device, in) ==
    /\ device.disk \in DOMAIN c.disks
    /\ \E i \in DOMAIN c.disks[device.disk].slices :
          LET s == c.disks[device.disk].slices[i]
          IN  s.name = device.slice /\ (IF in = "swap" THEN s.swap ELSE s.pool = in)

(* What a profile asks for is in the manifest, or an error says that it is *)
(* not: the slice of every filesys line, those of the pool, the root       *)
(* device, and one disk of usedisk.                                        *)
CleanIsComplete ==
    Written /\ conv.errors = {} =>
        /\ \A i \in Lines("filesys") : ~profile[i].mirror /\ ValidSlice(profile[i].device) =>
              SliceThere(conv, profile[i].device,
                         IF profile[i].mount = "swap" THEN "swap" ELSE conv.poolName)
        /\ \A i \in Lines("pool") : \A k \in DOMAIN profile[i].devices :
              ValidSlice(profile[i].devices[k]) =>
                  SliceThere(conv, profile[i].devices[k], profile[i].name)
        /\ \A i \in Lines("root_device") :
              SliceThere(conv, profile[i].device, conv.pools[RootPoolIndex(conv)].name)
        /\ \A i \in Lines("usedisk") :
              /\ Cardinality(Lines("usedisk")) = 1 /\ Len(profile[i].disks) = 1
              /\ conv.poolBy # "default" /\ ~RootPoolIsMirror(conv)
              => Head(profile[i].disks) \in DOMAIN conv.disks

(* A package that was added and deleted once is not in both lists under    *)
(* one name (lines 1001-1019; the first match is all that is taken out, so *)
(* that one added twice and then deleted is in both).                      *)
PackagesOneWay ==
    Cardinality(Lines("package")) <= 2 => Range(conv.install) \cap Range(conv.uninstall) = {}

(* The profiles that js2ai converts.                                       *)
ProfilesSound == /\ SlicesApart /\ SlicesInPools /\ OneRootPool /\ ArchSettled
                 /\ UsedisksUnused /\ CleanIsComplete /\ PackagesOneWay
==============================================================================
