-------------------------- MODULE PoolInstantiation --------------------------
(***************************************************************************)
(* The checkpoint that makes the pools, file systems, volumes and boot     *)
(* environments of the desired target: lib/install_target/                 *)
(* instantiation.py and logical.py, and instantiation_zone.py, which only  *)
(* makes the boot environment under a dataset that is there.               *)
(*                                                                         *)
(* Each step is one zpool, zfs, swap or dumpadm command, and a command     *)
(* that fails raises out of the checkpoint.  What is there is asked of ZFS *)
(* right before the command.  A dataset is a path that starts with the     *)
(* name of its pool; a pool is the path of its name alone.                 *)
(***************************************************************************)
EXTENDS Naturals, Sequences, FiniteSets, SequencesExt

CONSTANTS
    Targets,    \* desired targets: sequences of pools
    Systems,    \* what is there before: datasets, swap and dump devices
    Begins      \* pairs of names, the first of which is the beginning of the second

(* The shadow list of a pool refuses a name that is there, and ZFS what is *)
(* to be beneath a volume.  What is found is in a pool that is there, and  *)
(* none of it is the installer's.                                          *)
PoolType ==
    [name : STRING, action : STRING, be : BOOLEAN, vdevs : STRING,
     fs : Seq([name : Seq(STRING), action : STRING, inBe : BOOLEAN]),
     zvols : Seq([name : Seq(STRING), action : STRING, use : {"none", "swap", "dump"}])]
Path(pool, x) == <<pool.name>> \o x.name
PoolPath(pool) == <<pool.name>>
Root(pool) == PoolPath(pool) \o <<"ROOT">>
Beneath(d, e) == IsPrefix(d, e)
(* The text of d is the beginning of that of e: a dataset beneath it, or   *)
(* one whose name only begins like it.                                     *)
LooksLike(d, e) ==
    /\ Len(d) \in 1 .. Len(e)
    /\ \A i \in 1 .. Len(d) - 1 : d[i] = e[i]
    /\ d[Len(d)] = e[Len(d)] \/ <<d[Len(d)], e[Len(d)]>> \in Begins
ASSUME PoolsAssumption ==
    /\ \A t \in Targets :
          /\ t.pools \in Seq(PoolType) /\ t.dry \in BOOLEAN /\ t.zone \in BOOLEAN
          /\ \A p, q \in Range(t.pools) : \A v \in Range(p.zvols) :
                /\ ~Beneath(Path(p, v), PoolPath(q)) /\ ~Beneath(Path(p, v), Root(q))
                /\ \A f \in Range(q.fs) : ~Beneath(Path(p, v), Path(q, f))
                /\ \A w \in Range(q.zvols) : Beneath(Path(p, v), Path(q, w)) => w = v
    /\ \A s \in Systems :
          /\ s.swaps \subseteq DOMAIN s.zfs
          /\ \A d \in DOMAIN s.zfs : /\ d \in Seq(STRING) \ {<<>>} /\ <<d[1]>> \in DOMAIN s.zfs
                                     /\ s.zfs[d] # "installer"

VARIABLES
    want,       \* the desired pools, whether for a zone, and whether dry_run is set
    had,        \* the system before
    zfs,        \* the datasets that are there: path -> whose they are
    swaps, dump,    \* volumes in use
    work,       \* what execute() has still to do
    result,     \* "running", "done" or "failed"
    busy        \* a pool could not be destroyed: one of its volumes is in use

poolVars == <<want, had, zfs, swaps, dump, work, result, busy>>

WantedPools == want.pools
There(d) == d \in DOMAIN zfs
Replaced == {"delete", "create"}

-----------------------------------------------------------------------------
(* execute(): the work in its order.  An item says what is done to which   *)
(* dataset, and what it is to be.                                          *)

Do(op, d, use) == [op |-> op, path |-> d, use |-> use]
Acting(xs, actions) == {x \in Range(xs) : x.action \in actions}
(* The same for each of the chosen children of p, in their order.          *)
Of(p, xs, chosen, op, use) ==
    FlattenSeq([i \in 1 .. Len(xs) |->
        IF xs[i] \in chosen THEN <<Do(op, Path(p, xs[i]), use)>> ELSE <<>>])
Volumes(p, use) == {v \in Range(p.zvols) : v.use = use}
OfVolumes(op, use, actions) ==
    FlattenSeq([i \in 1 .. Len(WantedPools) |->
        Of(WantedPools[i], WantedPools[i].zvols,
           Volumes(WantedPools[i], use) \cap Acting(WantedPools[i].zvols, actions), op, use)])

DestroySwap == OfVolumes("zvol_destroy", "swap", Replaced)
DestroyDump == OfVolumes("zvol_destroy", "dump", Replaced)
DestroyAll(p) == <<Do("zpool_destroy", PoolPath(p), "none")>>
DestroyFilesystems(p) ==
    IF p.action \in Replaced THEN <<Do("zpool_destroy", PoolPath(p), "none")>>
    ELSE Of(p, p.fs, Acting(p.fs, Replaced), "fs_destroy", "none")
DestroyOf(p) ==
    IF p.action \in Replaced THEN <<Do("zpool_destroy", PoolPath(p), "none")>>
    ELSE Of(p, p.fs, Acting(p.fs, Replaced), "fs_destroy", "none")
         \o Of(p, p.zvols, Acting(p.zvols, Replaced), "zvol_destroy", "none")
DestroyLogicals == FlattenSeq([i \in 1 .. Len(WantedPools) |-> DestroyOf(WantedPools[i])])
(* Every vdev of every pool must have devices, and the name of each.       *)
GetVdevNames(p) == <<Do(IF p.vdevs = "empty" THEN "raise" ELSE "zpool_create",
                        PoolPath(p), p.action)>>
InBoot(p) == {f \in Range(p.fs) : f.inBe}
BootEnvironment(p, fs) ==
    IF p.be THEN <<Do("be_init", Root(p), "none")>> \o Of(p, p.fs, fs, "be_fs", "none") ELSE <<>>
CreateOf(p) ==
    GetVdevNames(p)
    \o Of(p, p.fs, Acting(p.fs, {"create", "preserve"}) \ InBoot(p), "fs_create", "none")
    \o Of(p, p.zvols, Acting(p.zvols, {"create", "preserve"}) \cap Volumes(p, "none"),
          "zvol_create", "none")
    \o BootEnvironment(p, InBoot(p) \cap Acting(p.fs, {"create"}))
CreateLogicals == FlattenSeq([i \in 1 .. Len(WantedPools) |-> CreateOf(WantedPools[i])])
CreateSwap == OfVolumes("zvol_create", "swap", {"create"})
CreateDump == OfVolumes("zvol_create", "dump", {"create"})

ExecuteLogicalsFirst ==
    DestroyLogicals \o DestroySwap \o DestroyDump \o CreateLogicals \o CreateSwap
        \o CreateDump
ExecuteWork ==
    DestroySwap \o DestroyDump \o DestroyLogicals \o CreateLogicals \o CreateSwap
        \o CreateDump
(* The zone's: one dataset of the global zone stands for the pool.         *)
ZoneOf(p) == BootEnvironment(p, Acting(p.fs, {"create"}))
ZoneWork == FlattenSeq([i \in 1 .. Len(WantedPools) |-> ZoneOf(WantedPools[i])])

-----------------------------------------------------------------------------
(* ZFS, swap and dumpadm                                                   *)

ZfsWithout(ds) == [d \in DOMAIN zfs \ ds |-> zfs[d]]
Added(ds) == [d \in DOMAIN zfs \cup ds |-> IF There(d) THEN zfs[d] ELSE "installer"]
Parents(d) == {SubSeq(d, 1, n) : n \in 1 .. Len(d)}
Below(d) == {e \in DOMAIN zfs : Beneath(d, e)}
InUse(d) == \E e \in Below(d) : e \in swaps \/ e = dump

Proceed == /\ work' = Tail(work)
         /\ result' = IF Len(work) = 1 THEN "done" ELSE "running"
Fails == /\ result' = "failed" /\ work' = <<>>
         /\ UNCHANGED <<want, had, zfs, swaps, dump>>
CommandAlways(can, effect) ==
    \/ can /\ effect /\ Proceed /\ UNCHANGED <<want, had, busy>>
    \/ Fails /\ UNCHANGED busy
(* A command may fail, and does when ZFS refuses it.                       *)
Command(can, effect) ==
    \/ can /\ ~want.dry /\ effect /\ Proceed /\ UNCHANGED <<want, had, busy>>
    \/ want.dry /\ Proceed /\ UNCHANGED <<want, had, zfs, swaps, dump, busy>>
    \/ ~want.dry /\ Fails /\ UNCHANGED busy
Skip == Proceed /\ UNCHANGED <<want, had, zfs, swaps, dump, busy>>

-----------------------------------------------------------------------------
(* logical.py                                                              *)

WorkItem == Head(work)
Is(op) == result = "running" /\ work # <<>> /\ WorkItem.op = op

ZpoolDestroy ==
    /\ Is("zpool_destroy")
    /\ \/ ~There(WorkItem.path) /\ Skip
       \/ There(WorkItem.path) /\ ~InUse(WorkItem.path)
            /\ Command(TRUE, /\ zfs' = ZfsWithout(Below(WorkItem.path))
                             /\ UNCHANGED <<swaps, dump>>)
       \/ /\ There(WorkItem.path) /\ InUse(WorkItem.path)
          /\ IF want.dry THEN Skip ELSE Fails /\ busy' = TRUE
(* Not recursive: it fails for a file system with others below it, and for *)
(* what is in use.                                                         *)
FilesystemDestroy ==
    /\ Is("fs_destroy")
    /\ \/ ~There(WorkItem.path) /\ Skip
       \/ There(WorkItem.path) /\ Command(/\ Below(WorkItem.path) = {WorkItem.path}
                                             /\ ~InUse(WorkItem.path),
                                          /\ zfs' = ZfsWithout({WorkItem.path})
                                          /\ UNCHANGED <<swaps, dump>>)
(* swap -d once for each swap device that begins like it, which fails for  *)
(* another; where the dump device begins like it, it is left alone.        *)
ZvolDestroy ==
    /\ Is("zvol_destroy")
    /\ \/ ~There(WorkItem.path) /\ Skip
       \/ There(WorkItem.path) /\ Command(\A s \in swaps : LooksLike(WorkItem.path, s) => s = WorkItem.path,
              /\ swaps' = swaps \ {WorkItem.path}
              /\ zfs' = IF LooksLike(WorkItem.path, dump) THEN zfs
                        ELSE ZfsWithout({WorkItem.path})
              /\ UNCHANGED dump)
       \/ /\ There(WorkItem.path) /\ WorkItem.path \in swaps /\ ~want.dry   \* what follows fails
          /\ swaps' = swaps \ {WorkItem.path}
          /\ result' = "failed" /\ work' = <<>>
          /\ UNCHANGED <<want, had, zfs, dump, busy>>
(* A preserved pool is made when it is not there.                          *)
ZpoolCreate ==
    /\ Is("zpool_create")
    /\ IF WorkItem.use = "create" \/ (WorkItem.use = "preserve" /\ ~There(WorkItem.path))
       THEN Command(~There(WorkItem.path),
                    zfs' = Added({WorkItem.path}) /\ UNCHANGED <<swaps, dump>>)
       ELSE Skip
(* What follows the zfs create of an item fails.                           *)
FailsOnce ==
    /\ ~There(WorkItem.path) /\ There(<<WorkItem.path[1]>>) /\ ~want.dry
    /\ zfs' = Added(Parents(WorkItem.path))
    /\ result' = "failed" /\ work' = <<>>
    /\ UNCHANGED <<want, had, swaps, dump, busy>>
(* With -p: what is missing above it too.  Its mountpoint is set after it. *)
FilesystemCreate ==
    /\ Is("fs_create")
    /\ \/ There(WorkItem.path) /\ Skip
       \/ ~There(WorkItem.path) /\ Command(There(<<WorkItem.path[1]>>),
              /\ zfs' = Added(Parents(WorkItem.path))
              /\ UNCHANGED <<swaps, dump>>)
       \/ FailsOnce
(* A dump volume may be allowed to be refused by dumpadm.                  *)
ZvolCreate ==
    /\ Is("zvol_create")
    /\ \/ There(WorkItem.path) /\ Skip
       \/ ~There(WorkItem.path) /\ Command(There(<<WorkItem.path[1]>>),
              /\ zfs' = Added(Parents(WorkItem.path))
              /\ swaps' = IF WorkItem.use = "swap" THEN swaps \cup {WorkItem.path} ELSE swaps
              /\ dump' \in {dump} \cup IF WorkItem.use = "dump" THEN {WorkItem.path} ELSE {})
       \/ WorkItem.use \in {"swap", "dump"} /\ FailsOnce     \* swap -a or dumpadm
(* be_init() names the environment so that it is a new one.                *)
BEInit ==
    /\ Is("be_init")
    /\ Command(There(<<WorkItem.path[1]>>),
               zfs' = Added(Parents(WorkItem.path)) /\ UNCHANGED <<swaps, dump>>)
BEFilesystem ==
    /\ Is("be_fs")
    /\ Command(There(<<WorkItem.path[1]>>), zfs' = zfs /\ UNCHANGED <<swaps, dump>>)
NoDevices == /\ Is("raise") /\ Fails /\ UNCHANGED busy

-----------------------------------------------------------------------------
PoolInit ==
    /\ want \in Targets
    /\ had \in Systems
    /\ zfs = had.zfs /\ swaps = had.swaps /\ dump = had.dump
    /\ work = IF want.zone THEN ZoneWork ELSE ExecuteWork
    /\ result = IF work = <<>> THEN "done" ELSE "running"
    /\ busy = FALSE
PoolNext ==
    \/ ZpoolDestroy \/ FilesystemDestroy \/ ZvolDestroy
    \/ ZpoolCreate \/ FilesystemCreate \/ ZvolCreate
    \/ BEInit \/ BEFilesystem \/ NoDevices
PoolSpec == PoolInit /\ [][PoolNext]_poolVars /\ WF_poolVars(PoolNext)

-----------------------------------------------------------------------------
(* Properties                                                              *)

Asked(actions) ==
    {PoolPath(p) : p \in {q \in Range(WantedPools) : q.action \in actions}}
    \cup UNION {{Path(p, x) : x \in {y \in Range(p.fs) \cup Range(p.zvols) :
                                        y.action \in actions}} : p \in Range(WantedPools)}
(* What the document gives up: what it deletes or makes anew, and the      *)
(* pools with all that is in them.                                         *)
Doomed == {d \in DOMAIN had.zfs : \E e \in Asked(Replaced) :
                d = e \/ (Len(e) = 1 /\ Beneath(e, d))}

(* Whatever fails on the way, what the manifest does not give up is never  *)
(* destroyed, and neither is a dataset made over it.                       *)
KeptUntouched ==
    \A d \in DOMAIN had.zfs \ Doomed : There(d) /\ zfs[d] = had.zfs[d]

(* Datasets beneath a pool to delete, and those of boot environments.      *)
Inside(d) == \E p \in Range(WantedPools) : p.action = "delete" /\ Beneath(PoolPath(p), d)
InBE(d) == \E p \in Range(WantedPools) : \E f \in Range(p.fs) : f.inBe /\ d = Path(p, f)

(* What is created or kept, with what is above it, and its volumes.        *)
Above(d) == \E e \in Asked({"create", "preserve"}) \cup {Root(p) : p \in Range(WantedPools)} :
                Beneath(d, e)
SwapVolumes(actions) ==
    UNION {{Path(p, v) : v \in Volumes(p, "swap") \cap Acting(p.zvols, actions)} :
              p \in Range(WantedPools)}

(* When execute() returns, all that is to be created is there, new and not *)
(* what was found, nothing to delete is, unless something is created       *)
(* beneath it, and each new swap volume is in use; except a dataset with   *)
(* which the path of the dump device begins: the volume dumpadm holds, but *)
(* also one whose name is the beginning of that volume's, is kept as it    *)
(* was and execute() says nothing.                                         *)
HeldByDump(d) == LooksLike(d, had.dump)
DoneIsInstantiated ==
    result = "done" /\ ~want.dry /\ ~want.zone =>
        /\ \A d \in Asked({"create"}) :
            ~HeldByDump(d) /\ ~Inside(d) /\ ~InBE(d) =>
                There(d) /\ zfs[d] = "installer"
        /\ \A d \in Asked({"delete"}) : ~HeldByDump(d) /\ ~Above(d) => ~There(d)
        /\ \A d \in SwapVolumes({"create"}) : ~HeldByDump(d) => d \in swaps

(* dry_run changes nothing, and goes through.                              *)
DryRunHarmless ==
    want.dry => zfs = had.zfs /\ swaps = had.swaps /\ dump = had.dump /\ ~busy

(* Every swap or dump device that the system has is there, and a pool is   *)
(* never found in use because of a swap volume that is being replaced.     *)
DevicesThere ==
    /\ swaps \subseteq DOMAIN zfs
    /\ busy => \E d \in (swaps \cup {dump}) \cap DOMAIN zfs :
                    d = dump \/ d \notin SwapVolumes(Replaced)

(* Pools, datasets and swap after any failure, a dry run and a success.    *)
PoolsSound == KeptUntouched /\ DoneIsInstantiated /\ DryRunHarmless /\ DevicesThere
=============================================================================
