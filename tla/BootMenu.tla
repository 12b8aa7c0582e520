------------------------------ MODULE BootMenu ------------------------------
(***************************************************************************)
(* Boot configurations: the list of boot instances of lib/bootmgmt/        *)
(* bootconfig.py, their menu file (backend/loader: Legacy GRUB's and that  *)
(* of the SPARC boot block), and the boot checkpoints of                   *)
(* lib/install_boot/boot.py that make one for an installed disk or for an  *)
(* image.                                                                  *)
(*                                                                         *)
(* A client either edits a configuration that it loaded, or is one of the  *)
(* checkpoints.  Both end in commit_boot_config(), here one step for each  *)
(* command or file operation; every one of them may fail, and the machine  *)
(* may stop between any two.                                               *)
(***************************************************************************)
EXTENDS Naturals, Sequences, FiniteSets, SequencesExt

CONSTANTS
    Jobs,       \* what a client is about to do, and on which system
    MaxEdits,   \* bound: changes a client makes before it commits
    NoFs, NoMenu

FsType == STRING \cup {NoFs}
EntryType == [kind : STRING, bootfs : FsType, title : STRING]
JobType ==
    [kind : {"edit", "system", "sparc", "image"},
     menu : [entries : Seq(EntryType), default : Nat], bootfs : FsType,
     bes : Seq([bootfs : STRING, active : BOOLEAN]), chains : Nat, target : FsType,
     custom : Seq([default : BOOLEAN, at : {"start", "end"}]),
     devs : Nat, dry : BOOLEAN, ready : BOOLEAN, others : SUBSET STRING,
     setBootfs : BOOLEAN]      \* set_bootfs_on_commit
(* Only a checkpoint makes a dry run, one for a disk knows what was        *)
(* installed, and two boot environments are two file systems.              *)
ASSUME BootAssumption ==
    /\ Jobs \subseteq JobType
    /\ MaxEdits \in Nat
    /\ \A j \in Jobs :
          /\ j.kind = "edit" => ~j.dry
          /\ j.kind \in {"system", "sparc"} => j.target # NoFs
          /\ \A i, k \in DOMAIN j.bes : j.bes[i].bootfs = j.bes[k].bootfs => i = k

VARIABLES
    job,
    insts,      \* BootConfig.boot_instances
    dirty,      \* of the configuration or of its boot loader
    edits,
    media,      \* menu file, temporary menu, devices with a loader, bootfs, ...
    steps,      \* the rest of what is being done
    state       \* "editing", "running", "done" or "failed"

bootVars == <<job, insts, dirty, edits, media, steps, state>>

Inst(kind, bootfs, title) ==
    [kind |-> kind, bootfs |-> bootfs, title |-> title, default |-> FALSE, owned |-> FALSE]

-----------------------------------------------------------------------------
(* bootconfig.py                                                           *)

Defaults(s) == {i \in DOMAIN s : s[i].default}
FirstOf(S) == CHOOSE i \in S : \A j \in S : i <= j
Clear(s, i) == [s EXCEPT ![i].default = FALSE]

(* The previous default is found through the configuration, which only an  *)
(* instance that add_boot_instance() was given knows.                      *)
SetDefaultOnly(s, i) == [s EXCEPT ![i].default = TRUE]
SetDefault(s, i) ==
    LET others == Defaults(s) \ {i}
        set == [s EXCEPT ![i].default = TRUE]
    IN  IF s[i].default \/ ~s[i].owned \/ others = {} THEN set
        ELSE Clear(set, FirstOf(others))

(* Before the first instance that where picks, when it is not an end; it   *)
(* may pick none, and then nothing is inserted.                            *)
Place(s, where) ==
    CASE where = "start" -> 0
      [] where = "end" -> Len(s)
      [] OTHER -> LET hits == {i \in DOMAIN s : s[i].bootfs = where}
                  IN  IF hits = {} THEN Len(s) + 1 ELSE FirstOf(hits) - 1
AddOne(s, new, where) ==
    LET cleared == IF new.default /\ Defaults(s) # {} THEN Clear(s, FirstOf(Defaults(s))) ELSE s
        at == Place(s, where)
    IN  IF at > Len(s) THEN cleared
        ELSE InsertAt(cleared, at + 1, [new EXCEPT !.owned = TRUE])
NotOf(s, fs) ==
    FlattenSeq([i \in DOMAIN s |-> IF s[i].bootfs = fs THEN <<>> ELSE <<s[i]>>])
AddPlaced(s, p) == AddOne(s, p[1], p[2])
AddAll(s, new, where) == FoldLeft(AddPlaced, s, [i \in DOMAIN new |-> <<new[i], where>>])

(* The boot environments that beList() knows, the active one as default,   *)
(* and the other systems on the disks.  They are appended to the list and  *)
(* not told of the configuration.                                          *)
AutogenSolaris(bes) ==
    [i \in 1 .. Len(bes) |->
        [Inst("solaris", bes[i].bootfs, "be") EXCEPT !.default = bes[i].active]]
AutogenChain(n) == [i \in 1 .. n |-> Inst("chain", NoFs, "other")]
AutogenerateConfig(j) == AutogenSolaris(j.bes) \o AutogenChain(j.chains)

(* The instances of the menu file: an entry that names a file system or a  *)
(* pool starts Solaris, one with a chainloader another system, and of any  *)
(* other only the title is known.  The file says which one is the default. *)
LoadedKind(e) == IF e.bootfs # NoFs THEN "solaris"
                 ELSE IF e.kind = "chain" THEN "chain" ELSE "other"
LoadConfigDisk(menu) ==
    AddAll(<<>>, [i \in 1 .. Len(menu.entries) |->
                     LET e == menu.entries[i]
                     IN  [Inst(LoadedKind(e), e.bootfs, e.title) EXCEPT
                             !.default = (menu.default = i)]], "end")
(* Without a default the pool's bootfs names one, and then the first       *)
(* instance of the pool is it.                                             *)
LoadBootConfig(m) ==
    LET all == LoadConfigDisk(m.menu)
        named == {i \in DOMAIN all : all[i].bootfs = m.bootfs}
        pooled == {i \in DOMAIN all : all[i].bootfs # NoFs}
        pick == IF named # {} THEN named ELSE pooled
    IN  IF Defaults(all) # {} \/ m.bootfs = NoFs \/ pick = {} THEN all
        ELSE SetDefault(all, FirstOf(pick))

(* An entry has a title, then for an image kernel and boot archive, for a  *)
(* disk the file system to start before them, and for another system only  *)
(* where its own loader is.                                                *)
GenericEntry(inst) == [kind |-> inst.kind, title |-> inst.title, bootfs |-> NoFs]
SolarisEntry(inst) == [GenericEntry(inst) EXCEPT !.bootfs = inst.bootfs]
ChainEntry(inst) == [kind |-> "chain", title |-> inst.title, bootfs |-> NoFs]
MenuEntry(inst) == CASE inst.kind = "solaris" -> SolarisEntry(inst)
                     [] inst.kind = "chain" -> ChainEntry(inst)
                     [] OTHER -> GenericEntry(inst)

(* The last default has its index in the file, which else says the first.  *)
WriteMenuFirstDefault(s) ==
    [entries |-> [i \in 1 .. Len(s) |-> MenuEntry(s[i])], default |-> 1]
WriteMenuLst(s) ==
    [entries |-> [i \in 1 .. Len(s) |-> MenuEntry(s[i])],
     default |-> IF Defaults(s) = {} THEN 1
                 ELSE CHOOSE i \in Defaults(s) : \A k \in Defaults(s) : k <= i]
(* The menu of a SPARC system has no default: bootfs is.                   *)
WriteSparcMenu(s) == WriteMenuLst(NotOf(s, NoFs))

-----------------------------------------------------------------------------
(* A client that edits what it loaded.                                     *)

Edit(new, changes) ==
    /\ state = "editing" /\ job.kind = "edit" /\ edits < MaxEdits
    /\ insts' = new
    /\ dirty' = (dirty \/ changes)
    /\ edits' = edits + 1
    /\ UNCHANGED <<job, media, steps, state>>
AddInstance(bootfs, default, where) ==
    LET new == AddOne(insts, [Inst("solaris", bootfs, "new") EXCEPT !.default = default], where)
    IN  Edit(new, new # insts)
DeleteInstances(bootfs) ==
    LET left == NotOf(insts, bootfs)
    IN  Edit(left, Len(left) # Len(insts))
MakeDefault(i) == ~insts[i].default /\ Edit(SetDefault(insts, i), insts[i].owned)
DropDefault(i) == insts[i].default /\ Edit(Clear(insts, i), insts[i].owned)
SetTitle(i) == Edit([insts EXCEPT ![i].title = "renamed"], insts[i].owned)
SetProp == Edit(insts, TRUE)     \* of the boot loader: timeout, console ...

-----------------------------------------------------------------------------
(* commit_boot_config(): boot variables, a loader on each device, then the *)
(* menu next to its place and into it, and bootfs when that is asked for.  *)
(* Without a change nothing is written.                                    *)

CommitSteps(j, changed) ==
    (IF changed THEN <<"vars">> \o [i \in 1 .. j.devs |-> "loader"] \o <<"menu", "move">>
     ELSE <<>>) \o <<"bootfs">>
CommitBootConfig ==
    /\ state = "editing" /\ job.kind = "edit"
    /\ steps' = CommitSteps(job, dirty)
    /\ state' = "running"
    /\ UNCHANGED <<job, insts, dirty, edits, media>>

(* The checkpoints.                                                        *)
SystemSteps(j) ==
    <<"parse", "autogen", "target", "custom">>
    \o (IF j.dry THEN <<"temp">> ELSE CommitSteps(j, TRUE))
SparcSteps(j) ==
    <<"parse", "bootfs">> \o [i \in 1 .. j.devs |-> "loader"]
    \o <<"prom", "sparc_menu", "bootlst">>
(* The menus of the three kinds of image: their entries, the first of them *)
(* the default, and one that starts the disk.                              *)
ImageSteps(j) == <<"parse", "default_entries", "custom", "temp", "put", "image_info">>
ImageEntries(n) ==
    [i \in 1 .. n |-> [Inst("odd", NoFs, "image") EXCEPT !.default = (i = 1)]]
    \o <<Inst("chain", NoFs, "disk")>>
(* An entry of the manifest for the target, or for the image.              *)
Custom(j) ==
    [i \in 1 .. Len(j.custom) |->
        [Inst(IF j.kind = "image" THEN "odd" ELSE "solaris", j.target, "custom") EXCEPT
            !.default = j.custom[i].default]]

-----------------------------------------------------------------------------
At(s) == state = "running" /\ steps # <<>> /\ Head(steps) = s
Step == /\ steps' = Tail(steps)
        /\ state' = IF Len(steps) = 1 THEN "done" ELSE "running"
        /\ UNCHANGED <<job, edits, dirty>>
Raise == /\ state' = "failed" /\ steps' = <<>>
         /\ UNCHANGED <<job, edits, dirty>>
Fail(fields) == Raise /\ UNCHANGED insts /\ media' = fields
Media(fields) == Step /\ UNCHANGED insts /\ media' = fields
Config(s) == Step /\ insts' = s /\ UNCHANGED media

(* No target, boot environment or mounted top dataset: not a dry run.      *)
ParseDoc == /\ At("parse")
            /\ IF job.ready THEN Config(insts) ELSE Fail(media)
InitBootConfig ==
    /\ At("autogen")
    /\ \/ Config(AutogenerateConfig(job))
       \/ Fail(media)               \* no boot loader's files
(* The entry of what was installed becomes the default.                    *)
BuildEntriesAsFound ==
    /\ At("target")
    /\ IF \E i \in DOMAIN insts : insts[i].bootfs = job.target
       THEN Config(insts) ELSE Fail(media)
BuildDefaultEntries ==
    /\ At("target")
    /\ LET mine == {i \in DOMAIN insts : insts[i].kind = "solaris"
                                          /\ insts[i].bootfs = job.target}
           it == CHOOSE i \in mine : \A k \in mine : k <= i
       IN  IF mine = {} THEN Fail(media)
           ELSE Config([SetDefault(insts, it) EXCEPT ![it].title = "installed"])
BuildImageEntries ==
    At("default_entries") /\ Config(AddAll(insts, ImageEntries(job.chains), "end"))
BuildCustomEntries ==
    /\ At("custom")
    /\ Config(FoldLeft(AddPlaced, insts,
                       [i \in DOMAIN job.custom |-> <<Custom(job)[i], job.custom[i].at>>]))
WriteVars == At("vars") /\ (Media(media) \/ Fail(media))
WriteLoader ==
    /\ At("loader")
    /\ \/ Media([media EXCEPT !.loaders = @ + 1])
       \/ Fail(media)
WriteMenuInPlace ==
    /\ At("menu")
    /\ \/ Media([media EXCEPT !.menu = WriteMenuLst(insts), !.temp = media.menu])
       \/ Fail([media EXCEPT !.menu = NoMenu])
WriteMenu ==
    /\ At("menu")
    /\ \/ Media([media EXCEPT !.temp = WriteMenuLst(insts)])
       \/ Fail([media EXCEPT !.temp = NoMenu])
MoveMenu ==
    /\ At("move")
    /\ \/ Media([media EXCEPT !.menu = media.temp, !.temp = NoMenu])
       \/ Fail([media EXCEPT !.temp = NoMenu])
       \/ Fail([media EXCEPT !.menu = media.temp, !.temp = NoMenu])    \* chown
(* The checkpoint sets it to what was installed, a client that asks for it *)
(* to the default's, or the first one's, if that has any.                  *)
DefaultFs(s) == IF s = <<>> THEN NoFs
                ELSE s[IF Defaults(s) = {} THEN 1 ELSE FirstOf(Defaults(s))].bootfs
BootfsAsked == job.kind = "edit" => job.setBootfs
SetBootfs ==
    /\ At("bootfs")
    /\ LET fs == IF job.kind = "edit" THEN DefaultFs(insts) ELSE job.target
       IN  IF fs = NoFs \/ job.dry \/ ~BootfsAsked THEN Media(media)
           ELSE \/ Media([media EXCEPT !.bootfs = fs])
                \/ Fail(media)
(* To a temporary directory: what is then moved into the image, or removed *)
(* after a dry run.                                                        *)
WriteTemp == At("temp") /\ \/ Media([media EXCEPT !.temp = IF job.dry THEN NoMenu
                                                           ELSE WriteMenuLst(insts)])
                           \/ Fail(media)
PutInImage == At("put") /\ \/ Media([media EXCEPT !.menu = IF job.dry THEN @ ELSE media.temp,
                                                  !.temp = NoMenu])
                           \/ Fail(media)
UpdateImageInfo == At("image_info") /\ Media([media EXCEPT !.info = @ + 1])
(* A PROM that cannot be set is only warned of.                            *)
SetProm == At("prom") /\ Media(media)
CreateSparcMenu ==
    /\ At("sparc_menu")
    /\ Media(IF job.dry THEN media
             ELSE [media EXCEPT !.menu = WriteSparcMenu(<<Inst("solaris", job.target,
                                                               "installed")>>)])
CopyBootlst == At("bootlst") /\ (Media(media) \/ Fail(media))

-----------------------------------------------------------------------------
BootInit ==
    /\ job \in Jobs
    /\ media = [menu |-> job.menu, temp |-> NoMenu, loaders |-> 0, bootfs |-> job.bootfs,
                info |-> 0]
    /\ insts = IF job.kind = "edit" THEN LoadBootConfig(media) ELSE <<>>
    /\ dirty = FALSE /\ edits = 0
    /\ steps = CASE job.kind = "edit" -> <<>>
                 [] job.kind = "system" -> SystemSteps(job)
                 [] job.kind = "sparc" -> SparcSteps(job)
                 [] OTHER -> ImageSteps(job)
    /\ state = IF job.kind = "edit" THEN "editing" ELSE "running"
BootNext ==
    \/ \E bootfs \in job.others, default \in BOOLEAN, where \in {"start", "end"} \cup job.others :
            AddInstance(bootfs, default, where)
    \/ \E bootfs \in job.others : DeleteInstances(bootfs)
    \/ \E i \in DOMAIN insts : MakeDefault(i) \/ DropDefault(i) \/ SetTitle(i)
    \/ SetProp \/ CommitBootConfig
    \/ ParseDoc \/ InitBootConfig \/ BuildDefaultEntries \/ BuildImageEntries
    \/ BuildCustomEntries
    \/ WriteVars \/ WriteLoader \/ WriteMenu \/ MoveMenu \/ SetBootfs
    \/ WriteTemp \/ PutInImage \/ UpdateImageInfo
    \/ SetProm \/ CreateSparcMenu \/ CopyBootlst
BootSpec == BootInit /\ [][BootNext]_bootVars

-----------------------------------------------------------------------------
(* Properties                                                              *)

(* What autogen finds is not told of the configuration, so that another    *)
(* boot environment that is active stays a default beside what was         *)
(* installed (bootconfig.py:178-183).                                      *)
OthersInactive ==
    job.kind = "system" =>
        \A i \in DOMAIN job.bes : job.bes[i].active => job.bes[i].bootfs = job.target

(* bootconfig.py, on making an instance the default: "the previous default *)
(* must be disabled".  No sequence of calls leaves two, while no boot      *)
(* environment but the one just installed is found active.                 *)
OneDefault == OthersInactive => Cardinality(Defaults(insts)) <= 1

(* However the commit ends, and wherever it is cut off, the menu is the    *)
(* one that was there or the whole of the new one.  Not so the menu of a   *)
(* SPARC system, which is written in its place (boot.py:428-459).          *)
MenuWhole == job.kind # "sparc" => media.menu \in {job.menu, WriteMenuLst(insts)}

(* After a commit that returned, no change that was made is missing from   *)
(* the menu, and what it starts is the default instance: the pool's bootfs *)
(* and the menu agree on that, when the client had it set.                 *)
CommittedIsWritten ==
    state = "done" /\ job.kind = "edit" /\ edits > 0 /\ dirty =>
        /\ media.menu = WriteMenuLst(insts)
        /\ media.loaders = job.devs
        /\ insts # <<>> /\ DefaultFs(insts) # NoFs =>
              /\ media.menu.entries[media.menu.default].bootfs = DefaultFs(insts)
              /\ job.setBootfs => media.bootfs = DefaultFs(insts)

(* After the checkpoint the pool's bootfs is what was installed and every  *)
(* device has its loader, whatever is found; and the default entry of the  *)
(* menu starts what was installed, whatever custom entries and whatever    *)
(* other boot environments there are that are not active.                  *)
InstalledStarts ==
    state = "done" /\ job.kind \in {"system", "sparc"} /\ ~job.dry =>
        /\ media.bootfs = job.target
        /\ media.loaders = job.devs
        /\ OthersInactive => media.menu.entries[media.menu.default].bootfs = job.target

(* The boot configuration in memory and on disk, whatever calls edit it    *)
(* and wherever its commit stops.                                          *)
BootSound == OneDefault /\ MenuWhole /\ CommittedIsWritten /\ InstalledStarts
=============================================================================
