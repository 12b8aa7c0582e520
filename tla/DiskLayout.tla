----------------------------- MODULE DiskLayout -----------------------------
(***************************************************************************)
(* The desired layout of one disk: Disk, Partition and Slice of            *)
(* lib/install_target/physical.py, with the validation that                *)
(* shadow/physical.py makes when a child is inserted.  A child that is not *)
(* valid is inserted all the same; what is wrong with it is left with the  *)
(* error service, and the next insertion or removal clears it.  The        *)
(* layout is written to the disk by instantiation.py.                      *)
(*                                                                         *)
(* Sectors are numbers; a cylinder has CylSize of them, and a logical      *)
(* partition is preceded by LogicalAdjustment sectors of its own (63).     *)
(* Slice 2 of a VTOC is the backup slice.                                  *)
(***************************************************************************)
EXTENDS Integers, Sequences, FiniteSets, SequencesExt

CONSTANTS
    CylSize, DevSize, LogicalAdjustment,
    FdNumPart,      \* primary partitions are 1..FdNumPart (4)
    MaxExtParts,    \* logical partitions come after them (32)
    VNumPar,        \* slices of a VTOC (16)
    Layouts,        \* what was discovered on the disk
    Starts, Sizes, SliceSizes,  \* what the callers ask for
    MaxOps          \* bound: changes made to one layout

ASSUME GeometryAssumption ==
    /\ CylSize \in Nat \ {0} /\ LogicalAdjustment \in 1 .. CylSize
    /\ DevSize \in Nat
    /\ \A l \in Layouts : DOMAIN l = {"parts", "slices", "x86"}

VARIABLES
    disk,       \* the children: partitions with their slices, and slices of the disk
    errors,     \* with the error service since the last insertion or removal
    flawed,     \* an error was left by some change so far
    answer,     \* what the last call did: "ok", "insufficient", "raised"
    call,       \* the last call
    table,      \* the partition table and the slices on the disk itself
    ops

layoutVars == <<disk, errors, flawed, answer, call, table, ops>>

Primary(p) == p.name <= FdNumPart
Extended(p) == Primary(p) /\ p.type = "ext"
End(x) == x.start + x.size
Live(s) == SelectSeq(s, LAMBDA x : x.action # "delete")
Logicals(ps) == SelectSeq(ps, LAMBDA p : ~Primary(p))
Backup(s) == s.name = 2

-----------------------------------------------------------------------------
(* Validation of an insertion: shadow/physical.py                          *)

(* A size below zero is not a Size: the assignment raises.                 *)
NotASize == -1

(* To the next cylinder, never the first one, in whole cylinders, and on   *)
(* x86 with maxCyl cylinders of the disk left over.                        *)
CylinderAdjust(v, maxCyl) ==
    LET up == IF v.start % CylSize = 0 THEN v.start
              ELSE (v.start \div CylSize) * CylSize + CylSize
        start == IF up = 0 THEN CylSize ELSE up
        rest == v.size - (start - v.start)
        whole == (rest \div CylSize) * CylSize
        most == ((DevSize \div CylSize) - maxCyl) * CylSize
        size == IF disk.x86 /\ (DevSize - whole) \div CylSize < maxCyl THEN most ELSE whole
    IN  IF v.action # "create" THEN v
        ELSE [v EXCEPT !.start = start,
                       !.size = IF rest < 0 \/ size < 0 THEN NotASize ELSE size]

(* The last extended partition, deleted ones included.                     *)
ExtendedOf(ps) == SelectSeq(ps, Extended)

(* A new logical partition leaves room for its boot record after the       *)
(* closest partition that ends before it.                                  *)
LogicalAdjust(ps, v) ==
    LET ends == {End(p) : p \in Range(Live(Logicals(ps)))}
        before == {e \in ends : e < v.start /\ e > 0}
        from == IF before = {} THEN Last(ExtendedOf(ps)).start
                ELSE CHOOSE e \in before : \A f \in before : f <= e
        size == v.size - LogicalAdjustment
    IN  IF v.start - from < LogicalAdjustment /\ v.action = "create"
        THEN [v EXCEPT !.start = from + LogicalAdjustment,
                       !.size = IF size < 0 THEN NotASize ELSE size]
        ELSE v

Overlap(a, b) ==
    LET aEnd == End(a) - 1
        bEnd == End(b) - 1
    IN  \/ b.start <= a.start /\ a.start <= bEnd
        \/ b.start <= aEnd /\ aEnd <= bEnd
        \/ a.start <= b.start /\ b.start <= aEnd
        \/ a.start <= bEnd /\ bEnd <= aEnd
(* The span of a logical partition includes its boot record.               *)
Span(p) == IF Primary(p) THEN p
           ELSE [p EXCEPT !.start = @ - LogicalAdjustment, !.size = @ + LogicalAdjustment]

ClashUnlessInside(p, v) ==
    /\ Primary(p) = Primary(v)
    /\ p.action # "delete" /\ v.action # "delete"
    /\ \/ p.start <= v.start /\ v.start <= End(p) - 1
       \/ p.start <= End(v) - 1 /\ End(v) - 1 <= End(p) - 1
Clash(p, v) == /\ Primary(p) = Primary(v)
               /\ p.action # "delete" /\ v.action # "delete"
               /\ Overlap(v, Span(p))

PartitionErrors(ps, v, asked) ==
    LET all == Range(ps)
        live == Range(Live(ps))
        logical == ~Primary(v)
    IN  {e \in {"name", "start", "no_extended", "logicals", "actives", "outside",
                "overlap", "duplicate", "extendeds", "small"} :
          CASE e = "name" -> v.name \notin 1 .. FdNumPart + MaxExtParts
            [] e = "start" -> asked < 0 \/ asked > DevSize
            [] e = "no_extended" -> logical /\ ExtendedOf(ps) = <<>>
            [] e = "logicals" -> /\ logical /\ ExtendedOf(ps) # <<>>
                                 /\ Len(Live(Logicals(ps))) >= MaxExtParts
            [] e = "actives" -> /\ Primary(v) /\ v.active
                                /\ \E p \in all : Primary(p) /\ p.active
            [] e = "outside" -> /\ logical
                                /\ \E p \in live : /\ Extended(p)
                                                   /\ v.start < p.start \/ End(v) > End(p)
            [] e = "overlap" -> \E p \in all : Clash(p, v)
            [] e = "duplicate" -> \E p \in live : p.name = v.name
            [] e = "extendeds" -> Extended(v) /\ \E p \in live : Extended(p)
            [] e = "small" -> Extended(v) /\ v.size < LogicalAdjustment}

(* What an insertion makes of the children: they, the errors it leaves and *)
(* whether it went through.                                                *)
InsertPartition(ps, v) ==
    LET new == IF Primary(v) THEN CylinderAdjust(v, 1)
               ELSE IF ExtendedOf(ps) # <<>> THEN LogicalAdjust(ps, v) ELSE v
        asked == IF Primary(v) THEN new.start ELSE v.start
    IN  IF new.size = NotASize THEN [kids |-> ps, errs |-> {}, raised |-> TRUE]
        ELSE [kids |-> Append(ps, new), errs |-> PartitionErrors(ps, new, asked),
              raised |-> FALSE]

SliceErrors(ss, v, asked, parentSize) ==
    {e \in {"start", "overlap", "many", "duplicate"} :
      CASE e = "start" -> asked < 0 \/ asked > parentSize
        [] e = "overlap" -> /\ ~Backup(v)
                            /\ \E s \in Range(ss) : /\ ~Backup(s)
                                                    /\ s.action # "delete"
                                                    /\ v.action # "delete"
                                                    /\ Overlap(v, s)
        [] e = "many" -> Len(ss) >= VNumPar
        [] e = "duplicate" -> \E s \in Range(Live(ss)) : s.name = v.name}

InsertSlice(ss, v, parentSize) ==
    LET new == IF Backup(v) THEN v ELSE CylinderAdjust(v, 4)
    IN  IF new.size = NotASize THEN [kids |-> ss, errs |-> {}, raised |-> TRUE]
        ELSE [kids |-> Append(ss, new), errs |-> SliceErrors(ss, new, v.start, parentSize),
              raised |-> FALSE]

-----------------------------------------------------------------------------
(* The gaps: Disk.get_gaps(), Partition.get_gaps() and                     *)
(* Disk.get_logical_partition_gaps()                                       *)

Bounds(xs) == FlattenSeq([i \in 1 .. Len(xs) |-> <<xs[i].start, End(xs[i])>>])
Gap(start, size) == [start |-> start, size |-> size]
BetweenUnsorted(xs, from, to) ==
    LET u == <<from>> \o Bounds(xs) \o <<to>>
    IN  [i \in 1 .. Len(u) \div 2 |-> Gap(u[2 * i - 1], u[2 * i] - u[2 * i - 1])]
(* What is between from, the sorted boundaries of xs and to.               *)
Between(xs, from, to) ==
    LET u == <<from>> \o SortSeq(Bounds(xs), <) \o <<to>>
    IN  [i \in 1 .. Len(u) \div 2 |-> Gap(u[2 * i - 1], u[2 * i] - u[2 * i - 1])]
Holes(xs, to) ==
    LET holes == SelectSeq(Between(xs, 0, to), LAMBDA g : g.size > 1 /\ g.size > CylSize)
    IN  [i \in 1 .. Len(holes) |->
            Gap(IF holes[i].start = 0 THEN 0 ELSE holes[i].start + 1, holes[i].size - 1)]
Rounded(g) ==
    LET up == IF g.start % CylSize = 0 THEN g.start
              ELSE (g.start \div CylSize) * CylSize + CylSize
        start == IF up = 0 THEN CylSize ELSE up
    IN  Gap(start, ((g.size - (start - g.start)) \div CylSize) * CylSize)
NotBackup(ss) == SelectSeq(Live(ss), LAMBDA s : ~Backup(s))
DiskGaps(d) ==
    LET holes == Holes(Live(SelectSeq(d.parts, Primary)) \o NotBackup(d.slices), DevSize)
    IN  IF d.parts = <<>> /\ d.slices = <<>> THEN <<Gap(0, DevSize)>>
        ELSE SelectSeq([i \in 1 .. Len(holes) |-> Rounded(holes[i])],
                       LAMBDA g : g.size > CylSize)
PartitionGaps(p) ==
    IF p.slices = <<>> THEN <<Gap(0, p.size)>> ELSE Holes(NotBackup(p.slices), p.size)
LogicalGaps(d) ==
    LET exts == SelectSeq(Live(d.parts), Extended)
        ext == Head(exts)
        holes == SelectSeq(Between(Logicals(d.parts), ext.start, End(ext)),
                           LAMBDA g : g.size > LogicalAdjustment)
    IN  IF exts = <<>> THEN <<>>
        ELSE IF Logicals(d.parts) = <<>> THEN <<Gap(ext.start, ext.size)>>
        ELSE [i \in 1 .. Len(holes) |-> Gap(holes[i].start + LogicalAdjustment,
                                            holes[i].size - 1 - LogicalAdjustment)]

-----------------------------------------------------------------------------
(* Enlarging: resize_partition() and the two resize_slice()                *)

Abs(n) == IF n < 0 THEN -n ELSE n
FillRight(x, desired, gap) ==
    IF End(x) + desired <= End(gap) THEN 0 ELSE desired - gap.size
FillLeft(x, desired, gap) ==
    IF x.start - desired >= gap.start THEN 0 ELSE desired - gap.size

PlacedFromOwnEnd(x, size, gaps, adjacent) ==
    IF size <= x.size THEN x.start ELSE End(x) - size
(* Where x starts when it has size sectors, or NotASize when the gaps next *)
(* to it (the last one on either side) leave too little: first to the      *)
(* right, then to the left from the end of the right gap.                  *)
Placed(x, size, gaps, adjacent) ==
    LET prev == SelectSeq(gaps, LAMBDA g : Abs(End(g) - x.start) <= adjacent)
        next == SelectSeq(gaps, LAMBDA g : Abs(End(x) - g.start) <= adjacent)
        wanted == size - x.size
        right == IF next = <<>> THEN wanted ELSE FillRight(x, wanted, Last(next))
        left == IF right = 0 \/ prev = <<>> THEN right ELSE FillLeft(x, right, Last(prev))
        end == IF next = <<>> THEN End(x) ELSE End(Last(next))
    IN  IF size <= x.size \/ (next # <<>> /\ right = 0) THEN x.start
        ELSE IF left # 0 THEN NotASize
        ELSE end - size

-----------------------------------------------------------------------------
(* The calls                                                               *)

NewPart(name, start, size, type, active) ==
    [name |-> name, start |-> start, size |-> size, type |-> type,
     active |-> active /\ name <= FdNumPart, action |-> "create", slices |-> <<>>]
Slc(name, start, size) == [name |-> name, start |-> start, size |-> size, action |-> "create"]

Outcome(new, r, c) ==
    /\ disk' = new
    /\ errors' = r.errs
    /\ flawed' = (flawed \/ r.errs # {} \/ r.raised)
    /\ answer' = IF r.raised THEN "raised" ELSE "ok"
    /\ call' = c
    /\ ops' = ops + 1
    /\ UNCHANGED table
Partitions(kids, v, c) ==
    LET r == InsertPartition(kids, v) IN Outcome([disk EXCEPT !.parts = r.kids], r, c)
Refuse(c) ==
    /\ answer' = "insufficient" /\ call' = c /\ ops' = ops + 1
    /\ UNCHANGED <<disk, errors, flawed, table>>
Without(s, i) == RemoveAt(s, i)

(* The least unused name of its kind.                                      *)
NextName(primary) ==
    LET all == IF primary THEN 1 .. FdNumPart ELSE FdNumPart + 1 .. FdNumPart + MaxExtParts
        used == {p.name : p \in Range(disk.parts)}
    IN  {n \in all \ used : \A m \in all \ used : n <= m}

AddPartition(name, start, size, type, active) ==
    Partitions(disk.parts, NewPart(name, start, size, type, active), "add")
(* What the callers do with a gap.                                         *)
AddInGap(primary) ==
    \E g \in Range(IF primary THEN DiskGaps(disk) ELSE LogicalGaps(disk)),
       n \in NextName(primary) :
        Partitions(disk.parts, NewPart(n, g.start, g.size, "solaris", FALSE),
                   IF primary THEN "gap" ELSE "logical_gap")
(* By name: every partition that has it.                                   *)
DeletePartition(i) ==
    Outcome([disk EXCEPT !.parts = SelectSeq(@, LAMBDA p : p.name # disk.parts[i].name)],
            [errs |-> {}, raised |-> FALSE], "delete")
(* Deletes the object, its slices with it, and adds another.               *)
Replace(i, v, c) == Partitions(Without(disk.parts, i), v, c)
Resize(i, start, size, c) ==
    LET p == disk.parts[i] IN Replace(i, NewPart(p.name, start, size, p.type, p.active), c)
ResizePartition(i, size) ==
    LET p == disk.parts[i]
        at == IF Primary(p) THEN Placed(p, size, DiskGaps(disk), CylSize)
              ELSE Placed(p, size, LogicalGaps(disk), LogicalAdjustment + 1)
        c == IF Primary(p) THEN "resize" ELSE "resize_logical"
    IN  IF at = NotASize THEN Refuse(c) ELSE Resize(i, at, size, c)
ChangeType(i, type) ==
    LET p == disk.parts[i]
    IN  Replace(i, NewPart(p.name, p.start, p.size, type, p.active), "type")
ChangeBootid(i, active) ==
    LET p == disk.parts[i]
    IN  Replace(i, NewPart(p.name, p.start, p.size, p.type, active), "bootid")

(* Slices of the disk itself (container 0) or of a partition.              *)
Container(c) == IF c = 0 THEN disk.slices ELSE disk.parts[c].slices
ContainerSize(c) == IF c = 0 THEN DevSize ELSE disk.parts[c].size
ContainerGaps(c) == IF c = 0 THEN DiskGaps(disk) ELSE PartitionGaps(disk.parts[c])
PutSlices(c, ss) == IF c = 0 THEN [disk EXCEPT !.slices = ss]
                    ELSE [disk EXCEPT !.parts[c].slices = ss]
Slices(c, kids, v, what) ==
    LET r == InsertSlice(kids, v, ContainerSize(c)) IN Outcome(PutSlices(c, r.kids), r, what)

AddSlice(c, name, start, size) ==
    Slices(c, Container(c), Slc(name, start, size), "add_slice")
DeleteSlice(c, name) ==
    Outcome(PutSlices(c, SelectSeq(Container(c), LAMBDA s : s.name # name)),
            [errs |-> {}, raised |-> FALSE], "delete_slice")
ResizeSlice(c, j, size) ==
    LET s == Container(c)[j]
        at == Placed(s, size, ContainerGaps(c), CylSize)
    IN  IF at = NotASize THEN Refuse("resize_slice")
        ELSE Slices(c, Without(Container(c), j), Slc(s.name, at, size), "resize_slice")
CreateEntirePartitionSlice(i) ==
    Slices(i, <<>>, Slc(0, 0, disk.parts[i].size), "entire")

-----------------------------------------------------------------------------
(* instantiation.py: setup_physical() for this disk                        *)

AllSlices(d) == FlattenSeq(<<d.slices>> \o [i \in 1 .. Len(d.parts) |-> d.parts[i].slices])
(* The rows of the fdisk file are numbered by the loop that writes them:   *)
(* it never ends when a name comes twice.                                  *)
Names(ps) == {p.name : p \in Range(ps)}
UpdatePartitionTable(ps) == [n \in Names(ps) |-> CHOOSE p \in Range(ps) : p.name = n]
UpdateSlices(ss) ==
    [n \in {s.name : s \in Range(ss)} |-> Last(SelectSeq(ss, LAMBDA s : s.name = n))]
Changes(s) == \E x \in Range(s) : x.action \in {"create", "delete"}
Preserves(s) == \E x \in Range(s) : x.action \in {"preserve", "use_existing_solaris2"}
SetupLabelsAlways(d, old) ==
    [rows |-> IF Changes(d.parts) THEN UpdatePartitionTable(Live(d.parts)) ELSE old.rows,
     vtoc |-> IF Changes(AllSlices(d)) /\ Live(AllSlices(d)) # <<>>
              THEN UpdateSlices(Live(AllSlices(d))) ELSE <<>>,
     hung |-> FALSE, done |-> TRUE]
SetupPhysical(d, old) ==
    LET rows == IF Changes(d.parts) THEN UpdatePartitionTable(Live(d.parts)) ELSE old.rows
        label == ~Preserves(d.parts) /\ ~Preserves(AllSlices(d))
        labelled == IF label THEN <<>> ELSE old.vtoc
    IN  [rows |-> rows,
         vtoc |-> IF Changes(AllSlices(d)) /\ Live(AllSlices(d)) # <<>>
                  THEN UpdateSlices(Live(AllSlices(d))) ELSE labelled,
         hung |-> Changes(d.parts) /\ Cardinality(Names(Live(d.parts))) # Len(Live(d.parts)),
         done |-> TRUE]
Instantiate ==
    /\ table' = SetupPhysical(disk, table)
    /\ UNCHANGED <<disk, errors, flawed, answer, call, ops>>

-----------------------------------------------------------------------------
OnDisk(d) == [rows |-> UpdatePartitionTable(d.parts), vtoc |-> UpdateSlices(AllSlices(d)),
              hung |-> FALSE, done |-> FALSE]
LayoutInit ==
    /\ disk \in Layouts
    /\ errors = {} /\ flawed = FALSE /\ answer = "ok" /\ call = "none" /\ ops = 0
    /\ table = OnDisk(disk)

PartitionCall ==
    /\ disk.x86
    /\ \/ \E n \in 1 .. FdNumPart + MaxExtParts, s \in Starts, z \in Sizes,
             t \in {"solaris", "ext"} : AddPartition(n, s, z, t, t = "solaris")
       \/ \E primary \in BOOLEAN : AddInGap(primary)
       \/ \E i \in DOMAIN disk.parts :
           \/ DeletePartition(i)
           \/ disk.parts[i].action # "delete" /\ \E z \in Sizes : ResizePartition(i, z)
           \/ \E t \in {"solaris", "ext"} : disk.parts[i].type # t /\ ChangeType(i, t)
           \/ ChangeBootid(i, ~disk.parts[i].active)
SliceCall ==
    \E c \in {0} \cup DOMAIN disk.parts :
        /\ c = 0 <=> ~disk.x86
        /\ \/ \E n \in {0, 1}, s \in Starts, z \in SliceSizes : AddSlice(c, n, s, z)
           \/ \E s \in Range(Container(c)) : DeleteSlice(c, s.name)
           \/ \E j \in DOMAIN Container(c), z \in SliceSizes : ResizeSlice(c, j, z)
           \/ c # 0 /\ CreateEntirePartitionSlice(c)
LayoutNext ==
    \/ ops < MaxOps /\ ~table.done /\ (PartitionCall \/ SliceCall)
    \/ ~table.done /\ Instantiate
LayoutSpec == LayoutInit /\ [][LayoutNext]_layoutVars

-----------------------------------------------------------------------------
(* Properties                                                              *)

Apart(s) == \A i, j \in DOMAIN s : i # j => ~Overlap(s[i], s[j])
NamedApart(s) == \A i, j \in DOMAIN s : i # j => s[i].name # s[j].name
Sound(d) ==
    LET live == Live(d.parts)
    IN  /\ Apart(SelectSeq(live, Primary)) /\ NamedApart(live)
        /\ Apart(Logicals(live))
        /\ Cardinality({i \in DOMAIN live : Extended(live[i])}) <= 1
        /\ Cardinality({i \in DOMAIN live : live[i].active}) <= 1
        /\ \A ss \in {d.slices} \cup {p.slices : p \in Range(live)} :
              Apart(NotBackup(ss)) /\ NamedApart(Live(ss))

(* A caller that found nothing with the error service after each of its    *)
(* changes has a layout in which no two partitions or slices overlap, no   *)
(* name is used twice and one partition at most is extended or active.     *)
UnflawedIsSound == ~flawed => Sound(disk)

(* What is less than a cylinder is rounded to nothing, and an empty child  *)
(* counts as overlapping the sector before it.                             *)
NoneEmpty(d) == \A x \in Range(d.parts) \cup Range(AllSlices(d)) : x.size > 0
Regular == ~flawed /\ NoneEmpty(disk)

(* What get_gaps() offers can be used: a partition put there is accepted   *)
(* and stays inside the gap; and the same for a slice of a partition.      *)
GapsUsable ==
    Regular =>
        /\ \A g \in Range(DiskGaps(disk)) :
            LET r == InsertPartition(disk.parts, NewPart(FdNumPart, g.start, g.size, "other", FALSE))
            IN  /\ ~r.raised /\ "overlap" \notin r.errs /\ "start" \notin r.errs
                /\ g.start <= Last(r.kids).start /\ End(Last(r.kids)) <= End(g)
        /\ \A p \in Range(disk.parts) : \A g \in Range(PartitionGaps(p)) :
            LET r == InsertSlice(p.slices, Slc(15, g.start, g.size), p.size)
            IN  g.size >= CylSize /\ p.size >= CylSize =>
                    /\ ~r.raised /\ "overlap" \notin r.errs
                    /\ End(Last(r.kids)) <= End(g)

(* A child is in place: between two sectors and in none of its siblings.   *)
Within(x, siblings, from, to) ==
    /\ from <= x.start /\ End(x) <= to
    /\ \A y \in Range(siblings) :
          y.name # x.name => End(x) <= y.start \/ End(y) <= x.start
PartitionInPlace(d, p) ==
    IF Primary(p) THEN Within(p, SelectSeq(Live(d.parts), Primary), 0, DevSize)
    ELSE \E e \in Range(Live(d.parts)) :
            Extended(e) /\ Within(p, Logicals(Live(d.parts)), e.start, End(e))
SliceInPlace(s, siblings, size) == Within(s, NotBackup(siblings), 0, size)
Named(kids, name) == CHOOSE x \in Range(kids) : x.name = name

(* resize_partition() and resize_slice() either say that the space is      *)
(* missing or find a place for the new size: what was inside the disk, its *)
(* extended partition or its partition and apart from its siblings is so   *)
(* afterwards, whatever the validation says of it.                         *)
ResizeFinds ==
    [][/\ call' \in {"resize", "resize_logical", "resize_slice"}
       /\ answer' = "ok" /\ ops' = ops + 1 /\ Regular /\ NoneEmpty(disk')
       => IF call' = "resize_slice"
          THEN \A c \in {0} \cup DOMAIN disk.parts : Container(c)' # Container(c) =>
                  LET s == Last(Container(c)')
                  IN  SliceInPlace(Named(Container(c), s.name), Container(c), ContainerSize(c))
                      => SliceInPlace(s, Container(c)', ContainerSize(c))
          ELSE LET p == Last(disk'.parts)
               IN  PartitionInPlace(disk, Named(disk.parts, p.name)) => PartitionInPlace(disk', p)
      ]_layoutVars

(* A disk has one VTOC: the slices of two partitions would share it.       *)
OneVtoc == Cardinality({i \in DOMAIN disk.parts : disk.parts[i].slices # <<>>}) <= 1

(* A layout without a flaw can be written, and what it preserves is on the *)
(* disk afterwards as it was before.                                       *)
PreservedSurvives ==
    table.done /\ ~flawed /\ OneVtoc =>
        /\ ~table.hung
        /\ \A p \in Range(disk.parts) : p.action = "preserve" =>
            p.name \in DOMAIN table.rows /\ table.rows[p.name].start = p.start
                /\ table.rows[p.name].size = p.size
        /\ \A s \in Range(AllSlices(disk)) : s.action = "preserve" =>
            \E n \in DOMAIN table.vtoc : n = s.name /\ table.vtoc[n] = s

(* shadow/physical.py on what insert_partition() checks: "primary          *)
(* partitions are not larger than the Disk".                               *)
PrimariesOnDisk ==
    ~flawed => \A p \in Range(Live(disk.parts)) : Primary(p) => End(p) <= DevSize

(* shadow/physical.py when it places a logical partition: "make sure       *)
(* there's at least 63 sectors between logical partitions".                *)
BootRecordsApart ==
    ~flawed => LET logicals == Logicals(Live(disk.parts))
               IN  Apart([i \in 1 .. Len(logicals) |-> Span(logicals[i])])

(* What the shadow lists accept is sound, what they offer can be used, and *)
(* what is written keeps what was to be preserved.                         *)
LayoutSound == UnflawedIsSound /\ GapsUsable /\ PreservedSurvives
=============================================================================
