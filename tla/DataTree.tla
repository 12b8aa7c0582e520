------------------------------ MODULE DataTree ------------------------------
(***************************************************************************)
(* The tree of data objects of lib/install_doc/data_object, in which the   *)
(* engine, the checkpoints and the user interfaces keep what is to be      *)
(* installed: the children each object lists and the parent it knows,      *)
(* searches, paths, the snapshot of the persistent half and the manifest   *)
(* it is read from and written to.                                         *)
(***************************************************************************)
EXTENDS Naturals, Sequences, SequencesExt, FiniteSets

CONSTANTS
    MaxObjects,   \* bound: objects there ever are, the three of the cache included
    MaxOps,       \* bound: calls on the tree
    Kinds,        \* names and classes a program gives its objects
    Documents,    \* manifests it imports
    NoParent, NoName, NoSnapshot

ASSUME DataTreeAssumption ==
    /\ MaxObjects \in Nat /\ MaxObjects >= 3 /\ MaxOps \in Nat
    /\ \A k \in Kinds : k.cls \in {"simple", "hidden", "whole", "dict"}

VARIABLES
    tree,     \* kids: _children; parent: _parent; kind: name and class; born
    snapshot, \* the pickled persistent tree
    ops
treeVars == <<tree, snapshot, ops>>

Doc == 1
Persistent == 2
Volatile == 3
Node(k, kids) == [name |-> k.name, cls |-> k.cls, kids |-> kids]
Flat(f(_), s) == FoldLeft(LAMBDA acc, x : acc \o f(x), <<>>, s)
Held(t) == UNION {Range(t.kids[o]) : o \in DOMAIN t.kids}

RECURSIVE Below(_, _)
Below(t, o) == {o} \cup UNION {Below(t, c) : c \in Range(t.kids[o])}

-----------------------------------------------------------------------------
(* Searching                                                               *)

Matches(t, o, by) == /\ by.cls = "any" \/ t.kind[o].cls = by.cls
                     /\ by.name = "any" \/ t.kind[o].name = by.name

(* max_count and max_depth 0 are no limit.                                 *)
RECURSIVE GetDescendantsRecount(_, _, _, _, _)
GetDescendantsRecount(t, o, by, depth, count) ==
    LET Visit(found, c) ==
            LET own == IF Matches(t, c, by) THEN Append(found, c) ELSE found
            IN  IF count > 0 /\ Len(own) >= count THEN IF Len(found) >= count THEN found ELSE own
                ELSE IF depth = 1 THEN own
                ELSE own \o GetDescendantsRecount(t, c, by, IF depth = 0 THEN 0 ELSE depth - 1,
                                                  count)
    IN  FoldLeft(Visit, <<>>, t.kids[o])
RECURSIVE GetDescendants(_, _, _, _, _)
GetDescendants(t, o, by, depth, count) ==
    LET Visit(found, c) ==
            LET own == IF Matches(t, c, by) THEN Append(found, c) ELSE found
            IN  IF count > 0 /\ Len(found) >= count THEN found
                ELSE IF count > 0 /\ Len(own) >= count THEN own
                ELSE IF depth = 1 THEN own
                ELSE own \o GetDescendants(t, c, by, IF depth = 0 THEN 0 ELSE depth - 1,
                                           IF count = 0 THEN 0 ELSE count - Len(own))
    IN  FoldLeft(Visit, <<>>, t.kids[o])

(* A path is a sequence of steps, each to children or to all descendants.  *)
RECURSIVE FindPathFirst(_, _, _)
FindPathFirst(t, o, path) ==
    LET found == GetDescendants(t, o, Head(path).by, IF Head(path).deep THEN 0 ELSE 1, 1)
    IN  IF Len(path) = 1 \/ found = <<>> THEN found
        ELSE FindPathFirst(t, found[1], Tail(path))
RECURSIVE FindPath(_, _, _)
FindPath(t, o, path) ==
    LET step == Head(path)
        found == GetDescendants(t, o, step.by, IF step.deep THEN 0 ELSE 1, step.count)
    IN  IF Len(path) = 1 THEN found ELSE Flat(LAMBDA c : FindPath(t, c, Tail(path)), found)
RECURSIVE ObjectPath(_, _)
ObjectPath(t, o) ==
    IF t.parent[o] = NoParent THEN <<>>
    ELSE Append(ObjectPath(t, t.parent[o]),
                [by |-> [name |-> t.kind[o].name, cls |-> "any"], deep |-> FALSE, count |-> 0])

-----------------------------------------------------------------------------
(* Changing the tree                                                       *)

InsertChildrenOneParent(t, p, new, at) ==
    [t EXCEPT !.kids[p] = SubSeq(@, 1, at) \o new \o SubSeq(@, at + 1, Len(@)),
              !.parent[Head(new)] = p]
InsertChildren(t, p, new, at) ==
    [t EXCEPT !.kids[p] = SubSeq(@, 1, at) \o new \o SubSeq(@, at + 1, Len(@)),
              !.parent = [o \in DOMAIN @ |-> IF o \in Range(new) THEN p ELSE @[o]]]
DeleteChild(t, p, c) ==
    IF c \notin Range(t.kids[p]) THEN t
    ELSE [t EXCEPT !.kids[p] = Remove(@, c), !.parent[c] = NoParent]
DeleteChildren(t, p, gone) == FoldLeft(LAMBDA acc, c : DeleteChild(acc, p, c), t, gone)

(* delete() walks the list that each child takes itself out of, so that it *)
(* misses the one after.  It does not forget the parent, and raises at a   *)
(* child that has no delete(), with those before it gone.                  *)
RECURSIVE DeleteFrom(_, _, _)
DeleteObject(t, o) ==
    LET u == DeleteFrom(t, o, 1)
    IN  IF o \in {Persistent, Volatile} \/ u.raised \/ u.parent[o] = NoParent THEN u
        ELSE [u EXCEPT !.kids[u.parent[o]] = Remove(@, o)]
DeleteFrom(t, o, i) ==
    IF i > Len(t.kids[o]) \/ t.raised THEN t
    ELSE IF t.kind[t.kids[o][i]].cls = "dict" THEN [t EXCEPT !.raised = TRUE]
    ELSE DeleteFrom(DeleteObject(t, t.kids[o][i]), o, i + 1)

(* New objects under p, in the order of the nodes they are made from.      *)
RECURSIVE Graft(_, _, _)
Graft(t, p, nodes) ==
    FoldLeft(LAMBDA acc, n :
                LET o == acc.born + 1
                    made == [acc EXCEPT !.born = o, !.kind[o] = [name |-> n.name, cls |-> n.cls]]
                IN  Graft(InsertChildren(made, p, <<o>>, Len(made.kids[p])), o, n.kids),
             t, nodes)
RECURSIVE Size(_)
Size(nodes) == FoldLeft(LAMBDA acc, n : acc + 1 + Size(n.kids), 0, nodes)

-----------------------------------------------------------------------------
(* The snapshot and the manifest                                           *)

RECURSIVE Pickle(_, _)
Pickle(t, o) == Node(t.kind[o], [i \in 1 .. Len(t.kids[o]) |-> Pickle(t, t.kids[o][i])])
LoadOver(t, nodes) == Graft(t, Persistent, nodes)
LoadFromSnapshot(t, nodes) ==
    Graft(DeleteChildren(t, Persistent, t.kids[Persistent]), Persistent, nodes)

(* An object without an element leaves its children's to its parent's; one *)
(* that generates its children's has none appended; a name that is the     *)
(* tag is not written.                                                     *)
Element(k) == [tag |-> k.cls, name |-> IF k.cls = "dict" \/ k.name # k.cls THEN k.name ELSE NoName]
RECURSIVE CreateXmlTreeFlat(_, _)
CreateXmlTreeFlat(t, o) ==
    Flat(LAMBDA c : IF t.kind[c].cls = "hidden" THEN <<>>
                    ELSE <<[elem |-> Element(t.kind[c]), good |-> TRUE,
                            kids |-> CreateXmlTreeFlat(t, c)]>>,
         t.kids[o])
RECURSIVE CreateXmlTree(_, _)
CreateXmlTree(t, o) ==
    Flat(LAMBDA c : CASE t.kind[c].cls = "hidden" -> CreateXmlTree(t, c)
                      [] OTHER ->
                           <<[elem |-> Element(t.kind[c]), good |-> TRUE,
                              kids |-> IF t.kind[c].cls = "whole" THEN <<>>
                                       ELSE CreateXmlTree(t, c)]>>,
         t.kids[o])

(* A node no registered class handles gives no object, its children go to  *)
(* the object around it.  An element that cannot be read raises: what was  *)
(* made of the nodes before it stays.                                      *)
Handled(n) == n.elem.tag \in {"simple", "whole", "dict"}
FromXml(n) == [name |-> IF n.elem.name = NoName /\ n.elem.tag # "dict" THEN n.elem.tag ELSE n.elem.name,
               cls |-> n.elem.tag]
RECURSIVE CreateDocFromXml(_)
CreateDocFromXml(nodes) ==
    FoldLeft(LAMBDA acc, n :
                IF ~acc.ok THEN acc
                ELSE IF Handled(n) /\ ~n.good THEN [acc EXCEPT !.ok = FALSE]
                ELSE LET sub == CreateDocFromXml(n.kids)
                     IN  [ok |-> sub.ok,
                          nodes |-> acc.nodes \o IF Handled(n)
                                                 THEN <<Node(FromXml(n), sub.nodes)>>
                                                 ELSE sub.nodes],
             [ok |-> TRUE, nodes |-> <<>>], nodes)

-----------------------------------------------------------------------------
(* What a program calls.  It inserts an object that it made, or one that   *)
(* is in no list, and never below itself.                                  *)

Parents == {o \in 2 .. tree.born : tree.kind[o].cls # "dict"}
Call == ops < MaxOps /\ ops' = ops + 1
Becomes(t) == Call /\ tree' = [t EXCEPT !.raised = FALSE] /\ UNCHANGED snapshot

(* An unknown before or after raises before anything is inserted.  Objects *)
(* are checked one by one: those before one that is no data object stay.   *)
InsertNew(p, kind, at) ==
    /\ tree.born < MaxObjects
    /\ LET o == tree.born + 1
       IN  Becomes(InsertChildren([tree EXCEPT !.born = o, !.kind[o] = kind], p, <<o>>, at))
InsertAgain(p, new, at) ==
    /\ \A i \in DOMAIN new : new[i] \notin Held(tree) /\ p \notin Below(tree, new[i])
    /\ Becomes(InsertChildren(tree, p, new, at))
DeleteSome(p, by) ==
    Becomes(DeleteChildren(tree, p, SelectSeq(tree.kids[p], LAMBDA c : Matches(tree, c, by))))
DeleteOne(p, c) == Becomes(DeleteChildren(tree, p, <<c>>))
Delete(o) == Becomes(DeleteObject(tree, o))
ClearCache ==
    Becomes(DeleteChildren(DeleteChildren(tree, Persistent, tree.kids[Persistent]),
                           Volatile, tree.kids[Volatile]))
TakeSnapshot ==
    /\ Call /\ snapshot' = Pickle(tree, Persistent).kids
    /\ UNCHANGED tree
Load ==
    /\ snapshot # NoSnapshot
    /\ tree.born + Size(snapshot) <= MaxObjects
    /\ Becomes(LoadFromSnapshot(tree, snapshot))
ImportFromManifestXml(doc, base) ==
    /\ tree.born + Size(CreateDocFromXml(doc).nodes) <= MaxObjects
    /\ Becomes(Graft(tree, base, CreateDocFromXml(doc).nodes))

TreeInit ==
    /\ tree = [kids |-> [o \in 1 .. MaxObjects |->
                            IF o = Doc THEN <<Persistent, Volatile>> ELSE <<>>],
               parent |-> [o \in 1 .. MaxObjects |->
                              IF o \in {Persistent, Volatile} THEN Doc ELSE NoParent],
               kind |-> [o \in 1 .. MaxObjects |->
                            [name |-> CASE o = 2 -> "persistent" [] o = 3 -> "volatile"
                                        [] OTHER -> "none",
                             cls |-> IF o = Doc THEN "simple" ELSE "hidden"]],
               born |-> 3, raised |-> FALSE]
    /\ snapshot = NoSnapshot /\ ops = 0
TreeNext ==
    \/ \E p \in Parents, kind \in Kinds : \E at \in 0 .. Len(tree.kids[p]) : InsertNew(p, kind, at)
    \/ \E p \in Parents, c, d \in 4 .. tree.born :
            \/ InsertAgain(p, <<c>>, Len(tree.kids[p]))
            \/ c # d /\ InsertAgain(p, <<c, d>>, 0)
    \/ \E p \in Parents, k \in Kinds :
            \/ DeleteSome(p, [name |-> k.name, cls |-> "any"])
            \/ DeleteSome(p, [name |-> "any", cls |-> k.cls])
            \/ DeleteSome(p, k)
    \/ \E p \in Parents, c \in 4 .. tree.born : DeleteOne(p, c)
    \/ \E o \in Parents : Delete(o)
    \/ ClearCache \/ TakeSnapshot \/ Load
    \/ \E doc \in Documents, base \in {Persistent, Volatile} : ImportFromManifestXml(doc, base)
TreeSpec == TreeInit /\ [][TreeNext]_treeVars

-----------------------------------------------------------------------------
(* Properties                                                              *)

(* Whatever is inserted, deleted, moved and loaded, an object is in one    *)
(* list at most, once, and knows whose; no object is below itself.  Both   *)
(* the searches and object_path rest on it.                                *)
TreeSound ==
    /\ \A p \in 1 .. tree.born : \A i, j \in DOMAIN tree.kids[p] :
          i # j => tree.kids[p][i] # tree.kids[p][j]
    /\ \A p \in 1 .. tree.born : \A c \in Range(tree.kids[p]) :
          tree.parent[c] = p /\ p \notin Below(tree, c)

(* All objects below one, depth first, down to a depth (0: any).           *)
RECURSIVE Within(_, _, _)
Within(t, o, depth) ==
    Flat(LAMBDA c : <<c>> \o IF depth = 1 THEN <<>>
                            ELSE Within(t, c, IF depth = 0 THEN 0 ELSE depth - 1), t.kids[o])

(* A search returns what it says: of all objects below, depth first and no *)
(* deeper than asked, those that match, and of these the first max_count.  *)
SearchExact ==
    \A by \in [name : {"any", "a"}, cls : {"any", "simple"}], depth \in 0 .. 2, count \in 0 .. 2 :
        LET all == SelectSeq(Within(tree, Doc, depth), LAMBDA c : Matches(tree, c, by))
        IN  GetDescendants(tree, Doc, by, depth, count)
              = IF count = 0 \/ Len(all) < count THEN all ELSE SubSeq(all, 1, count)

(* The path an object in the cache has finds it.                           *)
PathFinds ==
    \A o \in Below(tree, Doc) \ {Doc} : o \in Range(FindPath(tree, Doc, ObjectPath(tree, o)))

(* Loading a snapshot brings the persistent tree back to what it was, and  *)
(* leaves the volatile one as it is.                                       *)
SnapshotRestores ==
    snapshot # NoSnapshot /\ tree.born + Size(snapshot) <= MaxObjects =>
        LET loaded == LoadFromSnapshot(tree, snapshot)
        IN  /\ Pickle(loaded, Persistent).kids = snapshot
            /\ Pickle(loaded, Volatile) = Pickle(tree, Volatile)

(* The nodes without those that have no element of their own.              *)
RECURSIVE Shown(_)
Shown(nodes) ==
    Flat(LAMBDA n : CASE n.cls = "hidden" -> Shown(n.kids)
                      [] n.cls = "whole" -> <<Node(n, <<>>)>>
                      [] OTHER -> <<Node(n, Shown(n.kids))>>, nodes)

(* The manifest written from a tree is read back into the same tree, but   *)
(* for the objects that have no element of their own.                      *)
ManifestReadBack ==
    LET back == CreateDocFromXml(CreateXmlTree(tree, Persistent))
    IN  back.ok /\ back.nodes = Shown(Pickle(tree, Persistent).kids)

(* The tree of data objects, its searches, its snapshots and its manifests *)
(* agree with each other.                                                  *)
DataTreeSound ==
    TreeSound /\ SearchExact /\ PathFinds /\ SnapshotRestores /\ ManifestReadBack
=============================================================================
