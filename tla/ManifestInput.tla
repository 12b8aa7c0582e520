--------------------------- MODULE ManifestInput ---------------------------
(***************************************************************************)
(* The manifest input module (lib/install_manifest_input/mim.py), with     *)
(* which the script of a derived manifest builds the manifest: aimanifest  *)
(* commands, each of which reads the evolving file, sets, adds, gets,      *)
(* loads or validates, and writes the file back.                           *)
(*                                                                         *)
(* A node of a document is a tag, a text, attributes and the nodes in it,  *)
(* comments included; its position is the sequence of indices that leads   *)
(* to it.  The text None of a node is the empty one, and white space       *)
(* around a text is left out.                                              *)
(***************************************************************************)
EXTENDS SchemaData

CONSTANTS
    DtdFiles,    \* the DTD files there are, by name
    Xmls,        \* the documents there are to load, by name
    Wishes,      \* what a script may ask of aimanifest
    AimDtds,     \* values of AIM_DTD in its environment
    OldFiles,    \* what AIM_MANIFEST may hold at first
    MaxCommands, \* bound: commands of a script
    MaxChildren, \* bound: children of an element that are looked at in GivenBack
    Nil

VARIABLES
    evfile, \* the evolving manifest: Nil, or its DOCTYPE and its root
    env,    \* AIM_DTD
    mim,    \* the ManifestInput of the running command
    command \* wish: what it was asked, at: how far it is; rc, path and value: its answer
mimVars == <<evfile, env, mim, command>>

XNode(tag, text, attrs, kids) == [tag |-> tag, text |-> text, attrs |-> attrs, kids |-> kids]
Comment == "#comment"
IsComment(node) == node.tag = Comment
Document(doctype, root) == [doctype |-> doctype, root |-> root]
Unreadable(doc) == doc.root = Nil

RECURSIVE Positions(_)
Positions(node) ==
    {<<>>} \cup UNION {{<<i>> \o p : p \in Positions(node.kids[i])} : i \in DOMAIN node.kids}
RECURSIVE NodeAt(_, _)
NodeAt(node, p) == IF p = <<>> THEN node ELSE NodeAt(node.kids[p[1]], Tail(p))
RECURSIVE PutNode(_, _, _)
PutNode(node, p, new) ==
    IF p = <<>> THEN new ELSE [node EXCEPT !.kids[p[1]] = PutNode(@, Tail(p), new)]
InsertKids(node, i, new) ==
    [node EXCEPT !.kids = SubSeq(@, 1, i - 1) \o new \o SubSeq(@, i, Len(@))]

-----------------------------------------------------------------------------
(* Paths.  A branch is a tag with a predicate: a value of its own, or that *)
(* of a node or of an attribute in it, or a number.  A path may start      *)
(* anywhere, and may end in an attribute, with or without a value.         *)

Plain(tag) == [tag |-> tag, pred |-> Nil]
Is(value) == [sub |-> <<>>, attr |-> "", value |-> value, own |-> TRUE]
Has(sub, attr, value) == [sub |-> sub, attr |-> attr, value |-> value, own |-> FALSE]
Nth(n) == [nth |-> n]
Path(mid, branches) == [mid |-> mid, branches |-> branches, attr |-> Nil, is |-> Nil]

KidsByTag(root, p, tag) == {p \o <<i>> : i \in {j \in DOMAIN NodeAt(root, p).kids :
                                                 NodeAt(root, p).kids[j].tag = tag}}
ByTags(root, p, tags) ==
    FoldLeft(LAMBDA ps, tag : UNION {KidsByTag(root, q, tag) : q \in ps}, {p}, tags)
AttrIs(node, attr, value) == attr \in DOMAIN node.attrs /\ node.attrs[attr] = value
Meets(root, p, pred) ==
    IF pred = Nil THEN TRUE
    ELSE IF "nth" \in DOMAIN pred
    THEN pred.nth = IF p = <<>> THEN 1
                    ELSE Cardinality({q \in KidsByTag(root, Front(p), NodeAt(root, p).tag) :
                                        Last(q) <= Last(p)})
    ELSE \E q \in ByTags(root, p, pred.sub) :
            IF pred.attr = "" THEN NodeAt(root, q).text = pred.value
            ELSE AttrIs(NodeAt(root, q), pred.attr, pred.value)

(* The value of the last branch is split off a path that is searched, and  *)
(* an attribute at its end, unless a value makes it a predicate too.       *)
PathPreprocess(path, strip) ==
    LET n == Len(path.branches)
        branches == IF path.is = Nil THEN path.branches
                    ELSE [path.branches EXCEPT ![n].pred = Has(<<>>, path.attr, path.is)]
        last == branches[n].pred
        split == strip /\ last # Nil /\ "own" \in DOMAIN last /\ last.own
    IN  [mid |-> path.mid,
         branches |-> IF split THEN [branches EXCEPT ![n].pred = Nil] ELSE branches,
         final |-> IF split THEN last.value ELSE Nil,
         attr |-> IF path.is = Nil THEN path.attr ELSE Nil]

(* The value that was split off only narrows several matches down.         *)
XpathSearch(root, mid, branches, final) ==
    LET Down(ps, b) == {q \in UNION {KidsByTag(root, p, b.tag) : p \in ps} : Meets(root, q, b.pred)}
        first == {p \in IF mid THEN Positions(root) ELSE {<<>>} :
                    NodeAt(root, p).tag = branches[1].tag /\ Meets(root, p, branches[1].pred)}
        found == FoldLeft(Down, first, Tail(branches))
    IN  IF Cardinality(found) > 1 /\ final # Nil
        THEN {p \in found : NodeAt(root, p).text = final} ELSE found
The(found) == CHOOSE p \in found : TRUE

-----------------------------------------------------------------------------
(* The methods of ManifestInput: each returns the instance it leaves, with *)
(* the error it raises, the path of the node and the value it returns.     *)

(* The tables of each DTD.                                                 *)
SchemaTables == [dtd \in DOMAIN DtdFiles |-> Digest(DtdFiles, dtd).table]
Table(m) == SchemaTables[m.schema]

Raise(m, err) == [m EXCEPT !.err = err]
LoadSchema(m, dtd) ==
    IF dtd = Nil THEN Raise(m, "no schema")
    ELSE LET digest == Digest(DtdFiles, dtd)
         IN  IF digest.err # "" THEN Raise(m, digest.err)
             ELSE [m EXCEPT !.schema = dtd]

NewManifestInput(file, dtd) ==
    LET there == file # Nil
        doctype == IF there THEN file.doctype ELSE Nil
        m == [root |-> IF there THEN file.root ELSE Nil, doctype |-> doctype,
              schema |-> Nil, mfest |-> doctype, init |-> dtd, overlay |-> Nil,
              err |-> "", path |-> Nil, value |-> Nil]
        asked == IF dtd # Nil THEN dtd ELSE doctype
    IN  IF there /\ Unreadable(file) THEN Raise(m, "parse")
        ELSE IF asked = Nil THEN m ELSE LoadSchema(m, asked)

SetValueAnew(m, path, value) ==
    LET pre == PathPreprocess(path, TRUE)
        found == XpathSearch(m.root, pre.mid, pre.branches, pre.final)
        p == The(found)
        new == IF pre.attr = Nil THEN [NodeAt(m.root, p) EXCEPT !.text = value]
               ELSE XNode(NodeAt(m.root, p).tag, value, pre.attr :> value, <<>>)
    IN  IF m.root = Nil THEN Raise(m, "empty")
        ELSE IF Cardinality(found) # 1 THEN Raise(m, "match")
        ELSE [m EXCEPT !.root = PutNode(@, p, new), !.path = p]
SetValue(m, path, value) ==
    LET pre == PathPreprocess(path, TRUE)
        found == XpathSearch(m.root, pre.mid, pre.branches, pre.final)
        p == The(found)
        node == NodeAt(m.root, p)
        new == IF pre.attr = Nil THEN [node EXCEPT !.text = value]
               ELSE [node EXCEPT !.attrs = (pre.attr :> value) @@ @]
    IN  IF m.root = Nil THEN Raise(m, "empty")
        ELSE IF Cardinality(found) # 1 THEN Raise(m, "match")
        ELSE [m EXCEPT !.root = PutNode(@, p, new), !.path = p]

GetValue(m, path) ==
    LET pre == PathPreprocess(path, TRUE)
        found == XpathSearch(m.root, pre.mid, pre.branches, pre.final)
        p == The(found)
        node == NodeAt(m.root, p)
    IN  IF m.root = Nil THEN Raise(m, "empty")
        ELSE IF Cardinality(found) # 1 THEN Raise(m, "match")
        ELSE IF pre.attr # Nil /\ pre.attr \notin DOMAIN node.attrs THEN Raise(m, "no attribute")
        ELSE [m EXCEPT !.path = p,
                       !.value = IF pre.attr = Nil THEN node.text ELSE node.attrs[pre.attr]]

(* The first child with a tag, and where a child with others goes: before  *)
(* the first it is known to precede, or else at the end.                   *)
SearchChildren(parent, tag) == SelectInSeq(parent.kids, LAMBDA kid : kid.tag = tag)
FindInsertionIndexAfter(before, parent) ==
    LET known == SelectInSeq(before, LAMBDA tag : SearchChildren(parent, tag) # 0)
    IN  IF known = 0 THEN Len(parent.kids) + 1 ELSE SearchChildren(parent, before[known]) + 1
FindInsertionIndex(before, parent) ==
    LET known == SelectInSeq(before, LAMBDA tag : SearchChildren(parent, tag) # 0)
    IN  IF known = 0 THEN Len(parent.kids) + 1 ELSE SearchChildren(parent, before[known])
AfterRun(kids, from, Other(_)) ==
    LET others == {i \in from + 1 .. Len(kids) : Other(kids[i])}
    IN  IF others = {} THEN Len(kids) + 1 ELSE CHOOSE i \in others : \A j \in others : i <= j

(* One plain branch at a time: follow the node there is, or make one where *)
(* there is none or there may be several.                                  *)
InfoFor(m, parent, tag) ==
    IF m.schema = Nil THEN [placed |-> TRUE, before |-> <<>>, mults |-> TRUE]
    ELSE FindElementInfo(Table(m), parent.tag, tag)
AddBranch(a, tag, isLast, parent, info) ==
    LET same == SearchChildren(parent, tag)
        MakeAt(i) == [a EXCEPT !.at = @ \o <<i>>,
                               !.root = PutNode(@, a.at, InsertKids(parent, i,
                                           <<XNode(tag, "", <<>>, <<>>)>>))]
    IN  IF a.err # "" THEN a
        ELSE IF ~info.placed THEN Raise(a, "placement")
        ELSE IF same = 0 THEN MakeAt(FindInsertionIndex(info.before, parent))
        ELSE IF info.mults THEN MakeAt(AfterRun(parent.kids, same, LAMBDA k : k.tag # tag))
        ELSE IF isLast THEN Raise(a, "duplicate leaf")
        ELSE [a EXCEPT !.at = @ \o <<same>>]
AddBranches(m, p, branches) ==
    LET Parent(a) == NodeAt(a.root, a.at)
        Walk(a, tag) ==
            AddBranch(a, tag, tag = Last(branches), Parent(a), InfoFor(a, Parent(a), tag))
        start == [k \in DOMAIN m \cup {"at"} |-> IF k = "at" THEN p ELSE m[k]]
    IN  FoldLeft(Walk, start, branches)

(* What was added ends in a leaf, which gets the value.                    *)
FillLeaf(base, added, attr, value) ==
    LET leaf == NodeAt(added.root, added.at)
        new == IF attr = Nil THEN [leaf EXCEPT !.text = value]
               ELSE [leaf EXCEPT !.attrs = (attr :> value) @@ @]
    IN  IF added.err # "" THEN Raise([base EXCEPT !.root = added.root], added.err)
        ELSE [base EXCEPT !.root = PutNode(added.root, added.at, new), !.path = added.at]

AddElement(m, path, value) ==
    LET pre == PathPreprocess(path, FALSE)
        b == pre.branches
        tags == [i \in DOMAIN b |-> b[i].tag]
        base == IF m.root = Nil THEN [m EXCEPT !.root = XNode(tags[1], "", <<>>, <<>>)] ELSE m
        root == base.root
        second == /\ m.root # Nil
                  /\ IF pre.mid THEN Len(b) = 1 /\ tags[1] = root.tag
                     ELSE Len(b) = 1 \/ (b[1].pred = Nil /\ tags[1] # root.tag)
        \* the branches up to the last one that is not plain
        bound == {i \in DOMAIN b : b[i].pred # Nil}
        left == IF bound = {} THEN 0 ELSE CHOOSE i \in bound : \A j \in bound : j <= i
        targets == XpathSearch(root, pre.mid, SubSeq(b, 1, left), Nil)
        right == SubSeq(tags, left + 1, Len(b))
        way == FindParentPath(Table(base), root.tag, tags[1])
        added == IF left > 0 THEN AddBranches(base, The(targets), right)
                 ELSE IF pre.mid THEN AddBranches(base, <<>>, Tail(way) \o Tail(right))
                 ELSE AddBranches(base, <<>>, Tail(right))
    IN  IF b[Len(b)].pred # Nil THEN Raise(m, "final value")
        ELSE IF second THEN Raise(m, "second root")
        ELSE IF left > 0 /\ Cardinality(targets) # 1 THEN Raise(base, "parent")
        ELSE IF left = 0 /\ pre.mid /\ base.schema = Nil THEN Raise(base, "no schema data")
        ELSE IF left = 0 /\ pre.mid /\ way = <<>> THEN Raise(base, "parent")
        ELSE FillLeaf(base, added, pre.attr, value)

-----------------------------------------------------------------------------
(* Overlays: a document laid over the tree, element by element.            *)

(* Put an element under a parent, after the comments that were before it.  *)
(* "at" is the child that its own children are to be laid over, if any.    *)
OverlayProcess(table, parent, element, comments) ==
    LET info == FindElementInfo(table, parent.tag, element.tag)
        same == SearchChildren(parent, element.tag)
        Put(new) == [parent |-> new, at |-> 0, err |-> ""]
        others == AfterRun(parent.kids, same, LAMBDA k : ~IsComment(k) /\ k.tag # element.tag)
        gone == [parent EXCEPT !.kids = RemoveAt(@, same)]
        merged == [parent EXCEPT !.kids[same].attrs = element.attrs @@ @,
                                 !.kids[same].text = element.text]
    IN  IF ~info.placed THEN [parent |-> parent, at |-> 0, err |-> "placement"]
        ELSE IF same # 0 /\ info.mults THEN Put(InsertKids(parent, others, comments \o <<element>>))
        ELSE IF same # 0 /\ element.kids = <<>>
        THEN Put(InsertKids(gone, same, comments \o <<element>>))
        ELSE IF same # 0
        THEN [parent |-> InsertKids(merged, same, comments), at |-> same + Len(comments), err |-> ""]
        ELSE IF info.before = <<>> /\ parent.kids # <<>>
        THEN Put([parent EXCEPT !.kids = @ \o Append(Reverse(comments), element)])
        ELSE Put(InsertKids(parent, FindInsertionIndex(info.before, parent),
                            comments \o <<element>>))

(* Comments are amassed until the element they precede.                    *)
RECURSIVE OverlayRecurse(_, _, _, _)
OverlayRest(table, kids, laid, down) ==
    LET done == [laid.parent EXCEPT !.kids[laid.at] = down.parent]
    IN  IF down.err # "" THEN [parent |-> done, err |-> down.err]
        ELSE OverlayRecurse(table, done, Tail(kids), <<>>)
OverlayBelow(table, kids, laid) ==
    IF laid.err # "" THEN laid
    ELSE IF laid.at = 0 THEN OverlayRecurse(table, laid.parent, Tail(kids), <<>>)
    ELSE OverlayRest(table, kids, laid,
                     OverlayRecurse(table, laid.parent.kids[laid.at], Head(kids).kids, <<>>))
OverlayRecurse(table, parent, kids, comments) ==
    IF kids = <<>> THEN [parent |-> parent, err |-> ""]
    ELSE IF IsComment(Head(kids))
    THEN OverlayRecurse(table, parent, Tail(kids), Append(comments, Head(kids)))
    ELSE OverlayBelow(table, kids, OverlayProcess(table, parent, Head(kids), comments))

(* A fresh tree brings its DTD; an overlay lends its own if there is none. *)
(* An overlay that is but a root replaces the tree, DOCTYPE included.      *)
LoadXml(m, name, incremental) ==
    LET doc == Xmls[name]
        fresh == [m EXCEPT !.root = doc.root, !.doctype = doc.doctype, !.mfest = doc.doctype]
        lent == LoadSchema(m, doc.doctype)
        s == IF m.schema # Nil THEN m ELSE [lent EXCEPT !.overlay = doc.doctype]
        laid == OverlayRecurse(Table(s), s.root, doc.root.kids, <<>>)
    IN  IF name \notin DOMAIN Xmls \/ Unreadable(doc) THEN Raise(m, "parse")
        ELSE IF ~incremental \/ m.root = Nil
        THEN IF doc.doctype # Nil /\ m.schema = Nil THEN LoadSchema(fresh, doc.doctype) ELSE fresh
        ELSE IF m.schema = Nil /\ lent.err # "" THEN lent
        ELSE IF doc.root.kids = <<>> THEN [s EXCEPT !.root = doc.root, !.doctype = Nil]
        ELSE [s EXCEPT !.root = laid.parent, !.err = laid.err]

-----------------------------------------------------------------------------
(* What a validator goes by: the declarations of all files of a DTD.       *)
RECURSIVE Lines(_)
Lines(file) ==
    LET own == Range(DtdFiles[file])
    IN  own \cup UNION {Lines(l.file) : l \in {e \in own : e.is = "entity" /\ Use(e.ref) \in own}}
Declared(dtd) == {l \in Lines(dtd) : l.is = "element"}
KidTags(node) ==
    LET elements == SelectSeq(node.kids, LAMBDA k : ~IsComment(k))
    IN  [i \in DOMAIN elements |-> elements[i].tag]
ValidNode(dtd, node) ==
    \E l \in Declared(dtd) : l.tag = node.tag /\ Accepts(l.content, KidTags(node))
ValidTree(dtd, root) ==
    \A p \in Positions(root) : IsComment(NodeAt(root, p)) \/ ValidNode(dtd, NodeAt(root, p))

Validate(m) ==
    IF m.schema = Nil THEN Raise(m, "no schema")
    ELSE IF m.root = Nil THEN Raise(m, "empty")
    ELSE IF ValidTree(m.schema, m.root) THEN m ELSE Raise(m, "invalid")

(* The DOCTYPE that was asked for replaces the first line if the manifest  *)
(* came with one: all there is, when the tree has lost its own since.      *)
WrittenBare(m) ==
    IF m.init # Nil THEN Document(m.init, m.root) ELSE Document(m.doctype, m.root)
Written(m) ==
    IF m.init # Nil
    THEN Document(m.init, IF m.mfest # Nil /\ m.doctype = Nil THEN Nil ELSE m.root)
    ELSE IF m.overlay # Nil /\ m.mfest = Nil THEN Document(m.overlay, m.root)
    ELSE Document(m.doctype, m.root)

-----------------------------------------------------------------------------
(* The aimanifest command                                                  *)

Idle == [at |-> "idle", wish |-> Nil, old |-> Nil, status |-> "", n |-> 0]

ManifestInputInit ==
    /\ evfile \in OldFiles
    /\ env \in AimDtds
    /\ mim = Nil
    /\ command = Idle

(* It is called: the file is read anew, as is the DTD.                     *)
Open(wish) ==
    LET m == NewManifestInput(evfile, env)
    IN  /\ command.at = "idle"
        /\ command.n < MaxCommands
        /\ mim' = m
        /\ command' = [at |-> IF m.err = "" THEN "opened" ELSE "failed", wish |-> wish,
                       old |-> evfile, status |-> "", n |-> command.n + 1]
        /\ UNCHANGED <<evfile, env>>

Runs(do, m, next) ==
    /\ command.at = "opened"
    /\ command.wish.do = do
    /\ mim' = m
    /\ command' = [command EXCEPT !.at = IF m.err = "" THEN next ELSE "failed"]
    /\ UNCHANGED <<evfile, env>>
SetCommand ==
    Runs("set", SetValue(mim, command.wish.path, command.wish.value), "changed")
AddCommand ==
    Runs("add", AddElement(mim, command.wish.path, command.wish.value), "changed")
GetCommand == Runs("get", GetValue(mim, command.wish.path), "answered")
LoadCommand ==
    Runs("load", LoadXml(mim, command.wish.file, command.wish.incremental), "changed")
ValidateCommand == Runs("validate", Validate(mim), "answered")

(* Not validated before; on a full disk the file is left empty or cut.     *)
Commit ==
    LET empty == mim.root = Nil
    IN  /\ command.at = "changed"
        /\ IF empty THEN evfile' = evfile
           ELSE IF command.wish.full THEN evfile' \in {Nil, Document(Nil, Nil)}
           ELSE evfile' = Written(mim)
        /\ command' = [command EXCEPT
                         !.at = IF empty \/ command.wish.full THEN "failed" ELSE "committed"]
        /\ UNCHANGED <<env, mim>>

LogFinalStatus ==
    /\ command.at = "committed" /\ command.status = ""
    /\ command' = [command EXCEPT !.status = IF Validate(mim).err = "" THEN "Pass" ELSE "Fail"]
    /\ UNCHANGED <<evfile, env, mim>>

Exit ==
    /\ \/ command.at \in {"failed", "answered"}
       \/ command.at = "committed" /\ command.status # ""
    /\ mim' = Nil
    /\ command' = [Idle EXCEPT !.n = command.n]
    /\ UNCHANGED <<evfile, env>>

ManifestInputNext ==
    \/ \E wish \in Wishes : Open(wish)
    \/ SetCommand \/ AddCommand \/ GetCommand \/ LoadCommand \/ ValidateCommand
    \/ Commit \/ LogFinalStatus \/ Exit
-----------------------------------------------------------------------------
(* Properties                                                              *)

Bare(node) == [node EXCEPT !.kids = <<>>]
RemoveAtPosition(root, p) ==
    LET parent == NodeAt(root, Front(p))
    IN  PutNode(root, Front(p), [parent EXCEPT !.kids = RemoveAt(@, Last(p))])
Changed(do) == command.at = "changed" /\ command.wish.do = do
Before == command.old.root
Now == mim.root

(* A command that fails, and one that only asks, leaves the evolving file  *)
(* as it found it, unless the disk ran full under its write.               *)
FailureKeepsFile ==
    command.at \in {"failed", "answered"} =>
        \/ evfile = command.old
        \/ command.wish.full /\ (evfile = Nil \/ Unreadable(evfile))

(* What a command committed is what the next one reads, under the same DTD *)
(* if the tree is still the one it read.  A tree whose root an overlay     *)
(* replaced is lost where AIM_DTD is set and its file named a DTD.         *)
CommitReadBack ==
    command.at = "committed" =>
        LET next == NewManifestInput(evfile, env)
            replaced == mim.doctype = Nil /\ mim.mfest # Nil
        IN  IF replaced /\ env # Nil THEN Unreadable(evfile)
            ELSE /\ next.root = mim.root
                 /\ (~replaced /\ ~(command.wish.do = "load" /\ ~command.wish.incremental)
                        => next.err = "" /\ next.schema = mim.schema)

(* set changes the text or an attribute of the node it names, and nothing  *)
(* else in the document.                                                   *)
SetChangesOne ==
    Changed("set") =>
        /\ Positions(Now) = Positions(Before)
        /\ \A p \in Positions(Now) \ {mim.path} : Bare(NodeAt(Now, p)) = Bare(NodeAt(Before, p))
        /\ LET path == command.wish.path
               node == NodeAt(Now, mim.path)
           IN  IF path.attr # Nil /\ path.is = Nil
               THEN /\ AttrIs(node, path.attr, command.wish.value)
                    /\ node.text = NodeAt(Before, mim.path).text
                    /\ \A a \in DOMAIN NodeAt(Before, mim.path).attrs \ {path.attr} :
                          AttrIs(node, a, NodeAt(Before, mim.path).attrs[a])
               ELSE node.text = command.wish.value /\ node.attrs = NodeAt(Before, mim.path).attrs

(* add makes one chain of nodes that ends in the one it names, with its    *)
(* value: without it the document is what it was.  No node gets two        *)
(* children of a tag that may be there once.                               *)
Single(table, root) ==
    \A p \in Positions(root) :
        LET kids == NodeAt(root, p).kids
        IN  \A i, j \in DOMAIN kids :
              i # j /\ kids[i].tag = kids[j].tag /\ ~IsComment(kids[i]) =>
                FindElementInfo(table, NodeAt(root, p).tag, kids[i].tag).mults
Placed(table, root) ==
    \A p \in Positions(root) \ {<<>>} :
        \/ IsComment(NodeAt(root, p))
        \/ FindElementInfo(table, NodeAt(root, Front(p)).tag, NodeAt(root, p).tag).placed
AddAddsOne ==
    Changed("add") /\ command.old # Nil =>
        /\ \E n \in 1 .. Len(mim.path) :
              /\ RemoveAtPosition(Now, SubSeq(mim.path, 1, n)) = Before
              /\ \A k \in n .. Len(mim.path) :
                    Len(NodeAt(Now, SubSeq(mim.path, 1, k)).kids) = IF k = Len(mim.path) THEN 0 ELSE 1
        /\ LET path == command.wish.path
               node == NodeAt(Now, mim.path)
           IN  /\ node.tag = Last(path.branches).tag
               /\ IF path.attr = Nil THEN node.text = command.wish.value
                  ELSE AttrIs(node, path.attr, command.wish.value)

(* Whatever is added or laid over, elements are below those the DTD lists  *)
(* them for, and there are two only where there may be.                    *)
StaysPlaced ==
    command.at = "changed" /\ command.old # Nil /\ mim.schema # Nil /\ Now # Nil =>
        LET given == command.wish.do = "load"
            Sound(root) == Placed(Table(mim), root) /\ Single(Table(mim), root)
        IN  /\ Sound(Before)
            /\ (given => Sound(Xmls[command.wish.file].root))
            => Sound(Now)

(* An overlay leaves what it does not name: of a path of tags that is not  *)
(* one of the overlay's, nor below a leaf of it, all nodes are still there. *)
(* And all nodes of the overlay are there, but comments after the last     *)
(* element.                                                                *)
Tags(root, p) == [n \in DOMAIN p |-> NodeAt(root, SubSeq(p, 1, n)).tag]
NodesOf(root, tags) ==
    {Bare(NodeAt(root, p)) : p \in {q \in Positions(root) : Tags(root, q) = tags}}
Extends(x, y) ==
    x.text = y.text /\ \A a \in DOMAIN y.attrs : AttrIs(x, a, y.attrs[a])
Trailing(root, p) ==
    \A i \in Last(p) .. Len(NodeAt(root, Front(p)).kids) : IsComment(NodeAt(root, Front(p)).kids[i])
OverlayKeeps ==
    Changed("load") /\ command.wish.incremental /\ command.old # Nil =>
        LET over == Xmls[command.wish.file].root
            ways == {Tags(over, p) : p \in Positions(over)}
            leaves == {Tags(over, q) : q \in {p \in Positions(over) : NodeAt(over, p).kids = <<>>}}
        IN  over.kids # <<>> =>
              /\ \A p \in Positions(Before) :
                    LET tags == Tags(Before, p)
                    IN  \/ tags \in ways
                        \/ \E leaf \in leaves : leaf # <<>> /\ IsPrefix(leaf, tags)
                        \/ Bare(NodeAt(Before, p)) \in NodesOf(Now, tags)
              /\ \A p \in Positions(over) \ {<<>>} :
                    \/ Trailing(over, p)
                    \/ \E x \in NodesOf(Now, Tags(over, p)) : Extends(x, NodeAt(over, p))

(* A child that is taken out of children a DTD accepts, and put back where *)
(* it is said to belong, leaves children the DTD accepts - if one is there *)
(* that it is known to precede, or none can be.                            *)
Bald(tags) == [i \in DOMAIN tags |-> XNode(tags[i], "", <<>>, <<>>)]
GivenBack(dtd) ==
    LET table == SchemaTables[dtd]
        Children(l) ==
            {s \in UNION {[1 .. n -> {t \in DOMAIN table : FindElementInfo(table, l.tag, t).placed}] :
                           n \in 1 .. MaxChildren} : Accepts(l.content, s)}
        Back(l, s, i) ==
            LET rest == XNode(l.tag, "", <<>>, Bald(RemoveAt(s, i)))
                info == FindElementInfo(table, l.tag, s[i])
                same == SearchChildren(rest, s[i])
                at == IF same # 0 THEN AfterRun(rest.kids, same, LAMBDA k : k.tag # s[i])
                      ELSE FindInsertionIndex(info.before, rest)
            IN  \/ Accepts(l.content, KidTags(InsertKids(rest, at, Bald(<<s[i]>>))))
                \/ same = 0 /\ info.before # <<>> /\ at = Len(s)
    IN  \A l \in Declared(dtd) : \A s \in Children(l) : \A i \in DOMAIN s : Back(l, s, i)

(* A manifest that a script builds is changed where it says and only there,*)
(* and what is committed is what the next command reads.                   *)
ManifestInputSound ==
    /\ FailureKeepsFile /\ CommitReadBack /\ SetChangesOne /\ AddAddsOne
    /\ StaysPlaced /\ OverlayKeeps
    /\ (command.n = 0 => \A dtd \in {d \in DOMAIN DtdFiles : Digest(DtdFiles, d).err = ""} : GivenBack(dtd))
=============================================================================
