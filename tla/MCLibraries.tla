---------------------------- MODULE MCLibraries ----------------------------
(***************************************************************************)
(* The libraries the installers share, one looked at at a time: the linked *)
(* list in C, the error service between C and Python, the tree of data     *)
(* objects, and the manifest input module.                                 *)
(***************************************************************************)
EXTENDS LinkedList, ErrorService, DataTree, ManifestInput

(* Objects of a class that is written with its children, of one that is    *)
(* not, of one that writes its children itself, and of a dictionary.       *)
Kind(name, class) == [name |-> name, cls |-> class]
TheKinds == {Kind("a", "simple"), Kind("a", "hidden"), Kind("whole", "whole"), Kind("a", "dict")}
(* Manifests with a tag that no class handles and with one that is refused.*)
Xml(tag, name, good, kids) == [elem |-> [tag |-> tag, name |-> name], good |-> good, kids |-> kids]
TheDocuments ==
    {<<Xml("other", NoName, TRUE,
           <<Xml("simple", NoName, TRUE, <<Xml("simple", "a", TRUE, <<>>)>>),
             Xml("dict", "a", TRUE, <<>>)>>)>>,
     <<Xml("simple", "a", TRUE,
           <<Xml("dict", "a", FALSE, <<>>), Xml("simple", "b", TRUE, <<>>)>>),
       Xml("simple", "b", TRUE, <<>>)>>}

(* A DTD of two files with an optional list, alternatives and a repeated   *)
(* group in parentheses, another for the same root, and one that uses an   *)
(* entity it does not declare.                                             *)
Parts(sep, parts) == Group(sep, parts, "1")
One(tag) == Elt(tag, "1")
TheDtds ==
    "ai" :> <<Entity("t", "target"), Use("t"),
              Declare("ai", Parts(",", <<Elt("target", "?"), Elt("software", "+"), Elt("sc", "*")>>)),
              Declare("software", Parts(",", <<Elt("dest", "?"),
                  Group("|", <<Elt("publisher", "+"), One("dir")>>, "?"), Elt("data", "*")>>)),
              Declare("sc", Parts(",", <<Group("|", <<One("arg"), One("list")>>, "+")>>)),
              Declare("data", Parts(",", <<Elt("name", "*")>>)),
              Declare("dest", One("#PCDATA")), Declare("publisher", One("#PCDATA")),
              Declare("dir", One("EMPTY")), Declare("name", One("#PCDATA")),
              Declare("arg", One("#PCDATA")), Declare("list", One("#PCDATA"))>>
    @@ "target" :> <<Declare("target", Parts(",", <<Elt("disk", "*"), Elt("zpool", "?")>>)),
                     Declare("zpool", Parts(",", <<Elt("vdev", "*"), Elt("fs", "*"), Elt("zvol", "*")>>)),
                     Declare("disk", One("EMPTY")), Declare("vdev", One("EMPTY")),
                     Declare("fs", One("EMPTY")), Declare("zvol", One("EMPTY"))>>
    @@ "plain" :> <<Declare("ai", Elt("software", "*")), Declare("software", One("EMPTY"))>>
    @@ "broken" :> <<Use("none")>>
Leaf(tag, text) == XNode(tag, text, <<>>, <<>>)
Inner(tag, kids) == XNode(tag, "", <<>>, kids)
Named(tag, name, kids) == XNode(tag, "", "name" :> name, kids)
Remark(text) == Leaf(Comment, text)
TheXmls ==
    "base" :> Document("ai", Inner("ai",
        <<Inner("target", <<Named("disk", "d1", <<>>), Inner("zpool", <<Leaf("fs", "f")>>)>>),
          Named("software", "s1", <<Leaf("dest", "v"), Leaf("publisher", "v"), Remark("c"),
                                    Inner("data", <<Leaf("name", "v")>>)>>)>>))
    @@ "over" :> Document("ai", Inner("ai",
        <<Remark("c1"), Remark("c2"),
          Inner("target", <<Remark("c3"), Named("disk", "d2", <<>>),
                            Inner("zpool", <<Leaf("vdev", ""), Leaf("zvol", "")>>)>>),
          Named("software", "s2", <<Leaf("dest", "w")>>),
          Remark("c1"), Remark("c2"), Inner("sc", <<Leaf("arg", "w")>>), Remark("c4")>>))
    @@ "leaf" :> Document(Nil, Leaf("ai", ""))
    @@ "bare" :> Document(Nil, Inner("ai", <<Named("software", "s3", <<>>), Inner("target", <<>>)>>))
    @@ "other" :> Document("plain", Inner("ai", <<Inner("software", <<>>)>>))
    @@ "bad" :> Document("ai", Inner("ai", <<Inner("disk", <<>>)>>))
    @@ "broken" :> Document("broken", Leaf("ai", ""))
    @@ "cut" :> Document(Nil, Nil)
TheOldFiles == {Nil, TheXmls["base"], TheXmls["bare"]}

Wish(do) == [do |-> do, path |-> Nil, value |-> "", file |-> "", incremental |-> FALSE, full |-> FALSE]
OnPath(do, path, value) == [Wish(do) EXCEPT !.path = path, !.value = value]
Loading(file, incremental) == [Wish("load") EXCEPT !.file = file, !.incremental = incremental]
Branch(tag, pred) == [tag |-> tag, pred |-> pred]
FromRoot(tags) == Path(FALSE, [i \in DOMAIN tags |-> Plain(tags[i])])
Anywhere(tags) == Path(TRUE, [i \in DOMAIN tags |-> Plain(tags[i])])
TheWishes ==
    {OnPath("set", Path(FALSE, <<Plain("ai"), Branch("software", Has(<<>>, "name", "s1")),
                                 Plain("dest")>>), "w"),
     OnPath("set", [Anywhere(<<"disk">>) EXCEPT !.attr = "name"], "d3"),
     OnPath("set", Path(TRUE, <<Branch("name", Is("w"))>>), "x"),
     OnPath("set", [Anywhere(<<"software">>) EXCEPT !.attr = "name", !.is = "s2"], "x"),
     OnPath("get", Path(FALSE, <<Plain("ai"), Branch("software", Nth(2)), Plain("dest")>>), ""),
     OnPath("get", [Anywhere(<<"software">>) EXCEPT !.attr = "name"], ""),
     OnPath("add", FromRoot(<<"ai", "target", "disk">>), ""),
     OnPath("add", [FromRoot(<<"ai", "software">>) EXCEPT !.attr = "name"], "s1"),
     OnPath("add", Path(FALSE, <<Plain("ai"), Branch("software", Has(<<"dest">>, "", "w")),
                                 Plain("data"), Plain("name")>>), "w"),
     OnPath("add", Anywhere(<<"vdev">>), ""), OnPath("add", Anywhere(<<"sc", "arg">>), "v"),
     OnPath("add", FromRoot(<<"ai", "target", "zpool", "zvol">>), ""),
     OnPath("add", FromRoot(<<"ai", "software", "dest", "disk">>), ""),
     OnPath("add", FromRoot(<<"ai">>), ""),
     OnPath("add", Path(TRUE, <<Branch("software", Nth(1)), Branch("dest", Is("v"))>>), ""),
     Wish("validate"), [OnPath("set", Anywhere(<<"dest">>), "y") EXCEPT !.full = TRUE]}
    \cup {Loading(f, FALSE) : f \in DOMAIN TheXmls \ {"over", "leaf"}}
    \cup {Loading(f, TRUE) : f \in DOMAIN TheXmls}

-----------------------------------------------------------------------------
VARIABLE subject
libraryVars == <<heap, es, treeVars, mimVars, subject>>
Init == /\ ListInit /\ EsInit /\ TreeInit /\ ManifestInputInit
        /\ subject \in {"list", "errors", "tree", "manifest"}
        /\ (subject # "manifest" => evfile = Nil /\ env = Nil)
Next == /\ UNCHANGED subject
        /\ \/ subject = "list" /\ ListNext /\ UNCHANGED <<es, treeVars, mimVars>>
           \/ subject = "errors" /\ EsNext /\ UNCHANGED <<heap, treeVars, mimVars>>
           \/ subject = "tree" /\ TreeNext /\ UNCHANGED <<heap, es, mimVars>>
           \/ subject = "manifest" /\ ManifestInputNext /\ UNCHANGED <<heap, es, treeVars>>
Spec == Init /\ [][Next]_libraryVars

(* The trees the installers keep what is to be installed in: that of the   *)
(* data objects, and that of a manifest a script derives with aimanifest.  *)
DocumentsSound == DataTreeSound /\ (subject = "manifest" => ManifestInputSound)
=============================================================================
