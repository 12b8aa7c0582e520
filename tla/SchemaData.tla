----------------------------- MODULE SchemaData -----------------------------
(***************************************************************************)
(* The DTD as lib/install_manifest_input/process_dtd.py digests it: for    *)
(* each element the list of its children, and from it the answer to what   *)
(* the manifest input module asks: under this parent, before which of its  *)
(* children does an element of this tag belong, and may there be two?      *)
(*                                                                         *)
(* A DTD is a function from the names of its files to their lines: the     *)
(* declaration of an element, that of an entity that stands for a file,    *)
(* and the use of one.  The text of a declaration is parsed already.       *)
(***************************************************************************)
EXTENDS Naturals, Sequences, SequencesExt, FiniteSets, TLC

Elt(tag, qty) == [tag |-> tag, sep |-> "", parts |-> <<>>, qty |-> qty]
Group(sep, parts, qty) == [tag |-> "", sep |-> sep, parts |-> parts, qty |-> qty]
Declare(tag, content) == [is |-> "element", tag |-> tag, content |-> content]
Entity(ref, file) == [is |-> "entity", ref |-> ref, file |-> file]
Use(ref) == [is |-> "use", ref |-> ref]

(* A table item is a DDElt, DDSeq, DDOr or the DDHead of an element.       *)
Item(type, tag, qty, items) == [type |-> type, tag |-> tag, qty |-> qty, items |-> items]
Many == {"*", "+"}

(* Several parts make a list of their own.  A part alone in parentheses    *)
(* takes the quantity that was outside them, unless it has its own.        *)
RECURSIVE ProcessList(_)
ProcessList(content) ==
    LET parts == content.parts
        alone == parts[1]
        qty == IF alone.qty = "1" THEN content.qty ELSE alone.qty
    IN  IF parts = <<>> THEN Item("elem", content.tag, content.qty, <<>>)
        ELSE IF Len(parts) > 1
        THEN Item(IF content.sep = "|" THEN "or" ELSE "seq", "", content.qty,
                  [i \in DOMAIN parts |-> ProcessList(parts[i])])
        ELSE IF alone.parts = <<>> THEN Item("elem", alone.tag, qty, <<>>)
        ELSE Item("seq", "", qty, <<ProcessList([alone EXCEPT !.qty = "1"])>>)

ProcessElement(table, line) ==
    (line.tag :> Item("head", line.tag, "1", <<ProcessList(line.content)>>)) @@ table

(* The files are read one after the other; one that is used is read last.  *)
RECURSIVE ReadDtd(_, _, _)
ReadDtd(files, todo, acc) ==
    LET Line(a, line) ==
            CASE a.err # "" -> a
              [] line.is = "element" -> [a EXCEPT !.table = ProcessElement(@, line)]
              [] line.is = "entity" -> [a EXCEPT !.refs = (line.ref :> line.file) @@ @]
              [] line.is = "use" ->
                    IF line.ref \in DOMAIN a.refs THEN [a EXCEPT !.more = Append(@, a.refs[line.ref])]
                    ELSE [a EXCEPT !.err = "no entity"]
        read == FoldLeft(Line, [acc EXCEPT !.more = Tail(todo)], files[Head(todo)])
    IN  IF todo = <<>> \/ acc.err # "" THEN acc
        ELSE IF Head(todo) \notin DOMAIN files THEN [acc EXCEPT !.err = "no file"]
        ELSE ReadDtd(files, read.more, read)
Digest(files, name) ==
    ReadDtd(files, <<name>>, [table |-> <<>>, refs |-> <<>>, more |-> <<>>, err |-> ""])

-----------------------------------------------------------------------------
(* The search.  Lists are compared as Python lists are: by what is in them *)
(* and not by their quantity.                                              *)

RECURSIVE Contents(_)
Contents(item) == [tag |-> item.tag, items |-> [i \in DOMAIN item.items |-> Contents(item.items[i])]]
SameList(kept, item) == kept # {} /\ {Contents(x) : x \in kept} = {Contents(item)}

SearchState == [mode |-> "searching", before |-> <<>>, mults |-> FALSE, from |-> {}, optional |-> {}]

RECURSIVE SearchFrom(_, _, _, _)
(* From item i of the list pt on.  "from" is the list the first element    *)
(* after the one sought was taken from and "optional" an OR list with an   *)
(* element that may be absent: each is a set of at most one list.          *)
SearchFrom(pt, i, tag, s) ==
    LET item == pt.items[i]
        Onward(t) == SearchFrom(pt, i + 1, tag, t)
        found == [s EXCEPT !.mode = "retrieving",
                           !.mults = item.qty \in Many \/ (pt.type = "or" /\ pt.qty \in Many)]
        begun == IF s.from = {} THEN [s EXCEPT !.from = {pt}] ELSE s
        taken == IF item.type = "elem"
                 THEN [begun EXCEPT !.before = Append(@, item.tag),
                                    !.optional = IF item.qty = "?" /\ pt.type = "or" THEN {pt} ELSE @]
                 ELSE SearchFrom(item, 1, tag, begun)
        last == \/ pt.type = "seq" /\ item.qty # "?"
                \/ pt.type = "or" /\ i = Len(pt.items)
    IN  IF i > Len(pt.items) \/ s.mode = "unwinding" THEN s
        ELSE IF s.mode = "searching" THEN
            IF item.type # "elem" THEN Onward(SearchFrom(item, 1, tag, s))
            ELSE IF item.tag # tag THEN Onward(s)
            ELSE IF pt.type = "or" THEN found ELSE Onward(found)
        ELSE IF s.from = {} /\ pt.type = "or" THEN s
        ELSE IF item.type # "elem" /\ (item.qty = "?" \/ SameList(taken.optional, item))
        THEN Onward([taken EXCEPT !.optional = {}, !.mode = "retrieving"])
        ELSE IF SameList(taken.from, pt) /\ last THEN [taken EXCEPT !.mode = "unwinding"]
        ELSE Onward(taken)

(* A tag that does not belong under the parent has no place.               *)
Misplaced == [placed |-> FALSE, before |-> <<>>, mults |-> FALSE]
Info(s) ==
    IF s.mode = "searching" THEN Misplaced
    ELSE [placed |-> TRUE, before |-> s.before, mults |-> s.mults]
FindElementInfo(table, parent, tag) ==
    IF parent \notin DOMAIN table THEN Misplaced
    ELSE Info(SearchFrom(table[parent], 1, tag, SearchState))

(* The only way from the root down to an element, or none.                 *)
RECURSIVE FindParentPath(_, _, _)
FindParentPath(table, root, tag) ==
    LET parents == {p \in DOMAIN table : FindElementInfo(table, p, tag).placed}
        up == FindParentPath(table, root, CHOOSE p \in parents : TRUE)
    IN  IF tag = root THEN <<tag>>
        ELSE IF Cardinality(parents) # 1 \/ up = <<>> THEN <<>>
        ELSE Append(up, tag)

-----------------------------------------------------------------------------
(* What a DTD means: the sequences of tags its elements may have, as a     *)
(* validator reads them.                                                   *)

RECURSIVE Accepts(_, _)
Accepts(content, tags) ==
    LET once == [content EXCEPT !.qty = "1"]
        parts == content.parts
        rest == Group(",", Tail(parts), "1")
    IN  IF content.qty \in {"?", "*"} /\ tags = <<>> THEN TRUE
        ELSE IF content.qty = "?" THEN Accepts(once, tags)
        ELSE IF content.qty \in Many THEN
            \E n \in 0 .. Len(tags) :
                /\ Accepts(once, SubSeq(tags, 1, n))
                /\ (n = Len(tags) \/ (n > 0 /\ Accepts([content EXCEPT !.qty = "*"],
                                                       SubSeq(tags, n + 1, Len(tags)))))
        ELSE IF content.tag \in {"EMPTY", "#PCDATA"} THEN tags = <<>>
        ELSE IF content.tag # "" THEN tags = <<content.tag>>
        ELSE IF content.sep = "|" THEN \E i \in DOMAIN parts : Accepts(parts[i], tags)
        ELSE IF parts = <<>> THEN tags = <<>>
        ELSE \E n \in 0 .. Len(tags) :
                /\ Accepts(parts[1], SubSeq(tags, 1, n))
                /\ Accepts(rest, SubSeq(tags, n + 1, Len(tags)))
=============================================================================
