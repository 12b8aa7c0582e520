----------------------------- MODULE LinkedList -----------------------------
(***************************************************************************)
(* The doubly linked lists of libspmicommon (common_linklist.c), pointer   *)
(* by pointer.  A call is an operator from a heap to a heap; its error     *)
(* code, where the caller or another call looks at it, is in rc.           *)
(***************************************************************************)
EXTENDS Naturals, Sequences, SequencesExt, FiniteSets

CONSTANTS Lists, Links,  \* the lists and links a program may have
          Scratch,       \* the list LLSortList() makes for itself
          Weights,       \* what links are compared by
          BadWeight,     \* a weight the compare callback reports an error for
          Careful,       \* callers add and destroy only links in no list
          Null

ASSUME LinkedListAssumption ==
    /\ Scratch \notin Lists /\ Null \notin Links /\ Weights \subseteq Nat
    /\ Careful \in BOOLEAN

VARIABLE heap   \* the list headers and the links

Ops == {"LLPrev", "LLNext", "LLHead", "LLTail"}
AllLists == Lists \cup {Scratch}
NoList == [made |-> FALSE, n |-> 0, head |-> Null, tail |-> Null, cur |-> Null]
NoLink == [made |-> FALSE, next |-> Null, prev |-> Null, owner |-> Null, data |-> 0]

(* A field of a link, if there is such a link.                             *)
Set(h, k, f, v) == IF k = Null THEN h ELSE [h EXCEPT !.link[k][f] = v]
Fail(h, e) == [h EXCEPT !.rc = e]
Ok(h) == [h EXCEPT !.rc = "LLSuccess"]

LLCreateList(h, l) == Ok([h EXCEPT !.list[l] = [NoList EXCEPT !.made = TRUE]])
LLCreateLink(h, k, data) ==
    Ok([h EXCEPT !.link[k] = [NoLink EXCEPT !.made = TRUE, !.data = data]])

(* Where LLAddLink() puts a link into a list that has some.                *)
LinkInAtHead(h, l, k, op) ==
    [h EXCEPT !.link[k].next = h.list[l].head, !.link[k].prev = Null,
              !.list[l].head = k, !.list[l].cur = k]
LinkIn(h, l, k, op) ==
    LET c == h.list[l].cur
        before == IF op = "LLPrev" THEN h.link[c].prev
                  ELSE IF op = "LLNext" THEN c
                  ELSE IF op = "LLTail" THEN h.list[l].tail ELSE Null
        after == IF op = "LLPrev" THEN c
                 ELSE IF op = "LLNext" THEN h.link[c].next
                 ELSE IF op = "LLHead" THEN h.list[l].head ELSE Null
        first == op = "LLHead" \/ (op = "LLPrev" /\ h.list[l].head = c)
        last == op = "LLTail" \/ (op = "LLNext" /\ h.list[l].tail = c)
        own == Set(Set(h, k, "prev", before), k, "next", after)
        linked == Set(Set(own, before, "next", k), after, "prev", k)
    IN  [linked EXCEPT !.list[l].head = IF first THEN k ELSE @,
                       !.list[l].tail = IF last THEN k ELSE @,
                       !.list[l].cur = k]

(* LLAddLink().  A link counts as in use only if it has both neighbours.   *)
LLAddLink(h, l, k, op) ==
    LET only == [Set(Set(h, k, "prev", Null), k, "next", Null) EXCEPT
                    !.list[l].head = k, !.list[l].tail = k, !.list[l].cur = k]
        in == IF h.list[l].head = Null /\ h.list[l].tail = Null THEN only
              ELSE LinkIn(h, l, k, op)
    IN  CASE ~h.list[l].made -> Fail(h, "LLInvalidList")
          [] h.list[l].made /\ ~h.link[k].made -> Fail(h, "LLInvalidLink")
          [] /\ h.list[l].made /\ h.link[k].made
             /\ h.link[k].prev # Null /\ h.link[k].next # Null -> Fail(h, "LLLinkInUse")
          [] OTHER -> Ok([in EXCEPT !.list[l].n = @ + 1, !.link[k].owner = l])

(* LLRemoveLink()                                                          *)
Unlink(h, l, k) ==
    LET p == h.link[k].prev
        n == h.link[k].next
        out == Set(Set(h, n, "prev", p), p, "next", n)
    IN  [out EXCEPT
            !.list[l].cur = IF @ # k THEN @ ELSE IF p # Null THEN p ELSE n,
            !.list[l].head = IF @ = k THEN n ELSE @,
            !.list[l].tail = IF @ = k THEN p ELSE @,
            !.list[l].n = @ - 1,
            !.link[k].prev = Null, !.link[k].next = Null, !.link[k].owner = Null]
LLRemoveLink(h, l, k) ==
    CASE ~h.list[l].made -> Fail(h, "LLInvalidList")
      [] h.list[l].made /\ ~h.link[k].made -> Fail(h, "LLInvalidLink")
      [] /\ h.list[l].made /\ h.link[k].made
         /\ h.link[k].prev = Null /\ h.link[k].next = Null
         /\ h.list[l].n # 1 -> Fail(h, "LLLinkNotInUse")
      [] /\ h.list[l].made /\ h.link[k].made /\ h.link[k].owner # l
         /\ h.link[k].prev # Null \/ h.link[k].next # Null \/ h.list[l].n = 1 ->
            Fail(h, "LLInvalidList")
      [] OTHER -> Ok(Unlink(h, l, k))

(* LLDestroyLink() and LLDestroyList(); the data is handed back.           *)
LLDestroyLink(h, k) ==
    IF ~h.link[k].made THEN Fail(h, "LLInvalidLink")
    ELSE IF h.link[k].prev # Null \/ h.link[k].next # Null THEN Fail(h, "LLLinkInUse")
    ELSE Ok([h EXCEPT !.link[k] = NoLink])
LLDestroyList(h, l) ==
    IF ~h.list[l].made THEN Fail(h, "LLInvalidList")
    ELSE IF {h.list[l].head, h.list[l].cur, h.list[l].tail} # {Null}
    THEN Fail(h, "LLListInUse")
    ELSE Ok([h EXCEPT !.list[l] = NoList])

(* LLUpdateCurrent(); LLGetLinkData() is this and a look at the link.      *)
LLUpdateCurrent(h, l, op) ==
    LET c == h.list[l].cur
        there == CASE op = "LLHead" -> h.list[l].head
                   [] op = "LLTail" -> h.list[l].tail
                   [] op = "LLPrev" -> h.link[c].prev
                   [] op = "LLNext" -> h.link[c].next
        to(k) == [h EXCEPT !.list[l].cur = k]
    IN  CASE ~h.list[l].made -> Fail(h, "LLInvalidList")
          [] h.list[l].made /\ h.list[l].n = 0 -> Fail(h, "LLListEmpty")
          [] h.list[l].made /\ h.list[l].n # 0 /\ there = Null ->
                IF op = "LLPrev" THEN Fail(to(h.list[l].head), "LLBeginningOfList")
                ELSE Fail(to(h.list[l].tail), "LLEndOfList")
          [] OTHER -> Ok(to(there))

(* The links from the head on, as the next pointers lead.                  *)
Chain(h, l) ==
    FoldLeft(LAMBDA c, i : IF c.at = Null THEN c
                           ELSE [at |-> h.link[c.at].next, seen |-> Append(c.seen, c.at)],
             [at |-> h.list[l].head, seen |-> <<>>],
             [i \in 1 .. Cardinality(Links) |-> i]).seen

(* LLSortList(), first loop: the head of the list goes before the first    *)
(* link of the new list that does not weigh less, or to its end.           *)
Bad(h, k) == h.link[k].data = BadWeight
SortOne(h, l) ==
    LET k == h.list[l].head
        out == LLUpdateCurrent(LLRemoveLink(LLUpdateCurrent(h, l, "LLHead"), l, k),
                               Scratch, "LLHead")
        sorted == Chain(out, Scratch)
        stop == {i \in DOMAIN sorted : h.link[k].data <= h.link[sorted[i]].data}
        first == CHOOSE i \in stop : \A j \in stop : i <= j
        at(x) == [out EXCEPT !.list[Scratch].cur = x]
    IN  CASE sorted = <<>> -> LLAddLink(out, Scratch, k, "LLHead")
          [] sorted # <<>> /\ \E x \in {k} \cup ToSet(sorted) : Bad(h, x) ->
                Fail(out, "LLCallbackError")
          [] sorted # <<>> /\ stop = {} ->
                LLAddLink(at(Last(sorted)), Scratch, k, "LLTail")
          [] OTHER ->
                LLUpdateCurrent(LLAddLink(at(sorted[first]), Scratch, k, "LLPrev"),
                                Scratch, "LLNext")
(* Second loop: the links come back one after the other.                   *)
MoveBackToHead(h, l) ==
    LET k == h.list[Scratch].head
    IN  LLAddLink(LLRemoveLink(h, Scratch, k), l, k, "LLHead")
MoveBack(h, l) ==
    LET k == h.list[Scratch].head
    IN  LLAddLink(LLRemoveLink(LLUpdateCurrent(h, Scratch, "LLHead"), Scratch, k),
                  l, k, "LLNext")
LLSortList(h, l) ==
    LET new == LLCreateList(h, Scratch)
        go(x) == x.rc \in {"LLSuccess", "LLEndOfList"}
        there == FoldLeft(LAMBDA x, i : IF go(x) THEN SortOne(x, l) ELSE x,
                          new, Chain(h, l))
        back == FoldLeft(LAMBDA x, i : IF go(x) THEN MoveBack(x, l) ELSE x,
                         there, Chain(h, l))
    IN  CASE ~h.list[l].made -> Fail(h, "LLInvalidList")
          [] h.list[l].made /\ h.list[l].n = 0 -> Ok(h)
          [] h.list[l].made /\ h.list[l].n # 0 /\ ~go(there) -> there
          [] OTHER -> LLDestroyList(back, Scratch)

(* LLClearList(): the callback refuses the data of at most one link.       *)
ClearOne(h, l) ==
    LET k == h.list[l].cur
    IN  LLDestroyLink(LLRemoveLink(h, l, k), k)
LLClearList(h, l, refused) ==
    LET start == LLUpdateCurrent(h, l, "LLHead")
    IN  IF ~h.list[l].made THEN Fail(h, "LLInvalidList")
        ELSE IF h.list[l].n = 0 THEN Ok(h)
        ELSE FoldLeft(LAMBDA x, i :
                        IF x.rc # "LLSuccess" THEN x
                        ELSE IF i = refused THEN Fail(ClearOne(x, l), "LLCallbackError")
                        ELSE ClearOne(x, l),
                      start, [i \in 1 .. h.list[l].n |-> i])

----------------------------------------------------------------------------
ListInit == heap = [list |-> [l \in AllLists |-> NoList],
                    link |-> [k \in Links |-> NoLink], rc |-> "LLSuccess"]

InNoList(k) == heap.link[k].owner = Null
CreateList(l) == ~heap.list[l].made /\ heap' = LLCreateList(heap, l)
CreateLink(k, w) == ~heap.link[k].made /\ heap' = LLCreateLink(heap, k, w)
AddLink(l, k, op) == (Careful => InNoList(k)) /\ heap' = LLAddLink(heap, l, k, op)
RemoveLink(l, k) == heap' = LLRemoveLink(heap, l, k)
DestroyLink(k) == (Careful => InNoList(k)) /\ heap' = LLDestroyLink(heap, k)
DestroyList(l) == heap' = LLDestroyList(heap, l)
UpdateCurrent(l, op) == heap' = LLUpdateCurrent(heap, l, op)
(* A program whose sort failed has lost links; it gives up the lists.      *)
SortList(l) ==
    /\ ~heap.list[Scratch].made
    /\ heap' = LLSortList(heap, l)
ClearList(l, refused) == heap' = LLClearList(heap, l, refused)

ListNext ==
    \/ \E l \in Lists, k \in Links, op \in Ops : AddLink(l, k, op)
    \/ \E l \in Lists, k \in Links : RemoveLink(l, k)
    \/ \E l \in Lists, op \in Ops : UpdateCurrent(l, op)
    \/ \E l \in Lists : CreateList(l) \/ DestroyList(l) \/ SortList(l)
    \/ \E l \in Lists, n \in 0 .. Cardinality(Links) : ClearList(l, n)
    \/ \E k \in Links : DestroyLink(k) \/ \E w \in Weights : CreateLink(k, w)
ListSpec == ListInit /\ [][ListNext]_heap

----------------------------------------------------------------------------
(* Properties *)

(* A link that is asked to be added while it is in a list is refused.      *)
InUseRefused ==
    \A k \in Links : Cardinality({l \in AllLists : k \in ToSet(Chain(heap, l))}) <= 1

Contract == INSTANCE ListContract WITH
    order <- [l \in Lists |-> Chain(heap, l)],
    cursor <- [l \in Lists |-> heap.list[l].cur],
    weight <- [k \in Links |-> heap.link[k].data]
(* Whatever the order of the calls and whichever of them fail, the lists   *)
(* are the sequences with a current link that ListContract describes.      *)
ImplementsLists == Contract!ListsSpec
=============================================================================
