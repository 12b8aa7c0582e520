---------------------------- MODULE ListContract ----------------------------
(***************************************************************************)
(* What the linked lists of libspmicommon promise: a list is a sequence of *)
(* links with a current one, a link is in one list at most, and the calls  *)
(* insert, remove and move relative to the current link.                   *)
(***************************************************************************)
EXTENDS Naturals, Sequences, SequencesExt

CONSTANTS Lists, Links, Null
VARIABLES order,   \* the links of each list, first to last
          cursor,  \* the current link of each list, Null when it is empty
          weight   \* what the callback of LLSortList() compares
listsVars == <<order, cursor, weight>>

Free == Links \ UNION {ToSet(order[l]) : l \in Lists}
At(l) == IF cursor[l] = Null THEN 0 ELSE CHOOSE i \in DOMAIN order[l] : order[l][i] = cursor[l]

(* Only the given links change.                                            *)
Reweighs(given) ==
    weight' \in [Links -> Nat] /\ \A k \in Links \ given : weight'[k] = weight[k]

ListsInit == /\ order = [l \in Lists |-> <<>>]
             /\ cursor = [l \in Lists |-> Null]
             /\ weight \in [Links -> Nat]

(* A link that is in no list goes to a place next to the current one or to *)
(* one of the ends, and becomes the current one.                           *)
Insert(l, k) ==
    /\ k \in Free
    /\ \E i \in {At(l), At(l) + 1, 1, Len(order[l]) + 1} \ {0} :
          order' = [order EXCEPT ![l] = InsertAt(@, i, k)]
    /\ cursor' = [cursor EXCEPT ![l] = k]
    /\ UNCHANGED weight

(* The one before a removed current link becomes current, or the next one. *)
Take(l, k) ==
    /\ k \in ToSet(order[l])
    /\ order' = [order EXCEPT ![l] = SelectSeq(@, LAMBDA x : x # k)]
    /\ cursor' = [cursor EXCEPT ![l] =
          IF @ # k THEN @
          ELSE IF Len(order[l]) = 1 THEN Null
          ELSE order[l][IF At(l) = 1 THEN 2 ELSE At(l) - 1]]
    /\ UNCHANGED weight

(* The current link moves by one, to an end, or stays at the end.          *)
MoveTo(l, i) ==
    /\ i \in {At(l) - 1, At(l), At(l) + 1, 1, Len(order[l])} \cap DOMAIN order[l]
    /\ cursor' = [cursor EXCEPT ![l] = order[l][i]]
    /\ UNCHANGED <<order, weight>>

(* A sorted list has the links it had.                                     *)
Sort(l) ==
    /\ \E p \in {q \in [DOMAIN order[l] -> ToSet(order[l])] : ToSet(q) = ToSet(order[l])} :
          /\ \A i, j \in DOMAIN p : i < j => weight[p[i]] <= weight[p[j]]
          /\ order' = [order EXCEPT ![l] = p]
          /\ cursor' = [cursor EXCEPT ![l] = IF p = <<>> THEN Null ELSE Last(p)]
    /\ UNCHANGED weight

(* Links that are given up: a list that is cleared, from its front, or one *)
(* whose sorting failed.  Cleared links are no more.                       *)
GiveUp(l) ==
    /\ \E i \in 1 .. Len(order[l]) + 1 :
          LET rest == SubSeq(order[l], i, Len(order[l]))
          IN  /\ order' = [order EXCEPT ![l] = rest]
              /\ cursor' = [cursor EXCEPT ![l] = IF rest = <<>> THEN Null ELSE Head(rest)]
              /\ Reweighs(ToSet(order[l]) \ ToSet(rest))

(* Another link is made where one was destroyed.                           *)
Renew(k) ==
    /\ k \in Free
    /\ Reweighs({k})
    /\ UNCHANGED <<order, cursor>>

ListsNext == \/ \E l \in Lists, k \in Links : Insert(l, k) \/ Take(l, k)
             \/ \E l \in Lists : Sort(l) \/ GiveUp(l) \/ \E i \in DOMAIN order[l] : MoveTo(l, i)
             \/ \E k \in Links : Renew(k)
ListsSpec == ListsInit /\ [][ListsNext]_listsVars
=============================================================================
