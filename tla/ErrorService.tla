---------------------------- MODULE ErrorService ----------------------------
(***************************************************************************)
(* The error service: a list of ErrorInfo objects kept by a Python module  *)
(* (liberrsvc_pymod/errsvc.py) and its C interface (liberrsvc/errsvc.c),   *)
(* which holds references to the objects on its own account.  The model    *)
(* counts the references as the interpreter does.                          *)
(***************************************************************************)
EXTENDS Naturals, Sequences, SequencesExt, FiniteSets

CONSTANTS Errors,     \* the objects that can be created
          Modules,    \* module ids
          ErrTypes,   \* ES_ERR, ES_CLEANUP_ERR, ...
          DataTypes,  \* ES_DATA_ERR_NUM ("int"), ES_DATA_OP_STR ("str"), ...
          Makers,     \* the languages errors are created from: "c", "python"
          MaxLists    \* lists the C side holds at a time

ASSUME ErrorServiceAssumption ==
    Makers \subseteq {"c", "python"} /\ MaxLists \in Nat /\ DataTypes \subseteq {"int", "str"}

VARIABLE es   \* the list, the objects and what the C side holds
EmptyId == "empty"   \* the empty string
NoError == [mod |-> EmptyId, type |-> EmptyId, data |-> {}]

(* Lists of errors are sets here: an object is in one once, and nothing    *)
(* depends on its place.                                                   *)
IncrefAll(s, q) ==
    [s EXCEPT !.refs = [e \in Errors |-> IF e \in q THEN s.refs[e] + 1 ELSE s.refs[e]]]
(* An object without references is gone; dropping one it does not have is  *)
(* the use of freed memory.                                                *)
DecrefAll(s, q) ==
    [s EXCEPT !.refs = [e \in Errors |-> IF e \in q /\ s.refs[e] > 0
                                         THEN s.refs[e] - 1 ELSE s.refs[e]],
              !.corrupt = IF \E e \in q : s.refs[e] = 0 THEN TRUE ELSE @]
Incref(s, e) == IncrefAll(s, {e})

(* ErrorInfo.__init__() puts the object into the list.                     *)
NewErrorInfo(s, e, m, t) ==
    Incref([s EXCEPT !.obj[e] = [NoError EXCEPT !.mod = m, !.type = t],
                     !.errors = @ \cup {e}], e)

(* es_create_err_info(): the caller gets a reference, unless the module id *)
(* is empty.                                                               *)
CreateErrInfo(s, e, m, t) ==
    IF m = EmptyId THEN [s EXCEPT !.errno = "EINVAL"]
    ELSE [Incref(NewErrorInfo(s, e, m, t), e) EXCEPT !.mine = @ \cup {e}, !.errno = "0"]

(* _convert_pylist_to_err_info_list(): every item is a new reference.      *)
Convert(s, q) == IF q = {} THEN s
                 ELSE [IncrefAll(s, q) EXCEPT !.lists = Append(@, q)]
ByModId(s, m) == {e \in s.errors : s.obj[e].mod = m}
ByType(s, t) == {e \in s.errors : s.obj[e].type = t}

(* es_free_err_info_list()                                                 *)
FreeErrInfoList(s, i) == [DecrefAll(s, s.lists[i]) EXCEPT !.lists = RemoveAt(@, i)]

(* clear_error_list() and clear_error_list_by_mod_id(): the list they had  *)
(* goes, and its references with it.                                       *)
ClearErrorList(s) == [DecrefAll(s, s.errors) EXCEPT !.errors = {}]
ClearByModId(s, m) ==
    [DecrefAll(s, ByModId(s, m)) EXCEPT !.errors = @ \ ByModId(s, m)]

(* es_free_errors(): a list is made to drop the references of the callers  *)
(* of es_create_err_info(), then freed, and the error list is cleared.     *)
FreeErrorsForAll(s) ==
    LET all == s.errors
        dropped == DecrefAll(IncrefAll(s, all), all)
    IN  [ClearErrorList(dropped) EXCEPT !.mine = @ \ all]
FreeErrors(s) ==
    LET all == s.errors
        dropped == DecrefAll(IncrefAll(s, all), all)
        freed == DecrefAll(dropped, all)
    IN  [ClearErrorList(freed) EXCEPT !.mine = @ \ all]

(* set_error_data() through es_set_err_data_int() or es_set_err_data_str() *)
SetErrData(s, e, t, given) ==
    IF t # given THEN [s EXCEPT !.errno = "EINVAL"]
    ELSE [s EXCEPT !.obj[e].data = @ \cup {t}, !.errno = "0"]

(* es_get_err_type(), es_get_err_mod_id() and es_get_err_data_*_by_type()  *)
(* look into objects; a dead one is the use of freed memory.               *)
LookInto(s, q) == IF \E e \in q : s.refs[e] = 0 THEN [s EXCEPT !.corrupt = TRUE]
                  ELSE [s EXCEPT !.errno = "0"]
(* es__dump_all_errors__()                                                 *)
DumpAll(s) == LookInto(s, s.errors)

----------------------------------------------------------------------------
EsInit == es = [errors |-> {}, obj |-> [e \in Errors |-> NoError],
                refs |-> [e \in Errors |-> 0], mine |-> {},
                lists |-> <<>>, errno |-> "0", corrupt |-> FALSE]

Room == Len(es.lists) < MaxLists
HeldErrors == es.mine \cup UNION {es.lists[i] : i \in DOMAIN es.lists}
Fresh(e) == es.refs[e] = 0 /\ e \notin es.errors \cup HeldErrors

CreateFromC(e, m, t) == /\ "c" \in Makers /\ Fresh(e)
                        /\ es' = CreateErrInfo(es, e, m, t)
CreateFromPython(e, m, t) == /\ "python" \in Makers /\ Fresh(e) /\ m # EmptyId
                             /\ es' = NewErrorInfo(es, e, m, t)
GetAllErrors == Room /\ es' = Convert(es, es.errors)
GetErrorsByModId(m) == Room /\ es' = Convert(es, ByModId(es, m))
GetErrorsByType(t) == Room /\ es' = Convert(es, ByType(es, t))
FreeList(i) == es' = FreeErrInfoList(es, i)
FreeAllErrors == es' = FreeErrors(es)
ClearAllErrors == es' = ClearErrorList(es)
ClearModule(m) == es' = ClearByModId(es, m)
SetData(e, t, given) == es' = SetErrData(es, e, t, given)
Look(e) == es' = LookInto(es, {e})
Dump == es' = DumpAll(es)

EsNext ==
    \/ \E e \in Errors, m \in Modules \cup {EmptyId}, t \in ErrTypes :
          CreateFromC(e, m, t) \/ CreateFromPython(e, m, t)
    \/ GetAllErrors \/ FreeAllErrors \/ ClearAllErrors \/ Dump
    \/ \E m \in Modules : GetErrorsByModId(m) \/ ClearModule(m)
    \/ \E t \in ErrTypes : GetErrorsByType(t)
    \/ \E i \in DOMAIN es.lists : FreeList(i)
    \/ \E e \in HeldErrors : Look(e) \/ \E t, given \in DataTypes : SetData(e, t, given)
EsSpec == EsInit /\ [][EsNext]_es

----------------------------------------------------------------------------
(* Properties *)

(* The references of an object are those of the error list, of the lists   *)
(* given out and not yet freed, and of its creator: none is missing, so    *)
(* that no object is used after it went, and none is left over             *)
(* (errsvc.c: es_free_errors and es_free_err_info_list).                   *)
RefsExact ==
    /\ ~es.corrupt
    /\ \A e \in Errors :
          es.refs[e] = (IF e \in es.errors THEN 1 ELSE 0)
                       + Cardinality({i \in DOMAIN es.lists : e \in es.lists[i]})
                       + (IF e \in es.mine THEN 1 ELSE 0)
=============================================================================
