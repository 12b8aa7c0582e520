----------------------------- MODULE LibraryProofs -----------------------------
(***************************************************************************)
(* Proofs about two libraries and what is built on them.                   *)
(*                                                                         *)
(* The error service, for any errors, modules and lists, when the errors   *)
(* are created through the C interface: es_free_errors() drops a reference *)
(* of the creator of every error, which an error created in Python does    *)
(* not have.                                                               *)
(*                                                                         *)
(* The screens of the text installer and of sysconfig create-profile, for  *)
(* any machines, tables of time zones and numbers of keys.  Four           *)
(* invariants follow the session: VisitInv the way back, ProfInv what was  *)
(* accepted, ZoneInv the time zone and its lists, TargetInv the layout of  *)
(* the disk.  A screen is past when the session has left it ahead (Past);  *)
(* each of the three others says what is true of the screens that are.     *)
(***************************************************************************)
EXTENDS ErrorService, InstallScreens, DataLemmas

In(e, q) == IF e \in q THEN 1 ELSE 0
Count(ls, e) == Cardinality({i \in DOMAIN ls : e \in ls[i]})
ErrorObjects ==
    [mod : Modules \cup {EmptyId}, type : ErrTypes \cup {EmptyId}, data : SUBSET DataTypes]
IsEs(s) ==
    s \in [errors : SUBSET Errors, obj : [Errors -> ErrorObjects], refs : [Errors -> Nat],
           mine : SUBSET Errors, lists : Seq(SUBSET Errors), errno : {"0", "EINVAL"},
           corrupt : BOOLEAN]

(* The references of each object are those of the holders.                 *)
Balanced(s) ==
    \A e \in Errors : s.refs[e] = In(e, s.errors) + Count(s.lists, e) + In(e, s.mine)

(* The invariant: every error of the list has its creator's reference too. *)
Held(s) == IsEs(s) /\ ~s.corrupt /\ Balanced(s) /\ s.errors \subseteq s.mine

----------------------------------------------------------------------------
(* Lists *)

(* The lists an object is in can be counted.                               *)
LEMMA CountIsNat ==
    ASSUME NEW ls \in Seq(SUBSET Errors), NEW e
    PROVE  Count(ls, e) \in Nat /\ IsFiniteSet({i \in DOMAIN ls : e \in ls[i]})
<1>1. DOMAIN ls = 1 .. Len(ls) /\ Len(ls) \in Nat
  BY LenProperties
<1>2. IsFiniteSet({i \in DOMAIN ls : e \in ls[i]})
  <2>1. IsFiniteSet(1 .. Len(ls))
    BY <1>1, FS_Interval
  <2>. QED
    BY <1>1, <2>1, FS_Subset
<1>. QED
  BY <1>2, FS_CardinalityType DEF Count

(* One more list is counted for what is in it.                             *)
LEMMA CountAppended ==
    ASSUME NEW ls \in Seq(SUBSET Errors), NEW q \in SUBSET Errors, NEW e
    PROVE  Count(Append(ls, q), e) = Count(ls, e) + In(e, q)
<1>. DEFINE old == {i \in DOMAIN ls : e \in ls[i]}
            now == {i \in DOMAIN Append(ls, q) : e \in Append(ls, q)[i]}
            n == Len(ls)
<1>1. /\ DOMAIN ls = 1 .. n /\ n \in Nat /\ DOMAIN Append(ls, q) = 1 .. n + 1
      /\ \A i \in 1 .. n : Append(ls, q)[i] = ls[i]
      /\ Append(ls, q)[n + 1] = q
  BY LenProperties, AppendProperties
<1>2. IsFiniteSet(old) /\ Cardinality(old) \in Nat
  BY CountIsNat, FS_CardinalityType
<1>3. n + 1 \notin old /\ \A i \in old : i \in 1 .. n
  BY <1>1
<1>4. CASE e \in q
  <2>1. now = old \cup {n + 1}
    BY <1>1, <1>4
  <2>2. Cardinality(now) = Cardinality(old) + 1
    BY <1>2, <1>3, <2>1, FS_AddElement
  <2>. QED
    BY <1>4, <2>2 DEF Count, In
<1>5. CASE e \notin q
  <2>1. now = old
    BY <1>1, <1>5
  <2>2. Cardinality(now) = Cardinality(old) + 0
    <3>. HIDE DEF old, now
    <3>. QED
      BY <1>2, <2>1
  <2>. QED
    BY <1>5, <2>2 DEF Count, In
<1>. QED
  BY <1>4, <1>5

(* A list that is freed is no longer counted.                              *)
LEMMA CountRemoved ==
    ASSUME NEW ls \in Seq(SUBSET Errors), NEW k \in 1 .. Len(ls), NEW e
    PROVE  Count(ls, e) = Count(RemoveAt(ls, k), e) + In(e, ls[k])
<1>. DEFINE old == {i \in DOMAIN ls : e \in ls[i]}
            rest == old \ {k}
            left == RemoveAt(ls, k)
            now == {i \in DOMAIN left : e \in left[i]}
            n == Len(ls)
            F == [i \in now |-> IF i < k THEN i ELSE i + 1]
<1>1. n \in Nat /\ DOMAIN ls = 1 .. n /\ k \in Nat
  BY LenProperties
<1>2. /\ left \in Seq(SUBSET Errors) /\ Len(left) = n - 1
      /\ \A j \in 1 .. n - 1 : left[j] = IF j < k THEN ls[j] ELSE ls[j + 1]
  BY RemovedAt
<1>3. DOMAIN left = 1 .. n - 1
  BY <1>2, LenProperties
<1>4. IsFiniteSet(old) /\ IsFiniteSet(now)
  BY <1>2, CountIsNat
<1>. HIDE DEF left
<1>5. F \in [now -> rest]
  <2>1. ASSUME NEW i \in now
        PROVE  F[i] \in rest
    BY <1>1, <1>2, <1>3
  <2>. QED
    BY <2>1
<1>6. \A i, j \in now : F[i] = F[j] => i = j
  BY <1>1, <1>3
<1>7. ASSUME NEW j \in rest
      PROVE  \E i \in now : F[i] = j
  <2>1. CASE j < k
    <3>1. j \in now
      BY <1>1, <1>2, <1>3, <2>1
    <3>. QED
      BY <2>1, <3>1
  <2>2. CASE ~(j < k)
    <3>1. j - 1 \in 1 .. n - 1 /\ ~(j - 1 < k) /\ (j - 1) + 1 = j
      BY <1>1, <2>2
    <3>2. j - 1 \in now
      BY <1>2, <1>3, <3>1
    <3>. QED
      BY <3>1, <3>2
  <2>. QED
    BY <2>1, <2>2
<1>8. Cardinality(now) = Cardinality(rest)
  <2>. HIDE DEF F, now, rest
  <2>1. F \in Injection(now, rest)
    BY <1>5, <1>6 DEF Injection, IsInjective
  <2>2. F \in Surjection(now, rest)
    BY <1>5, <1>7 DEF Surjection
  <2>3. ExistsBijection(now, rest)
    BY <2>1, <2>2 DEF ExistsBijection, Bijection
  <2>4. IsFiniteSet(now)
    BY <1>4 DEF now
  <2>. QED
    BY <2>3, <2>4, FS_Bijection
<1>9. Cardinality(old) = Cardinality(rest) + In(e, ls[k])
  <2>1. CASE k \in old
    <3>1. Cardinality(rest) = Cardinality(old) - 1 /\ Cardinality(old) \in Nat
      BY <1>4, <2>1, FS_RemoveElement, FS_CardinalityType
    <3>. QED
      BY <2>1, <3>1 DEF In
  <2>2. CASE k \notin old
    <3>1. rest = old /\ e \notin ls[k]
      BY <1>1, <2>2
    <3>2. Cardinality(rest) = Cardinality(old) /\ Cardinality(old) \in Nat
      <4>. HIDE DEF old, rest
      <4>. QED
        BY <1>4, <3>1, FS_CardinalityType
    <3>. QED
      BY <3>1, <3>2 DEF In
  <2>. QED
    BY <2>1, <2>2
<1>. QED
  BY <1>8, <1>9 DEF Count, left

----------------------------------------------------------------------------
(* Calls *)

(* A reference more for each object of a set.                              *)
LEMMA Increased ==
    ASSUME NEW s, IsEs(s), NEW q \in SUBSET Errors
    PROVE  /\ IsEs(IncrefAll(s, q))
           /\ \A e \in Errors : IncrefAll(s, q).refs[e] = s.refs[e] + In(e, q)
           /\ IncrefAll(s, q).errors = s.errors /\ IncrefAll(s, q).mine = s.mine
           /\ IncrefAll(s, q).lists = s.lists /\ IncrefAll(s, q).corrupt = s.corrupt
           /\ IncrefAll(s, q).obj = s.obj
<1>. DEFINE r == [x \in Errors |-> IF x \in q THEN s.refs[x] + 1 ELSE s.refs[x]]
<1>1. r \in [Errors -> Nat]
  BY DEF IsEs
<1>2. \A x \in Errors : r[x] = s.refs[x] + In(x, q)
  BY DEF IsEs, In
<1>3. IncrefAll(s, q) = [s EXCEPT !.refs = r]
  BY DEF IncrefAll
<1>. HIDE DEF r
<1>. QED
  BY <1>1, <1>2, <1>3 DEF IsEs

(* A reference less, when there is one to drop.                            *)
LEMMA Decreased ==
    ASSUME NEW s, IsEs(s), NEW q \in SUBSET Errors, \A e \in q : s.refs[e] # 0
    PROVE  /\ IsEs(DecrefAll(s, q))
           /\ \A e \in Errors : s.refs[e] = DecrefAll(s, q).refs[e] + In(e, q)
           /\ DecrefAll(s, q).errors = s.errors /\ DecrefAll(s, q).mine = s.mine
           /\ DecrefAll(s, q).lists = s.lists /\ DecrefAll(s, q).corrupt = s.corrupt
           /\ DecrefAll(s, q).obj = s.obj
<1>. DEFINE r == [x \in Errors |-> IF x \in q /\ s.refs[x] > 0
                                   THEN s.refs[x] - 1 ELSE s.refs[x]]
            c == IF \E x \in q : s.refs[x] = 0 THEN TRUE ELSE s.corrupt
<1>1. r \in [Errors -> Nat]
  <2>1. ASSUME NEW x \in Errors
        PROVE  r[x] \in Nat
    <3>1. s.refs[x] \in Nat
      BY DEF IsEs
    <3>. QED
      BY <3>1
  <2>. QED
    BY <2>1
<1>2. ASSUME NEW x \in Errors
      PROVE  s.refs[x] = r[x] + In(x, q)
  <2>1. s.refs[x] \in Nat /\ (x \in q => s.refs[x] # 0)
    BY DEF IsEs
  <2>. QED
    BY <2>1 DEF In
<1>3. c = s.corrupt
  OBVIOUS
<1>4. DecrefAll(s, q) = [s EXCEPT !.refs = r, !.corrupt = c]
  BY DEF DecrefAll, IsEs
<1>. HIDE DEF r, c
<1>5. IsEs(DecrefAll(s, q))
  BY <1>1, <1>3, <1>4 DEF IsEs
<1>. QED
  BY <1>2, <1>3, <1>4, <1>5 DEF IsEs

(* The list and its lists by module and type have errors in them.          *)
LEMMA Selected ==
    ASSUME NEW s, IsEs(s), NEW m
    PROVE  /\ s.errors \in SUBSET Errors
           /\ ByModId(s, m) \in SUBSET Errors /\ ByType(s, m) \in SUBSET Errors
           /\ ByModId(s, m) \subseteq s.errors
BY DEF IsEs, ByModId, ByType

LEMMA SumPositive ==
    ASSUME NEW r, NEW a \in Nat, NEW b \in Nat, NEW c \in Nat, r = a + b + c,
           a = 1 \/ b # 0 \/ c = 1
    PROVE  r # 0
OBVIOUS

LEMMA SumOfAdded ==
    ASSUME NEW r, NEW a \in Nat, NEW b \in Nat, NEW c \in Nat, NEW x \in Nat,
           r = a + b + c
    PROVE  r + x + x = (a + x) + b + (c + x)
OBVIOUS

LEMMA InAdded ==
    ASSUME NEW q, NEW e, NEW x, e \notin q
    PROVE  In(x, q \cup {e}) = In(x, q) + In(x, {e})
BY DEF In

LEMMA InParts ==
    ASSUME NEW q, NEW r \in SUBSET q, NEW x
    PROVE  In(x, q) = In(x, q \ r) + In(x, r)
BY DEF In

LEMMA SumOfDropped ==
    ASSUME NEW r, NEW t \in Nat, NEW a, NEW b \in Nat, NEW c \in Nat,
           NEW x \in Nat, NEW y \in Nat, r = a + b + c, a = y + x, r = t + x
    PROVE  t = y + b + c
OBVIOUS

LEMMA SumOfFreed ==
    ASSUME NEW r \in Nat, NEW t \in Nat, NEW u \in Nat, NEW a \in Nat, NEW b \in Nat,
           NEW c, NEW y \in Nat, r = a + b + c, c = y + a, r = t + a, t = u + a
    PROVE  u = b + y
OBVIOUS

(* Every object that is held has a reference.                              *)
LEMMA HeldIsAlive ==
    ASSUME NEW s, Held(s), NEW e \in Errors,
           \/ e \in s.errors \cup s.mine
           \/ \E i \in DOMAIN s.lists : e \in s.lists[i]
    PROVE  s.refs[e] # 0
<1>1. s.lists \in Seq(SUBSET Errors)
  BY DEF Held, IsEs
<1>2. /\ s.refs[e] = In(e, s.errors) + Count(s.lists, e) + In(e, s.mine)
      /\ Count(s.lists, e) \in Nat
  BY <1>1, CountIsNat DEF Held, Balanced
<1>3. In(e, s.errors) \in Nat /\ In(e, s.mine) \in Nat
  BY DEF In
<1>4. CASE e \in s.errors \cup s.mine
  <2>1. In(e, s.errors) = 1 \/ In(e, s.mine) = 1
    BY <1>4 DEF In
  <2>. QED
    BY <1>2, <1>3, <2>1, SumPositive
<1>5. CASE \E i \in DOMAIN s.lists : e \in s.lists[i]
  <2>1. Count(s.lists, e) # 0
    <3>1. {i \in DOMAIN s.lists : e \in s.lists[i]} # {}
      BY <1>5
    <3>. QED
      BY <1>1, <3>1, CountIsNat, FS_EmptySet DEF Count
  <2>. QED
    BY <1>2, <1>3, <2>1, SumPositive
<1>. QED
  BY <1>4, <1>5

(* A created error has two references, of the list and of its creator.     *)
LEMMA CreatedBalanced ==
    ASSUME NEW q, NEW own, NEW n \in Nat, NEW f, NEW g, NEW x, NEW e,
           e \notin q, e \notin own,
           f = In(x, q) + n + In(x, own), g = f + In(x, {e}) + In(x, {e})
    PROVE  g = In(x, q \cup {e}) + n + In(x, own \cup {e})
<1>1. In(x, q) \in Nat /\ In(x, own) \in Nat /\ In(x, {e}) \in Nat
  BY DEF In
<1>2. /\ In(x, q \cup {e}) = In(x, q) + In(x, {e})
      /\ In(x, own \cup {e}) = In(x, own) + In(x, {e})
  BY InAdded
<1>. QED
  BY <1>1, <1>2, SumOfAdded

LEMMA CreateHolds ==
    ASSUME NEW s, Held(s), NEW e \in Errors, NEW m \in Modules \cup {EmptyId}, NEW t \in ErrTypes,
           e \notin s.errors \cup s.mine
    PROVE  Held(CreateErrInfo(s, e, m, t))
<1>1. CASE m = EmptyId
  BY <1>1 DEF CreateErrInfo, Held, IsEs, Balanced
<1>2. CASE m # EmptyId
  <2>. DEFINE a == [s EXCEPT !.obj[e] = [NoError EXCEPT !.mod = m, !.type = t],
                             !.errors = @ \cup {e}]
              b == IncrefAll(a, {e})
              c == IncrefAll(b, {e})
              d == [c EXCEPT !.mine = @ \cup {e}, !.errno = "0"]
  <2>1. CreateErrInfo(s, e, m, t) = d
    BY <1>2 DEF CreateErrInfo, NewErrorInfo, Incref
  <2>2. /\ IsEs(a) /\ a.errors = s.errors \cup {e} /\ a.mine = s.mine
        /\ a.refs = s.refs /\ a.lists = s.lists /\ a.corrupt = s.corrupt
    <3>1. [NoError EXCEPT !.mod = m, !.type = t] \in ErrorObjects
      BY DEF NoError, ErrorObjects
    <3>. QED
      BY <3>1 DEF Held, IsEs
  <2>. HIDE DEF a
  <2>3. /\ IsEs(b) /\ b.errors = a.errors /\ b.mine = a.mine /\ b.lists = a.lists
        /\ b.corrupt = a.corrupt
        /\ \A x \in Errors : b.refs[x] = a.refs[x] + In(x, {e})
    BY <2>2, Increased
  <2>. HIDE DEF b
  <2>4. /\ IsEs(c) /\ c.errors = b.errors /\ c.mine = b.mine /\ c.lists = b.lists
        /\ c.corrupt = b.corrupt
        /\ \A x \in Errors : c.refs[x] = b.refs[x] + In(x, {e})
    <3>1. {e} \in SUBSET Errors
      OBVIOUS
    <3>. QED
      BY <2>3, <3>1, Increased
  <2>. HIDE DEF c
  <2>5. /\ IsEs(d) /\ d.errors = s.errors \cup {e} /\ d.mine = s.mine \cup {e}
        /\ d.lists = s.lists /\ d.corrupt = s.corrupt /\ d.refs = c.refs
    BY <2>2, <2>3, <2>4 DEF IsEs
  <2>. HIDE DEF d
  <2>6. \A x \in Errors : d.refs[x] = s.refs[x] + In(x, {e}) + In(x, {e})
    BY <2>2, <2>3, <2>4, <2>5
  <2>7. ASSUME NEW x \in Errors
        PROVE  d.refs[x] = In(x, d.errors) + Count(d.lists, x) + In(x, d.mine)
    <3>1. /\ s.refs[x] = In(x, s.errors) + Count(s.lists, x) + In(x, s.mine)
          /\ d.refs[x] = s.refs[x] + In(x, {e}) + In(x, {e})
          /\ Count(s.lists, x) \in Nat
      BY <2>6, CountIsNat DEF Held, Balanced, IsEs
    <3>. QED
      BY <2>5, <3>1, CreatedBalanced
  <2>. QED
    BY <2>1, <2>5, <2>7 DEF Held, Balanced
<1>. QED
  BY <1>1, <1>2

LEMMA ConvertHolds ==
    ASSUME NEW s, Held(s), NEW q \in SUBSET Errors
    PROVE  Held(Convert(s, q))
<1>. SUFFICES ASSUME q # {}
              PROVE  Held(Convert(s, q))
  BY DEF Convert
<1>. DEFINE a == IncrefAll(s, q)
            b == [a EXCEPT !.lists = Append(@, q)]
<1>1. /\ IsEs(a) /\ a.errors = s.errors /\ a.mine = s.mine /\ a.lists = s.lists
      /\ a.corrupt = s.corrupt
      /\ \A x \in Errors : a.refs[x] = s.refs[x] + In(x, q)
  BY Increased DEF Held
<1>2. Convert(s, q) = b
  BY DEF Convert
<1>. HIDE DEF a
<1>3. a.lists \in Seq(SUBSET Errors) /\ Append(a.lists, q) \in Seq(SUBSET Errors)
  BY <1>1, AppendProperties DEF IsEs
<1>4. /\ IsEs(b) /\ b.errors = s.errors /\ b.mine = s.mine /\ b.refs = a.refs
      /\ b.lists = Append(s.lists, q) /\ b.corrupt = s.corrupt
  BY <1>1, <1>3 DEF IsEs
<1>. HIDE DEF b
<1>5. ASSUME NEW x \in Errors
      PROVE  b.refs[x] = In(x, b.errors) + Count(b.lists, x) + In(x, b.mine)
  <2>1. /\ s.refs[x] = In(x, s.errors) + Count(s.lists, x) + In(x, s.mine)
        /\ Count(s.lists, x) \in Nat
    BY <1>1, <1>3, CountIsNat DEF Held, Balanced
  <2>2. Count(b.lists, x) = Count(s.lists, x) + In(x, q)
    BY ZenonT(120), <1>1, <1>3, <1>4, CountAppended
  <2>3. In(x, s.errors) \in Nat /\ In(x, s.mine) \in Nat /\ In(x, q) \in Nat
    BY DEF In
  <2>. QED
    BY <1>1, <1>4, <2>1, <2>2, <2>3
<1>. QED
  BY <1>2, <1>4, <1>5 DEF Held, Balanced

LEMMA FreeListHolds ==
    ASSUME NEW s, Held(s), NEW i \in DOMAIN s.lists
    PROVE  Held(FreeErrInfoList(s, i))
<1>1. /\ s.lists \in Seq(SUBSET Errors) /\ i \in 1 .. Len(s.lists)
      /\ s.lists[i] \in SUBSET Errors
  BY LenProperties, ElementOfSeq DEF Held, IsEs
<1>. DEFINE a == DecrefAll(s, s.lists[i])
            b == [a EXCEPT !.lists = RemoveAt(@, i)]
<1>2. \A e \in s.lists[i] : s.refs[e] # 0
  BY <1>1, HeldIsAlive
<1>3. /\ IsEs(a) /\ a.errors = s.errors /\ a.mine = s.mine /\ a.lists = s.lists
      /\ a.corrupt = s.corrupt
      /\ \A x \in Errors : s.refs[x] = a.refs[x] + In(x, s.lists[i])
  BY <1>1, <1>2, Decreased DEF Held
<1>4. FreeErrInfoList(s, i) = b
  BY DEF FreeErrInfoList
<1>. HIDE DEF a
<1>5. RemoveAt(s.lists, i) \in Seq(SUBSET Errors)
  BY <1>1, RemovedAt
<1>6. /\ IsEs(b) /\ b.errors = s.errors /\ b.mine = s.mine /\ b.refs = a.refs
      /\ b.lists = RemoveAt(s.lists, i) /\ b.corrupt = s.corrupt
  BY <1>3, <1>5 DEF IsEs
<1>. HIDE DEF b
<1>7. ASSUME NEW x \in Errors
      PROVE  b.refs[x] = In(x, b.errors) + Count(b.lists, x) + In(x, b.mine)
  <2>1. s.refs[x] = In(x, s.errors) + Count(s.lists, x) + In(x, s.mine)
    BY DEF Held, Balanced
  <2>2. /\ Count(s.lists, x) = Count(b.lists, x) + In(x, s.lists[i])
        /\ Count(b.lists, x) \in Nat
    BY <1>1, <1>5, <1>6, CountRemoved, CountIsNat
  <2>3. In(x, s.errors) \in Nat /\ In(x, s.mine) \in Nat /\ In(x, s.lists[i]) \in Nat
    BY DEF In
  <2>4. a.refs[x] \in Nat
    BY <1>3 DEF IsEs
  <2>. QED
    BY <1>3, <1>6, <2>1, <2>2, <2>3, <2>4
<1>. QED
  BY <1>4, <1>6, <1>7 DEF Held, Balanced

(* The references of errors that leave the list are dropped.               *)
LEMMA ClearHolds ==
    ASSUME NEW s, Held(s), NEW q \in SUBSET s.errors
    PROVE  Held([DecrefAll(s, q) EXCEPT !.errors = @ \ q])
<1>. DEFINE a == DecrefAll(s, q)
            b == [a EXCEPT !.errors = @ \ q]
<1>1. q \in SUBSET Errors /\ \A e \in q : s.refs[e] # 0
  <2>1. q \in SUBSET Errors
    BY DEF Held, IsEs
  <2>. QED
    BY <2>1, HeldIsAlive
<1>2. /\ IsEs(a) /\ a.errors = s.errors /\ a.mine = s.mine /\ a.lists = s.lists
      /\ a.corrupt = s.corrupt
      /\ \A x \in Errors : s.refs[x] = a.refs[x] + In(x, q)
  BY <1>1, Decreased DEF Held
<1>. SUFFICES Held(b)
  OBVIOUS
<1>. HIDE DEF a
<1>3. /\ IsEs(b) /\ b.errors = s.errors \ q /\ b.mine = s.mine /\ b.refs = a.refs
      /\ b.lists = s.lists /\ b.corrupt = s.corrupt
  BY <1>2 DEF IsEs
<1>. HIDE DEF b
<1>4. ASSUME NEW x \in Errors
      PROVE  b.refs[x] = In(x, b.errors) + Count(b.lists, x) + In(x, b.mine)
  <2>1. s.refs[x] = In(x, s.errors) + Count(s.lists, x) + In(x, s.mine)
    BY DEF Held, Balanced
  <2>2. Count(s.lists, x) \in Nat
    BY CountIsNat DEF Held, IsEs
  <2>3. In(x, b.errors) \in Nat /\ In(x, s.mine) \in Nat /\ In(x, q) \in Nat
    BY DEF In
  <2>4. In(x, s.errors) = In(x, b.errors) + In(x, q)
    BY <1>3, InParts
  <2>5. b.refs[x] \in Nat /\ s.refs[x] = b.refs[x] + In(x, q)
    BY <1>2, <1>3 DEF IsEs
  <2>6. b.refs[x] = In(x, b.errors) + Count(s.lists, x) + In(x, s.mine)
    <3>1. s.refs[x] \in Nat /\ In(x, s.errors) \in Nat
      BY <2>3, <2>4, <2>5
    <3>. QED
      BY <2>1, <2>2, <2>3, <2>4, <2>5, <3>1, SumOfDropped
  <2>. QED
    BY <1>3, <2>6
<1>. QED
  BY <1>3, <1>4 DEF Held, Balanced

(* es_free_errors() drops two references of each error: the one of the     *)
(* list and the one of its creator.                                        *)
LEMMA FreeErrorsHolds ==
    ASSUME NEW s, Held(s)
    PROVE  Held(FreeErrors(s))
<1>. DEFINE all == s.errors
            a == IncrefAll(s, all)
            b == DecrefAll(a, all)
            c == DecrefAll(b, all)
            d == DecrefAll(c, all)
            f == [[d EXCEPT !.errors = {}] EXCEPT !.mine = @ \ all]
<1>1. IsEs(s) /\ ~s.corrupt /\ all \in SUBSET Errors /\ all \subseteq s.mine
  BY DEF Held, IsEs
<1>2. FreeErrors(s) = f
  <2>1. c.errors = all
    BY <1>1 DEF IncrefAll, DecrefAll, IsEs
  <2>. QED
    BY <2>1 DEF FreeErrors, ClearErrorList
<1>3. ASSUME NEW x \in all
      PROVE  /\ s.refs[x] = In(x, s.errors) + Count(s.lists, x) + In(x, s.mine)
             /\ Count(s.lists, x) \in Nat /\ In(x, s.errors) = 1 /\ In(x, s.mine) = 1
  BY <1>1, <1>3, CountIsNat DEF Held, Balanced, IsEs, In
<1>4. ASSUME NEW x \in all
      PROVE  s.refs[x] \in Nat /\ s.refs[x] # 0 /\ s.refs[x] # 1
  BY <1>3, <1>4
<1>5. \A x \in Errors : In(x, all) \in Nat /\ (x \in all => In(x, all) = 1)
  BY DEF In
<1>6. /\ IsEs(a) /\ a.errors = s.errors /\ a.mine = s.mine /\ a.lists = s.lists
      /\ a.corrupt = s.corrupt
      /\ \A x \in Errors : a.refs[x] = s.refs[x] + In(x, all)
  <2>. HIDE DEF all
  <2>. QED
    BY <1>1, Increased
<1>7. \A x \in all : a.refs[x] # 0
  BY <1>1, <1>4, <1>5, <1>6
<1>. HIDE DEF a
<1>8. /\ IsEs(b) /\ b.errors = s.errors /\ b.mine = s.mine /\ b.lists = s.lists
      /\ b.corrupt = s.corrupt
      /\ \A x \in Errors : a.refs[x] = b.refs[x] + In(x, all)
  <2>. HIDE DEF all
  <2>. QED
    BY <1>1, <1>6, <1>7, Decreased
<1>9. \A x \in Errors : b.refs[x] = s.refs[x] /\ b.refs[x] \in Nat
  <2>1. ASSUME NEW x \in Errors
        PROVE  /\ b.refs[x] \in Nat /\ s.refs[x] \in Nat
               /\ b.refs[x] + In(x, all) = s.refs[x] + In(x, all)
    BY <1>1, <1>5, <1>6, <1>8 DEF IsEs
  <2>. QED
    BY <1>5, <2>1
<1>. HIDE DEF b
<1>10. /\ IsEs(c) /\ c.errors = s.errors /\ c.mine = s.mine /\ c.lists = s.lists
       /\ c.corrupt = s.corrupt
       /\ \A x \in Errors : b.refs[x] = c.refs[x] + In(x, all)
  <2>1. \A x \in all : b.refs[x] # 0
    BY <1>1, <1>4, <1>9
  <2>. HIDE DEF all
  <2>. QED
    BY <1>1, <1>8, <2>1, Decreased
<1>11. \A x \in all : c.refs[x] # 0
  <2>1. ASSUME NEW x \in all
        PROVE  s.refs[x] = c.refs[x] + 1 /\ c.refs[x] \in Nat
    BY <1>1, <1>5, <1>9, <1>10, <2>1 DEF IsEs
  <2>. QED
    BY <1>4, <2>1
<1>. HIDE DEF c
<1>12. /\ IsEs(d) /\ d.errors = s.errors /\ d.mine = s.mine /\ d.lists = s.lists
       /\ d.corrupt = s.corrupt
       /\ \A x \in Errors : c.refs[x] = d.refs[x] + In(x, all)
  <2>. HIDE DEF all
  <2>. QED
    BY <1>1, <1>10, <1>11, Decreased
<1>. HIDE DEF d
<1>13. /\ IsEs(f) /\ f.errors = {} /\ f.mine = s.mine \ all /\ f.lists = s.lists
       /\ f.corrupt = s.corrupt /\ f.refs = d.refs
  BY <1>1, <1>12 DEF IsEs
<1>. HIDE DEF f
<1>14. ASSUME NEW x \in Errors
       PROVE  f.refs[x] = In(x, f.errors) + Count(f.lists, x) + In(x, f.mine)
  <2>1. /\ s.refs[x] = In(x, all) + Count(s.lists, x) + In(x, s.mine)
        /\ Count(s.lists, x) \in Nat
    BY CountIsNat DEF Held, Balanced, IsEs
  <2>2. /\ s.refs[x] = c.refs[x] + In(x, all) /\ c.refs[x] = d.refs[x] + In(x, all)
        /\ d.refs[x] \in Nat /\ c.refs[x] \in Nat /\ s.refs[x] \in Nat
    BY <1>1, <1>9, <1>10, <1>12 DEF IsEs
  <2>3. In(x, s.mine) = In(x, f.mine) + In(x, all)
    BY <1>1, <1>13, InParts
  <2>4. In(x, f.errors) = 0 /\ In(x, f.mine) \in Nat /\ In(x, all) \in Nat
    BY <1>13 DEF In
  <2>5. d.refs[x] = Count(s.lists, x) + In(x, f.mine)
    BY <2>1, <2>2, <2>3, <2>4, SumOfFreed
  <2>. QED
    BY <1>13, <2>1, <2>4, <2>5
<1>. QED
  BY <1>1, <1>2, <1>13, <1>14 DEF Held, Balanced

(* Data that is set and objects that are looked into change no reference.  *)
LEMMA LookHolds ==
    ASSUME NEW s, Held(s), NEW q \in SUBSET Errors, \A e \in q : s.refs[e] # 0
    PROVE  Held(LookInto(s, q))
BY DEF LookInto, Held, IsEs, Balanced

LEMMA SetDataHolds ==
    ASSUME NEW s, Held(s), NEW e \in Errors, NEW t \in DataTypes, NEW given \in DataTypes
    PROVE  Held(SetErrData(s, e, t, given))
<1>1. CASE t # given
  BY <1>1 DEF SetErrData, Held, IsEs, Balanced
<1>2. CASE t = given
  <2>. DEFINE o == [s.obj EXCEPT ![e].data = @ \cup {t}]
              r == [s EXCEPT !.obj = o, !.errno = "0"]
  <2>1. o \in [Errors -> ErrorObjects]
    BY ZenonT(120) DEF Held, IsEs, ErrorObjects
  <2>2. SetErrData(s, e, t, given) = r
    BY <1>2 DEF SetErrData, Held, IsEs
  <2>. HIDE DEF o
  <2>3. /\ IsEs(r) /\ r.refs = s.refs /\ r.errors = s.errors /\ r.lists = s.lists
        /\ r.mine = s.mine /\ r.corrupt = s.corrupt
    BY <2>1 DEF Held, IsEs
  <2>. HIDE DEF r
  <2>. QED
    BY <2>2, <2>3 DEF Held, Balanced
<1>. QED
  BY <1>1, <1>2

--------------------------------------------------------------------------------
LEMMA HeldInit ==
    ASSUME EsInit
    PROVE  Held(es)
<1>1. IsEs(es)
  <2>1. NoError \in ErrorObjects
    BY DEF NoError, ErrorObjects
  <2>2. <<>> \in Seq(SUBSET Errors)
    BY EmptySeq
  <2>. QED
    BY <2>1, <2>2 DEF EsInit, IsEs
<1>2. ASSUME NEW e \in Errors
      PROVE  Count(es.lists, e) = 0
  <2>1. {i \in DOMAIN es.lists : e \in es.lists[i]} = {}
    BY DEF EsInit
  <2>. QED
    BY <2>1, FS_EmptySet DEF Count
<1>3. Balanced(es)
  BY <1>2 DEF EsInit, Balanced, In
<1>. QED
  BY <1>1, <1>3 DEF EsInit, Held

LEMMA HeldNext ==
    ASSUME Makers \subseteq {"c"}, Held(es), EsNext
    PROVE  Held(es')
<1>1. IsEs(es) /\ es.errors \in SUBSET Errors /\ es.errors \subseteq es.mine
  BY DEF Held, IsEs
<1>2. ASSUME NEW e \in Errors, NEW m \in Modules \cup {EmptyId}, NEW t \in ErrTypes,
             CreateFromC(e, m, t)
      PROVE  Held(es')
  BY <1>2, CreateHolds DEF CreateFromC, Fresh, HeldErrors
<1>3. ASSUME NEW e \in Errors, NEW m \in Modules \cup {EmptyId}, NEW t \in ErrTypes,
             CreateFromPython(e, m, t)
      PROVE  Held(es')
  BY <1>3 DEF CreateFromPython
<1>4. CASE GetAllErrors
  BY <1>1, <1>4, ConvertHolds DEF GetAllErrors
<1>5. CASE FreeAllErrors
  BY <1>5, FreeErrorsHolds DEF FreeAllErrors
<1>6. CASE ClearAllErrors
  <2>1. Held([DecrefAll(es, es.errors) EXCEPT !.errors = @ \ es.errors])
    BY ClearHolds
  <2>2. DecrefAll(es, es.errors).errors \ es.errors = {}
    BY <1>1 DEF DecrefAll, IsEs
  <2>. QED
    BY <1>6, <2>1, <2>2 DEF ClearAllErrors, ClearErrorList
<1>7. CASE Dump
  <2>1. \A e \in es.errors : es.refs[e] # 0
    BY <1>1, HeldIsAlive
  <2>. QED
    BY <1>1, <1>7, <2>1, LookHolds DEF Dump, DumpAll
<1>8. ASSUME NEW m \in Modules, GetErrorsByModId(m)
      PROVE  Held(es')
  BY <1>1, <1>8, Selected, ConvertHolds DEF GetErrorsByModId
<1>9. ASSUME NEW m \in Modules, ClearModule(m)
      PROVE  Held(es')
  BY <1>1, <1>9, Selected, ClearHolds DEF ClearModule, ClearByModId
<1>10. ASSUME NEW t \in ErrTypes, GetErrorsByType(t)
       PROVE  Held(es')
  BY <1>1, <1>10, Selected, ConvertHolds DEF GetErrorsByType
<1>11. ASSUME NEW i \in DOMAIN es.lists, FreeList(i)
       PROVE  Held(es')
  BY <1>11, FreeListHolds DEF FreeList
<1>12. ASSUME NEW e \in HeldErrors
       PROVE  e \in Errors /\ es.refs[e] # 0
  <2>1. \/ e \in es.mine
        \/ \E i \in DOMAIN es.lists : e \in es.lists[i]
    BY <1>12 DEF HeldErrors
  <2>2. e \in Errors
    <3>1. es.lists \in Seq(SUBSET Errors) /\ es.mine \in SUBSET Errors
      BY <1>1 DEF IsEs
    <3>. QED
      BY <2>1, <3>1, LenProperties, ElementOfSeq
  <2>. QED
    BY <2>1, <2>2, HeldIsAlive
<1>13. ASSUME NEW e \in HeldErrors, Look(e)
       PROVE  Held(es')
  <2>1. {e} \in SUBSET Errors
    BY <1>12
  <2>. QED
    BY <1>12, <1>13, <2>1, LookHolds DEF Look
<1>14. ASSUME NEW e \in HeldErrors, NEW t \in DataTypes, NEW given \in DataTypes,
              SetData(e, t, given)
       PROVE  Held(es')
  BY <1>12, <1>14, SetDataHolds DEF SetData
<1>. QED
  BY <1>2, <1>3, <1>4, <1>5, <1>6, <1>7, <1>8, <1>9, <1>10, <1>11, <1>13, <1>14 DEF EsNext

(* When the errors are created through the C interface, every object has   *)
(* exactly the references of its holders: none is used after it is gone    *)
(* and none is left over (errsvc.c), whatever is created, listed, freed    *)
(* and cleared in whatever order.                                          *)
THEOREM RefsExactHolds ==
    ASSUME Makers \subseteq {"c"}
    PROVE  EsSpec => []RefsExact
<1>1. Held(es) /\ [EsNext]_es => Held(es)'
  BY HeldNext DEF Held, Balanced, IsEs
<1>2. Held(es) => RefsExact
  BY DEF Held, Balanced, RefsExact, In, Count
<1>. QED
  BY <1>1, <1>2, HeldInit, PTL DEF EsSpec

-----------------------------------------------------------------------------
(* The lists of screens *)

(* The order of the screens, which every list of them keeps; a session that *)
(* is done is beyond all of them.                                          *)
Rank(s) ==
    CASE s = "welcome" -> 1 [] s = "disk" -> 2 [] s = "fdisk" -> 3 [] s = "parts" -> 4
      [] s = "fdisk_slice" -> 5 [] s = "parts_slice" -> 6 [] s = "network" -> 7
      [] s = "nic_select" -> 8 [] s = "nic_config" -> 9 [] s = "regions" -> 10
      [] s = "locations" -> 11 [] s = "timezone" -> 12 [] s = "date" -> 13
      [] s = "summary" -> 14 [] s = "done" -> 15 [] OTHER -> 0

\* Every screen has a rank.
LEMMA RankType == \A s : Rank(s) \in Nat
BY DEF Rank

Sorted(s, lo, hi) ==
    /\ s \in Seq(Screens)
    /\ \A i \in 1 .. Len(s) : lo < Rank(s[i]) /\ Rank(s[i]) <= hi
    /\ \A i, j \in 1 .. Len(s) : i < j => Rank(s[i]) < Rank(s[j])

\* Sorted lists one after the other are sorted.
LEMMA SortedConcat ==
    ASSUME NEW lo \in Nat, NEW mid \in Nat, NEW hi \in Nat, lo <= mid, mid <= hi,
           NEW s, NEW t, Sorted(s, lo, mid), Sorted(t, mid, hi)
    PROVE  Sorted(s \o t, lo, hi)
<1>1. s \in Seq(Screens) /\ t \in Seq(Screens) /\ Len(s) \in Nat /\ Len(t) \in Nat
  BY DEF Sorted
<1>2. /\ s \o t \in Seq(Screens) /\ Len(s \o t) = Len(s) + Len(t)
      /\ \A i \in 1 .. Len(s) + Len(t) :
            (s \o t)[i] = IF i <= Len(s) THEN s[i] ELSE t[i - Len(s)]
  BY <1>1, ConcatProperties
<1>3. \A i \in 1 .. Len(s) : lo < Rank(s[i]) /\ Rank(s[i]) <= mid /\ Rank(s[i]) \in Nat
  BY RankType DEF Sorted
<1>4. \A i \in 1 .. Len(t) : mid < Rank(t[i]) /\ Rank(t[i]) <= hi /\ Rank(t[i]) \in Nat
  BY RankType DEF Sorted
<1>5. \A i \in 1 .. Len(s) + Len(t) :
         \/ i \in 1 .. Len(s) /\ (s \o t)[i] = s[i]
         \/ i - Len(s) \in 1 .. Len(t) /\ (s \o t)[i] = t[i - Len(s)] /\ i > Len(s)
  BY <1>1, <1>2
<1>6. ASSUME NEW i \in 1 .. Len(s) + Len(t), NEW j \in 1 .. Len(s) + Len(t), i < j
      PROVE  Rank((s \o t)[i]) < Rank((s \o t)[j])
  <2>1. CASE j <= Len(s)
    BY <1>1, <1>2, <1>6, <2>1 DEF Sorted
  <2>2. CASE i > Len(s)
    <3>1. i - Len(s) \in 1 .. Len(t) /\ j - Len(s) \in 1 .. Len(t) /\ i - Len(s) < j - Len(s)
      BY <1>1, <1>6, <2>2
    <3>2. (s \o t)[i] = t[i - Len(s)] /\ (s \o t)[j] = t[j - Len(s)]
      BY <1>1, <1>2, <1>6, <2>2
    <3>. QED
      BY <3>1, <3>2 DEF Sorted
  <2>3. CASE i <= Len(s) /\ j > Len(s)
    <3>1. i \in 1 .. Len(s) /\ j - Len(s) \in 1 .. Len(t)
      BY <1>1, <1>6, <2>3
    <3>2. (s \o t)[i] = s[i] /\ (s \o t)[j] = t[j - Len(s)]
      BY <1>1, <1>2, <1>6, <2>3
    <3>. QED
      BY <1>3, <1>4, <3>1, <3>2
  <2>. QED
    BY <1>1, <1>6, <2>1, <2>2, <2>3
<1>7. ASSUME NEW i \in 1 .. Len(s) + Len(t)
      PROVE  lo < Rank((s \o t)[i]) /\ Rank((s \o t)[i]) <= hi
  BY <1>1, <1>3, <1>4, <1>5
<1>. QED
  BY <1>2, <1>6, <1>7 DEF Sorted

LEMMA SortedEmpty ==
    ASSUME NEW lo, NEW hi
    PROVE  Sorted(<<>>, lo, hi) /\ <<>> \in Seq(Screens) /\ ToSet(<<>>) = {}
BY DEF Sorted, ToSet

\* A part of a list that is left out disturbs no order.
LEMMA SortedWhen ==
    ASSUME NEW lo, NEW hi, NEW c, NEW s, Sorted(s, lo, hi)
    PROVE  Sorted(When(c, s), lo, hi)
<1>1. CASE c
  BY <1>1 DEF When
<1>2. CASE ~c
  BY <1>2 DEF When, Sorted
<1>. QED
  BY <1>1, <1>2

(* What a list holds.                                                      *)
LEMMA ToSetConcat ==
    ASSUME NEW s \in Seq(Screens), NEW t \in Seq(Screens)
    PROVE  s \o t \in Seq(Screens) /\ ToSet(s \o t) = ToSet(s) \cup ToSet(t)
<1>1. /\ s \o t \in Seq(Screens) /\ Len(s \o t) = Len(s) + Len(t)
      /\ \A i \in 1 .. Len(s) + Len(t) :
            (s \o t)[i] = IF i <= Len(s) THEN s[i] ELSE t[i - Len(s)]
  BY ConcatProperties
<1>2. Len(s) \in Nat /\ Len(t) \in Nat /\ DOMAIN s = 1 .. Len(s) /\ DOMAIN t = 1 .. Len(t)
      /\ DOMAIN (s \o t) = 1 .. Len(s) + Len(t)
  BY <1>1
<1>3. ASSUME NEW x \in ToSet(s \o t) PROVE x \in ToSet(s) \cup ToSet(t)
  <2>1. PICK i \in 1 .. Len(s) + Len(t) : x = (s \o t)[i]
    BY <1>2 DEF ToSet
  <2>2. CASE i <= Len(s)
    BY <1>1, <1>2, <2>1, <2>2 DEF ToSet
  <2>3. CASE i > Len(s)
    <3>1. i - Len(s) \in 1 .. Len(t) /\ x = t[i - Len(s)]
      BY <1>1, <1>2, <2>1, <2>3
    <3>. QED
      BY <1>2, <3>1 DEF ToSet
  <2>. QED
    BY <1>2, <2>2, <2>3
<1>4. ASSUME NEW x \in ToSet(s) PROVE x \in ToSet(s \o t)
  BY <1>1, <1>2 DEF ToSet
<1>5. ASSUME NEW x \in ToSet(t) PROVE x \in ToSet(s \o t)
  <2>1. PICK i \in 1 .. Len(t) : x = t[i]
    BY <1>2 DEF ToSet
  <2>2. i + Len(s) \in 1 .. Len(s) + Len(t) /\ (s \o t)[i + Len(s)] = t[i]
    BY <1>1, <1>2
  <2>. QED
    BY <1>2, <2>1, <2>2 DEF ToSet
<1>. QED
  BY <1>1, <1>3, <1>4, <1>5

LEMMA ToSetWhen ==
    ASSUME NEW c, NEW s \in Seq(Screens)
    PROVE  When(c, s) \in Seq(Screens) /\ ToSet(When(c, s)) = {x \in ToSet(s) : c}
<1>1. CASE c
  BY <1>1 DEF When
<1>2. CASE ~c
  BY <1>2 DEF When, ToSet
<1>. QED
  BY <1>1, <1>2

\* What a list begins with stays first.
LEMMA FirstConcat ==
    ASSUME NEW s \in Seq(Screens), NEW t \in Seq(Screens), s[1] = "welcome", Len(s) >= 1
    PROVE  (s \o t)[1] = "welcome" /\ Len(s \o t) >= 1
<1>1. /\ Len(s \o t) = Len(s) + Len(t) /\ Len(s) \in Nat /\ Len(t) \in Nat
      /\ \A i \in 1 .. Len(s) + Len(t) :
            (s \o t)[i] = IF i <= Len(s) THEN s[i] ELSE t[i - Len(s)]
  BY ConcatProperties
<1>2. 1 \in 1 .. Len(s) + Len(t)
  BY <1>1
<1>. QED
  BY <1>1, <1>2

LEMMA RankValues ==
    /\ Rank("welcome") = 1 /\ Rank("disk") = 2 /\ Rank("fdisk") = 3 /\ Rank("parts") = 4
    /\ Rank("fdisk_slice") = 5 /\ Rank("parts_slice") = 6 /\ Rank("network") = 7
    /\ Rank("nic_select") = 8 /\ Rank("nic_config") = 9 /\ Rank("regions") = 10
    /\ Rank("locations") = 11 /\ Rank("timezone") = 12 /\ Rank("date") = 13
    /\ Rank("summary") = 14 /\ Rank("done") = 15 /\ Rank("help") = 0 /\ Rank("quit") = 0
    /\ Rank("failed") = 0
BY DEF Rank

(* The pieces that lists are made of.                                      *)
LEMMA Pieces ==
    /\ Sorted(<<"welcome", "disk", "fdisk", "parts">>, 0, 4)
    /\ Sorted(<<"fdisk_slice", "parts_slice">>, 4, 6)
    /\ Sorted(<<"network", "regions", "locations", "timezone", "date", "summary">>, 6, 14)
    /\ Sorted(<<"welcome">>, 0, 1) /\ Sorted(<<"network">>, 1, 7)
    /\ Sorted(<<"nic_select", "nic_config">>, 7, 9)
    /\ Sorted(<<"regions", "locations", "timezone">>, 9, 12) /\ Sorted(<<"date">>, 12, 14)
<1>1. Sorted(<<"welcome", "disk", "fdisk", "parts">>, 0, 4)
  <2>. DEFINE a == <<"welcome", "disk", "fdisk", "parts">>
  <2>1. a \in Seq(Screens) /\ Len(a) = 4
    BY DEF Screens
  <2>2. \A i \in 1 .. 4 : Rank(a[i]) = i
    BY RankValues
  <2>. HIDE DEF a
  <2>3. Sorted(a, 0, 4)
    BY <2>1, <2>2 DEF Sorted
  <2>. QED
    BY <2>3 DEF a
<1>2. Sorted(<<"fdisk_slice", "parts_slice">>, 4, 6)
  <2>. DEFINE a == <<"fdisk_slice", "parts_slice">>
  <2>1. a \in Seq(Screens) /\ Len(a) = 2
    BY DEF Screens
  <2>2. \A i \in 1 .. 2 : Rank(a[i]) = 4 + i
    BY RankValues
  <2>. HIDE DEF a
  <2>3. Sorted(a, 4, 6)
    BY <2>1, <2>2 DEF Sorted
  <2>. QED
    BY <2>3 DEF a
<1>3. Sorted(<<"network", "regions", "locations", "timezone", "date", "summary">>, 6, 14)
  <2>. DEFINE a == <<"network", "regions", "locations", "timezone", "date", "summary">>
  <2>1. a \in Seq(Screens) /\ Len(a) = 6
    BY DEF Screens
  <2>2. \A i \in 1 .. 6 : Rank(a[i]) = IF i = 1 THEN 7 ELSE 8 + i
    BY RankValues
  <2>. HIDE DEF a
  <2>3. Sorted(a, 6, 14)
    BY <2>1, <2>2 DEF Sorted
  <2>. QED
    BY <2>3 DEF a
<1>4. Sorted(<<"welcome">>, 0, 1)
  <2>. DEFINE a == <<"welcome">>
  <2>1. a \in Seq(Screens) /\ Len(a) = 1
    BY DEF Screens
  <2>2. \A i \in 1 .. 1 : Rank(a[i]) = i
    BY RankValues
  <2>. HIDE DEF a
  <2>3. Sorted(a, 0, 1)
    BY <2>1, <2>2 DEF Sorted
  <2>. QED
    BY <2>3 DEF a
<1>5. Sorted(<<"network">>, 1, 7)
  <2>. DEFINE a == <<"network">>
  <2>1. a \in Seq(Screens) /\ Len(a) = 1
    BY DEF Screens
  <2>2. \A i \in 1 .. 1 : Rank(a[i]) = 6 + i
    BY RankValues
  <2>. HIDE DEF a
  <2>3. Sorted(a, 1, 7)
    BY <2>1, <2>2 DEF Sorted
  <2>. QED
    BY <2>3 DEF a
<1>6. Sorted(<<"nic_select", "nic_config">>, 7, 9)
  <2>. DEFINE a == <<"nic_select", "nic_config">>
  <2>1. a \in Seq(Screens) /\ Len(a) = 2
    BY DEF Screens
  <2>2. \A i \in 1 .. 2 : Rank(a[i]) = 7 + i
    BY RankValues
  <2>. HIDE DEF a
  <2>3. Sorted(a, 7, 9)
    BY <2>1, <2>2 DEF Sorted
  <2>. QED
    BY <2>3 DEF a
<1>7. Sorted(<<"regions", "locations", "timezone">>, 9, 12)
  <2>. DEFINE a == <<"regions", "locations", "timezone">>
  <2>1. a \in Seq(Screens) /\ Len(a) = 3
    BY DEF Screens
  <2>2. \A i \in 1 .. 3 : Rank(a[i]) = 9 + i
    BY RankValues
  <2>. HIDE DEF a
  <2>3. Sorted(a, 9, 12)
    BY <2>1, <2>2 DEF Sorted
  <2>. QED
    BY <2>3 DEF a
<1>8. Sorted(<<"date">>, 12, 14)
  <2>. DEFINE a == <<"date">>
  <2>1. a \in Seq(Screens) /\ Len(a) = 1
    BY DEF Screens
  <2>2. \A i \in 1 .. 1 : Rank(a[i]) = 12 + i
    BY RankValues
  <2>. HIDE DEF a
  <2>3. Sorted(a, 12, 14)
    BY <2>1, <2>2 DEF Sorted
  <2>. QED
    BY <2>3 DEF a
<1>. QED
  BY <1>1, <1>2, <1>3, <1>4, <1>5, <1>6, <1>7, <1>8

(* The screens of the text installer on every machine. *)
TextSet == {"welcome", "disk", "fdisk", "parts", "network", "regions", "locations",
            "timezone", "date", "summary"}

\* The screens of the text installer.
LEMMA TextList ==
    /\ Sorted(TextScreens, 0, 14) /\ TextScreens[1] = "welcome" /\ Len(TextScreens) >= 1
    /\ ToSet(TextScreens) = TextSet \cup {x \in {"fdisk_slice", "parts_slice"} : setup.x86}
<1>. DEFINE a == <<"welcome", "disk", "fdisk", "parts">>
            b == <<"fdisk_slice", "parts_slice">>
            c == <<"network", "regions", "locations", "timezone", "date", "summary">>
            w == When(setup.x86, b)
<1>1. Sorted(a, 0, 4) /\ Sorted(b, 4, 6) /\ Sorted(c, 6, 14)
  BY Pieces
<1>2. /\ ToSet(a) = {"welcome", "disk", "fdisk", "parts"}
      /\ ToSet(b) = {"fdisk_slice", "parts_slice"}
      /\ ToSet(c) = {"network", "regions", "locations", "timezone", "date", "summary"}
  BY DEF ToSet
<1>3. a \in Seq(Screens) /\ b \in Seq(Screens) /\ c \in Seq(Screens)
  BY <1>1 DEF Sorted
<1>4. a[1] = "welcome" /\ Len(a) = 4
  OBVIOUS
<1>. HIDE DEF a, b, c
<1>5. TextScreens = (a \o w) \o c
  BY DEF TextScreens, a, b, c
<1>6. Sorted(w, 4, 6) /\ w \in Seq(Screens) /\ ToSet(w) = {x \in ToSet(b) : setup.x86}
  BY <1>1, <1>3, SortedWhen, ToSetWhen
<1>. HIDE DEF w
<1>7. Sorted(a \o w, 0, 6)
  BY <1>1, <1>6, SortedConcat
<1>8. Sorted((a \o w) \o c, 0, 14)
  BY <1>1, <1>7, SortedConcat
<1>9. a \o w \in Seq(Screens) /\ ToSet(a \o w) = ToSet(a) \cup ToSet(w)
  BY <1>3, <1>6, ToSetConcat
<1>10. ToSet((a \o w) \o c) = ToSet(a \o w) \cup ToSet(c)
  BY <1>3, <1>9, ToSetConcat
<1>11. (a \o w)[1] = "welcome" /\ Len(a \o w) >= 1
  BY <1>3, <1>4, <1>6, FirstConcat
<1>12. ((a \o w) \o c)[1] = "welcome" /\ Len((a \o w) \o c) >= 1
  BY <1>3, <1>9, <1>11, FirstConcat
<1>. QED
  BY <1>2, <1>5, <1>6, <1>8, <1>9, <1>10, <1>12 DEF TextSet

\* The screens of sysconfig create-profile.
LEMMA GroupList ==
    /\ Sorted(GroupScreens, 0, 14) /\ GroupScreens[1] = "welcome" /\ Len(GroupScreens) >= 1
    /\ ToSet(GroupScreens) =
          {"welcome"} \cup {x \in {"network"} : "identity" \in setup.groups}
          \cup {x \in {"nic_select", "nic_config"} : "network" \in setup.groups}
          \cup {x \in TzScreens : "location" \in setup.groups}
          \cup {x \in {"date"} : "date_time" \in setup.groups}
<1>. DEFINE a == <<"welcome">>
            b == <<"network">>
            c == <<"nic_select", "nic_config">>
            d == <<"regions", "locations", "timezone">>
            e == <<"date">>
            wb == When("identity" \in setup.groups, b)
            wc == When("network" \in setup.groups, c)
            wd == When("location" \in setup.groups, d)
            we == When("date_time" \in setup.groups, e)
<1>1. /\ Sorted(a, 0, 1) /\ Sorted(b, 1, 7) /\ Sorted(c, 7, 9) /\ Sorted(d, 9, 12)
      /\ Sorted(e, 12, 14)
  BY Pieces
<1>2. /\ ToSet(a) = {"welcome"} /\ ToSet(b) = {"network"}
      /\ ToSet(c) = {"nic_select", "nic_config"}
      /\ ToSet(d) = {"regions", "locations", "timezone"} /\ ToSet(e) = {"date"}
  BY DEF ToSet
<1>3. /\ a \in Seq(Screens) /\ b \in Seq(Screens) /\ c \in Seq(Screens) /\ d \in Seq(Screens)
      /\ e \in Seq(Screens)
  BY <1>1 DEF Sorted
<1>4. a[1] = "welcome" /\ Len(a) = 1
  OBVIOUS
<1>. HIDE DEF a, b, c, d, e
<1>5. GroupScreens = (((a \o wb) \o wc) \o wd) \o we
  BY DEF GroupScreens, a, b, c, d, e
<1>6. /\ Sorted(wb, 1, 7) /\ wb \in Seq(Screens)
      /\ ToSet(wb) = {x \in ToSet(b) : "identity" \in setup.groups}
  <2>1. CASE "identity" \in setup.groups
    BY <1>1, <1>3, <2>1 DEF When
  <2>2. CASE "identity" \notin setup.groups
    <3>1. wb = <<>>
      BY <2>2 DEF When
    <3>. HIDE DEF wb, wc, wd, we
    <3>. QED
      BY <2>2, <3>1, SortedEmpty
  <2>. QED
    BY <2>1, <2>2
<1>7. /\ Sorted(wc, 7, 9) /\ wc \in Seq(Screens)
      /\ ToSet(wc) = {x \in ToSet(c) : "network" \in setup.groups}
  <2>1. CASE "network" \in setup.groups
    BY <1>1, <1>3, <2>1 DEF When
  <2>2. CASE "network" \notin setup.groups
    <3>1. wc = <<>>
      BY <2>2 DEF When
    <3>. HIDE DEF wb, wc, wd, we
    <3>. QED
      BY <2>2, <3>1, SortedEmpty
  <2>. QED
    BY <2>1, <2>2
<1>8. /\ Sorted(wd, 9, 12) /\ wd \in Seq(Screens)
      /\ ToSet(wd) = {x \in ToSet(d) : "location" \in setup.groups}
  <2>1. CASE "location" \in setup.groups
    BY <1>1, <1>3, <2>1 DEF When
  <2>2. CASE "location" \notin setup.groups
    <3>1. wd = <<>>
      BY <2>2 DEF When
    <3>. HIDE DEF wb, wc, wd, we
    <3>. QED
      BY <2>2, <3>1, SortedEmpty
  <2>. QED
    BY <2>1, <2>2
<1>9. /\ Sorted(we, 12, 14) /\ we \in Seq(Screens)
      /\ ToSet(we) = {x \in ToSet(e) : "date_time" \in setup.groups}
  <2>1. CASE "date_time" \in setup.groups
    BY <1>1, <1>3, <2>1 DEF When
  <2>2. CASE "date_time" \notin setup.groups
    <3>1. we = <<>>
      BY <2>2 DEF When
    <3>. HIDE DEF wb, wc, wd, we
    <3>. QED
      BY <2>2, <3>1, SortedEmpty
  <2>. QED
    BY <2>1, <2>2
<1>. HIDE DEF wb, wc, wd, we
<1>10. Sorted(a \o wb, 0, 7)
  BY <1>1, <1>6, SortedConcat
<1>11. Sorted((a \o wb) \o wc, 0, 9)
  BY <1>7, <1>10, SortedConcat
<1>12. Sorted(((a \o wb) \o wc) \o wd, 0, 12)
  BY <1>8, <1>11, SortedConcat
<1>13. Sorted((((a \o wb) \o wc) \o wd) \o we, 0, 14)
  BY <1>9, <1>12, SortedConcat
<1>14. a \o wb \in Seq(Screens) /\ ToSet(a \o wb) = ToSet(a) \cup ToSet(wb)
  BY <1>3, <1>6, ToSetConcat
<1>15. /\ (a \o wb) \o wc \in Seq(Screens)
       /\ ToSet((a \o wb) \o wc) = ToSet(a \o wb) \cup ToSet(wc)
  BY <1>7, <1>14, ToSetConcat
<1>16. /\ ((a \o wb) \o wc) \o wd \in Seq(Screens)
       /\ ToSet(((a \o wb) \o wc) \o wd) = ToSet((a \o wb) \o wc) \cup ToSet(wd)
  BY <1>8, <1>15, ToSetConcat
<1>17. ToSet((((a \o wb) \o wc) \o wd) \o we) = ToSet(((a \o wb) \o wc) \o wd) \cup ToSet(we)
  BY <1>9, <1>16, ToSetConcat
<1>18. /\ wb \in Seq(Screens) /\ wc \in Seq(Screens) /\ wd \in Seq(Screens)
       /\ we \in Seq(Screens)
  BY <1>6, <1>7, <1>8, <1>9
<1>19. ((((a \o wb) \o wc) \o wd) \o we)[1] = "welcome" /\ Len((((a \o wb) \o wc) \o wd) \o we) >= 1
  <2>1. (a \o wb)[1] = "welcome" /\ Len(a \o wb) >= 1
    <3>1. a \in Seq(Screens) /\ wb \in Seq(Screens) /\ a[1] = "welcome" /\ Len(a) >= 1
      BY <1>3, <1>4, <1>18
    <3>. QED
      BY <3>1, FirstConcat
  <2>2. ((a \o wb) \o wc)[1] = "welcome" /\ Len((a \o wb) \o wc) >= 1
    BY <1>18, <1>14, FirstConcat, <2>1
  <2>3. (((a \o wb) \o wc) \o wd)[1] = "welcome" /\ Len(((a \o wb) \o wc) \o wd) >= 1
    BY <1>18, <1>15, FirstConcat, <2>2
  <2>. QED
    BY <1>18, <1>16, FirstConcat, <2>3
<1>20. /\ ToSet(we) = {x \in {"date"} : "date_time" \in setup.groups}
       /\ ToSet(wd) = {x \in TzScreens : "location" \in setup.groups}
       /\ ToSet(wc) = {x \in {"nic_select", "nic_config"} : "network" \in setup.groups}
       /\ ToSet(wb) = {x \in {"network"} : "identity" \in setup.groups}
  BY <1>2, <1>6, <1>7, <1>8, <1>9 DEF TzScreens
<1>. QED
  BY <1>2, <1>5, <1>13, <1>14, <1>15, <1>16, <1>17, <1>19, <1>20

(* The list, whichever it is.                                              *)
LEMMA ListSorted ==
    /\ Sorted(List, 0, 14) /\ List[1] = "welcome" /\ Len(List) >= 1
    /\ ToSet(List) \subseteq Screens /\ "welcome" \in ToSet(List)
<1>1. Sorted(List, 0, 14) /\ List[1] = "welcome" /\ Len(List) >= 1
  BY TextList, GroupList DEF List
<1>2. List \in Seq(Screens) /\ Len(List) \in Nat /\ DOMAIN List = 1 .. Len(List)
  BY <1>1 DEF Sorted
<1>3. ToSet(List) \subseteq Screens
  BY <1>2, ElementOfSeq DEF ToSet
<1>4. "welcome" \in ToSet(List)
  BY <1>1, <1>2 DEF ToSet
<1>. QED
  BY <1>1, <1>3, <1>4

\* Which screens are in the list together.
LEMMA InTheList ==
    /\ setup.text =>
          /\ {"disk", "fdisk", "parts", "network", "date"} \cup TzScreens \subseteq ToSet(List)
          /\ "parts_slice" \in ToSet(List) <=> setup.x86
          /\ "fdisk_slice" \in ToSet(List) <=> setup.x86
    /\ ~setup.text =>
          ToSet(List) \cap {"disk", "fdisk", "parts", "fdisk_slice", "parts_slice"} = {}
    /\ \A s \in TzScreens : s \in ToSet(List) => TzScreens \subseteq ToSet(List)
<1>1. CASE setup.text
  BY <1>1, TextList DEF List, TextSet, TzScreens
<1>2. CASE ~setup.text
  BY <1>2, GroupList DEF List, TzScreens
<1>. QED
  BY <1>1, <1>2

LEMMA PositionInList ==
    ASSUME NEW s \in ToSet(List)
    PROVE  Position(s) \in 1 .. Len(List) /\ List[Position(s)] = s
<1>1. DOMAIN List = 1 .. Len(List)
  BY ListSorted DEF Sorted
<1>2. \E i \in DOMAIN List : List[i] = s
  BY DEF ToSet
<1>. QED
  BY <1>1, <1>2 DEF Position

\* The order of the list is that of the ranks.
LEMMA PositionByRank ==
    ASSUME NEW s \in ToSet(List), NEW t \in ToSet(List)
    PROVE  Position(s) < Position(t) <=> Rank(s) < Rank(t)
<1>1. Position(s) \in 1 .. Len(List) /\ List[Position(s)] = s
  BY PositionInList
<1>2. Position(t) \in 1 .. Len(List) /\ List[Position(t)] = t
  BY PositionInList
<1>3. \A i, j \in 1 .. Len(List) : i < j => Rank(List[i]) < Rank(List[j])
  BY ListSorted DEF Sorted
<1>4. Rank(s) \in Nat /\ Rank(t) \in Nat
  BY RankType
<1>. HIDE DEF Position
<1>5. CASE Position(s) < Position(t)
  BY <1>1, <1>2, <1>3, <1>4, <1>5
<1>6. CASE Position(t) < Position(s)
  BY <1>1, <1>2, <1>3, <1>4, <1>6
<1>7. CASE Position(t) = Position(s)
  BY <1>1, <1>2, <1>4, <1>7
<1>. QED
  BY <1>1, <1>2, <1>5, <1>6, <1>7

(* GetNext leaves out no screen of the list.                               *)
LEMMA NextScreen ==
    ASSUME NEW s \in ToSet(List)
    PROVE  /\ GetNext(s) \in ToSet(List) \cup {"done"}
           /\ Rank(s) < Rank(GetNext(s))
           /\ \A t \in ToSet(List) : Rank(t) <= Rank(s) \/ Rank(GetNext(s)) <= Rank(t)
<1>1. Position(s) \in 1 .. Len(List) /\ List[Position(s)] = s
  BY PositionInList
<1>2. /\ \A i, j \in 1 .. Len(List) : i < j => Rank(List[i]) < Rank(List[j])
      /\ \A i \in 1 .. Len(List) : Rank(List[i]) <= 14
      /\ Len(List) \in Nat /\ DOMAIN List = 1 .. Len(List)
  BY ListSorted DEF Sorted
<1>3. \A i \in 1 .. Len(List) : Rank(List[i]) \in Nat
  BY RankType
<1>4. \A t \in ToSet(List) : \E i \in 1 .. Len(List) : t = List[i]
  BY <1>2 DEF ToSet
<1>5. PICK p \in 1 .. Len(List) : p = Position(s)
  BY <1>1
<1>6. CASE p < Len(List)
  <2>1. GetNext(s) = List[p + 1] /\ p + 1 \in 1 .. Len(List)
    BY <1>2, <1>5, <1>6 DEF GetNext
  <2>2. GetNext(s) \in ToSet(List)
    BY <1>2, <2>1 DEF ToSet
  <2>3. Rank(s) < Rank(GetNext(s))
    BY <1>1, <1>2, <1>5, <2>1
  <2>4. ASSUME NEW i \in 1 .. Len(List)
        PROVE  Rank(List[i]) <= Rank(s) \/ Rank(GetNext(s)) <= Rank(List[i])
    <3>1. i < p \/ i = p \/ i = p + 1 \/ p + 1 < i
      BY <1>2
    <3>. QED
      BY <1>1, <1>2, <1>3, <1>5, <2>1, <3>1
  <2>. QED
    BY <1>4, <2>2, <2>3, <2>4
<1>7. CASE p = Len(List)
  <2>. USE <1>7
  <2>1. GetNext(s) = "done" /\ Rank("done") = 15
    BY <1>2, <1>5, <1>7 DEF GetNext, Rank
  <2>2. Rank(s) < 15
    BY <1>1, <1>2, <1>3, <1>5
  <2>3. ASSUME NEW i \in 1 .. Len(List)
        PROVE  Rank(List[i]) <= Rank(s)
    <3>1. i < p \/ i = p
      BY <1>2, <1>7
    <3>. QED
      BY <1>1, <1>2, <1>3, <1>5, <3>1
  <2>. QED
    BY <1>4, <2>1, <2>2, <2>3
<1>. QED
  BY <1>2, <1>5, <1>6, <1>7

-----------------------------------------------------------------------------
(* The invariants *)

(* Where the session is: a screen that asked for help is still it.         *)
Place == IF screen = "help" THEN Last(visited) ELSE screen
Past(s) == s \in ToSet(List) /\ Rank(s) < Rank(Place)

GoodDate(f) == f.year \in {"leap", "common"} => f.day <= MonthDays(f.month, f.year = "leap")

(* The list of a screen as it is made for a parent.                        *)
MadeFor(s, p, list) ==
    CASE s = "regions" -> list = DOMAIN ZoneTable
      [] s = "locations" -> p \in DOMAIN ZoneTable /\ list = DOMAIN ZoneTable[p]
      [] s = "timezone" -> \E r \in DOMAIN ZoneTable :
                              p \in DOMAIN ZoneTable[r] /\ list = ZoneTable[r][p]

LayoutRecords == [part : {"none", "bare", "sliced"}, made : {"found", "user", "whole"},
            inPool : BOOLEAN, whole : BOOLEAN]
GoodLayouts ==
    {l \in LayoutRecords :
        /\ l.whole => l.part = "sliced" /\ ~l.inPool
        /\ ~setup.x86 => l.part = "sliced" /\ ~l.inPool}
TargetRecords == [disk : Disks, layout : GoodLayouts, checked : BOOLEAN]

Ended == {"done", "quit", "failed"}
VisitInv ==
    /\ setup \in Setups /\ shown \in BOOLEAN
    /\ screen \in ToSet(List) \cup {"help"} \cup Ended
    /\ visited \in Seq(ToSet(List))
    /\ \A i, j \in 1 .. Len(visited) : i < j => Rank(visited[i]) < Rank(visited[j])
    /\ visited # <<>> => visited[1] = "welcome"
    /\ screen \in ToSet(List) => \A i \in 1 .. Len(visited) : Rank(visited[i]) < Rank(screen)
    /\ screen \in (ToSet(List) \ {"welcome"}) \cup {"help"} => visited # <<>>
    /\ shown => screen \notin Ended

ProfInv ==
    /\ DOMAIN prof = {"system", "host", "nic", "offset", "region", "country", "zone"}
    /\ DOMAIN isValid = {"year", "month"}
    /\ date \in Dates \cup {Nothing} /\ (date \in Dates => GoodDate(date) \/ ~isValid.month)
    /\ prof.offset \in Dates \cup {Nothing} /\ (prof.offset \in Dates => GoodDate(prof.offset))
    /\ Past("network") => prof.host = "good"
    /\ Past("date") => prof.offset # Nothing
    /\ shown /\ screen = "date" => date \in Dates

RegionKnown ==
    \/ prof.region = "utc" /\ prof.country = "utc" /\ prof.zone = "utc"
    \/ prof.region # "utc" /\ prof.region \in DOMAIN ZoneTable
CountryKnown == prof.region = "utc" \/ prof.country \in DOMAIN ZoneTable[prof.region]
ZoneChosen ==
    \/ prof.region = "utc"
    \/ \E r \in RegionsOf(prof.country) : prof.zone \in ZoneTable[r][prof.country]
ZoneInv ==
    /\ DOMAIN zones = TzScreens
    /\ \A s \in TzScreens : DOMAIN zones[s] = {"list", "parent", "last"}
    /\ Past("regions") => RegionKnown
    /\ Past("locations") => CountryKnown
    /\ Past("timezone") => ZoneChosen
    /\ shown /\ screen \in TzScreens =>
          /\ MadeFor(screen, zones[screen].parent, zones[screen].list)
          /\ zones[screen].parent = TimezoneParent(screen)
    /\ shown /\ screen \in {"locations", "timezone"} => prof.region # "utc"
    /\ \A s \in TzScreens :
          \/ zones[s].list = {} \/ MadeFor(s, zones[s].last, zones[s].list)
          \/ (shown /\ screen = s) \/ screen \in Ended

Validated ==
    target.checked /\ ~target.layout.whole /\ ~target.layout.inPool /\ target.layout.part = "sliced"
TargetInv ==
    /\ target = NoTarget \/ target \in TargetRecords
    /\ kept \in [Disks -> GoodLayouts \cup {Nothing}]
    /\ (Past("disk") \/ (shown /\ screen = "disk" /\ Disks # {})) => target \in TargetRecords
    /\ shown /\ screen \in {"parts", "fdisk_slice", "parts_slice"} => ~target.layout.whole
    /\ shown /\ screen = "parts_slice" => ~target.layout.inPool
    /\ shown /\ screen = "fdisk_slice" => target.layout.part = "sliced"
    /\ Past("fdisk_slice") /\ ~target.layout.whole =>
          target.layout.part = "sliced" \/ target.layout.inPool
    /\ Past("parts_slice") => Validated
    /\ Past("parts") /\ ~setup.x86 => Validated

-----------------------------------------------------------------------------
(* Moving between the screens *)

\* A sequence without its last element.
LEMMA FrontOf ==
    ASSUME NEW S, NEW v \in Seq(S), v # <<>>
    PROVE  /\ Len(v) \in Nat /\ Len(v) >= 1
           /\ Front(v) \in Seq(S) /\ Len(Front(v)) = Len(v) - 1
           /\ \A i \in 1 .. Len(v) - 1 : Front(v)[i] = v[i]
           /\ Last(v) = v[Len(v)] /\ Last(v) \in S
<1>1. Len(v) \in Nat /\ Len(v) >= 1
  BY EmptySeq
<1>2. Front(v) = SubSeq(v, 1, Len(v) - 1) /\ Last(v) = v[Len(v)]
  BY DEF Front, Last
<1>3. Len(v) - 1 \in 0 .. Len(v)
  BY <1>1
<1>4. /\ SubSeq(v, 1, Len(v) - 1) \in Seq(S) /\ Len(SubSeq(v, 1, Len(v) - 1)) = Len(v) - 1
      /\ \A i \in 1 .. Len(v) - 1 : SubSeq(v, 1, Len(v) - 1)[i] = v[i]
  BY <1>3, FirstOnes
<1>5. v[Len(v)] \in S
  BY <1>1, ElementOfSeq
<1>. QED
  BY <1>1, <1>2, <1>4, <1>5

\* Taking back what was appended.
LEMMA FrontAppend ==
    ASSUME NEW S, NEW v \in Seq(S), NEW x \in S
    PROVE  /\ Append(v, x) \in Seq(S) /\ Append(v, x) # <<>>
           /\ Len(Append(v, x)) = Len(v) + 1 /\ Append(v, x)[Len(v) + 1] = x
           /\ \A i \in 1 .. Len(v) : Append(v, x)[i] = v[i]
           /\ Front(Append(v, x)) = v /\ Last(Append(v, x)) = x
<1>1. /\ Append(v, x) \in Seq(S) /\ Len(Append(v, x)) = Len(v) + 1 /\ Len(v) \in Nat
      /\ \A i \in 1 .. Len(v) : Append(v, x)[i] = v[i]
      /\ Append(v, x)[Len(v) + 1] = x
  BY AppendProperties, LenProperties
<1>2. Append(v, x) # <<>>
  BY <1>1
<1>3. /\ Front(Append(v, x)) \in Seq(S)
      /\ Len(Front(Append(v, x))) = Len(Append(v, x)) - 1
      /\ \A i \in 1 .. Len(Append(v, x)) - 1 : Front(Append(v, x))[i] = Append(v, x)[i]
      /\ Last(Append(v, x)) = Append(v, x)[Len(Append(v, x))]
  BY <1>1, <1>2, FrontOf
<1>5. Len(Append(v, x)) - 1 = Len(v)
  BY <1>1
<1>4. Front(Append(v, x)) = v
  BY <1>1, <1>3, <1>5, SeqEqual
<1>. QED
  BY <1>1, <1>2, <1>3, <1>4

(* What a step does to the place and the way back.                         *)
Stays == UNCHANGED <<setup, screen, visited>>
Ahead ==
    /\ setup' = setup /\ screen \in ToSet(List) /\ screen' = GetNext(screen) /\ shown' = FALSE
    /\ (visited' = visited /\ screen # "welcome") \/ visited' = Append(visited, screen)
Returns ==
    /\ setup' = setup /\ screen \in (ToSet(List) \ {"welcome"}) \cup {"help"} /\ shown' = FALSE
    /\ screen' = Last(visited) /\ visited' = Front(visited)
Asks ==
    /\ setup' = setup /\ screen \in ToSet(List) /\ shown' = FALSE
    /\ screen' = "help" /\ visited' = Append(visited, screen)
Ends ==
    /\ setup' = setup /\ screen' \in {"quit", "failed"} /\ shown' = FALSE /\ visited' = visited

\* What is not a screen of the list.
LEMMA NotInTheList ==
    /\ "help" \notin ToSet(List) /\ ToSet(List) \cap Ended = {}
    /\ \A s \in ToSet(List) : Rank(s) \in Nat /\ Rank(s) >= 1 /\ Rank(s) <= 14
<1>1. \A s \in Screens : Rank(s) \in Nat /\ Rank(s) >= 1 /\ Rank(s) <= 14
  BY RankValues DEF Screens
<1>. QED
  BY <1>1, ListSorted DEF Screens, Ended

\* The list is the setup's.
LEMMA SameList ==
    ASSUME setup' = setup
    PROVE  List' = List /\ Disks' = Disks
BY DEF List, TextScreens, GroupScreens, When, Disks

\* The visited screens are screens of the list.
LEMMA VisitedRanks ==
    ASSUME VisitInv
    PROVE  \A i \in 1 .. Len(visited) :
              visited[i] \in ToSet(List) /\ Rank(visited[i]) \in Nat /\ Rank(visited[i]) >= 1
<1>1. \A i \in 1 .. Len(visited) : visited[i] \in ToSet(List)
  BY ElementOfSeq DEF VisitInv
<1>. QED
  BY <1>1, NotInTheList

(* The screens that are past after each kind of step.                      *)
LEMMA PastStays ==
    ASSUME Stays
    PROVE  List' = List /\ \A s : Past(s)' <=> Past(s)
BY SameList DEF Stays, Past, Place

\* Ahead, the screen that is left becomes past.
LEMMA PastAhead ==
    ASSUME VisitInv, Ahead
    PROVE  List' = List /\ \A s : Past(s)' => Past(s) \/ s = screen
<1>1. List' = List /\ screen \in ToSet(List) /\ screen' = GetNext(screen)
  BY SameList DEF Ahead
<1>2. /\ screen' \in ToSet(List) \cup {"done"}
      /\ \A t \in ToSet(List) : Rank(t) <= Rank(screen) \/ Rank(screen') <= Rank(t)
  BY <1>1, NextScreen
<1>3. Place = screen /\ Place' = screen'
  BY <1>1, <1>2, NotInTheList DEF Place
<1>4. ASSUME NEW s, Past(s)' PROVE Past(s) \/ s = screen
  <2>1. s \in ToSet(List) /\ Rank(s) < Rank(screen')
    BY <1>1, <1>3, <1>4 DEF Past
  <2>2. Rank(s) <= Rank(screen) /\ Rank(s) \in Nat /\ Rank(screen) \in Nat
    BY <1>2, <2>1, RankType
  <2>3. Rank(s) = Rank(screen) => s = screen
    BY <1>1, <2>1, PositionByRank, PositionInList
  <2>. QED
    BY <1>3, <2>1, <2>2, <2>3 DEF Past
<1>. QED
  BY <1>1, <1>4

\* On the way back no screen becomes past.
LEMMA PastReturns ==
    ASSUME VisitInv, Returns
    PROVE  List' = List /\ \A s : Past(s)' => Past(s)
<1>1. List' = List /\ visited # <<>> /\ visited \in Seq(ToSet(List))
  BY SameList DEF Returns, VisitInv
<1>2. Last(visited) \in ToSet(List) /\ Last(visited) = visited[Len(visited)]
      /\ Len(visited) \in 1 .. Len(visited) /\ screen' = Last(visited)
  BY <1>1, FrontOf DEF Returns
<1>3. Place' = Last(visited)
  BY <1>2, NotInTheList DEF Place
<1>4. CASE screen = "help"
  BY <1>1, <1>3, <1>4 DEF Place, Past
<1>5. CASE screen \in ToSet(List)
  <2>1. Place = screen /\ Rank(Last(visited)) < Rank(screen)
    BY <1>2, <1>5, NotInTheList DEF Place, VisitInv
  <2>2. ASSUME NEW s, Past(s)' PROVE Past(s)
    <3>1. s \in ToSet(List) /\ Rank(s) < Rank(Last(visited))
      BY <1>1, <1>3, <2>2 DEF Past
    <3>2. Rank(s) \in Nat /\ Rank(Last(visited)) \in Nat /\ Rank(screen) \in Nat
      BY RankType
    <3>. QED
      BY <2>1, <3>1, <3>2 DEF Past
  <2>. QED
    BY <1>1, <2>2
<1>. QED
  BY <1>4, <1>5 DEF Returns

\* Help leads away from no screen.
LEMMA PastAsks ==
    ASSUME VisitInv, Asks
    PROVE  List' = List /\ \A s : Past(s)' => Past(s)
<1>1. List' = List /\ screen \in ToSet(List) /\ visited \in Seq(ToSet(List))
  BY SameList DEF Asks, VisitInv
<1>2. Place = screen
  BY <1>1, NotInTheList DEF Place
<1>3. Last(visited') = screen
  BY <1>1, FrontAppend DEF Asks
<1>4. Place' = screen
  BY <1>3 DEF Place, Asks
<1>. QED
  BY <1>1, <1>2, <1>4 DEF Past

\* Nothing is past when a session has ended early.
LEMMA PastEnds ==
    ASSUME Ends
    PROVE  List' = List /\ \A s : ~Past(s)'
<1>1. List' = List /\ Place' \in {"quit", "failed"}
  BY SameList DEF Ends, Place
<1>2. Rank(Place') = 0
  BY <1>1, RankValues
<1>3. ASSUME NEW s, Past(s)' PROVE FALSE
  <2>1. s \in ToSet(List) /\ Rank(s) < Rank(Place')
    BY <1>1, <1>3 DEF Past
  <2>. QED
    BY <1>2, <2>1, RankType
<1>. QED
  BY <1>1, <1>3
-----------------------------------------------------------------------------
(* The way back *)

\* A screen that is shown is in the list.
LEMMA ScreenInList ==
    ASSUME VisitInv, screen \in Screens
    PROVE  screen \in ToSet(List)
BY DEF VisitInv, Ended, Screens

\* Showing a screen: it stands, skips itself, or the session fails.
LEMMA ShowMoves ==
    ASSUME VisitInv, ShowScreen
    PROVE  \/ Stays /\ shown' = TRUE /\ screen \notin Ended
           \/ Ahead \/ Ends
<1>. USE DEF Show, Stop, Skip, GoTo
<1>0. setup' = setup
  BY DEF ShowScreen
<1>1. CASE ShowDisk
  BY <1>0, <1>1 DEF ShowDisk, Stays, Ended
<1>2. CASE ShowFDisk
  BY <1>0, <1>2, ScreenInList DEF ShowFDisk, Stays, Ahead, Ended, Screens
<1>3. CASE ShowParts
  BY <1>0, <1>3, ScreenInList DEF ShowParts, Stays, Ahead, Ended, Screens
<1>4. CASE ShowFDiskSlice
  BY <1>0, <1>4, ScreenInList DEF ShowFDiskSlice, Stays, Ahead, Ends, Ended, Screens
<1>5. CASE ShowPartsSlice
  BY <1>0, <1>5, ScreenInList DEF ShowPartsSlice, Stays, Ahead, Ended, Screens
<1>6. CASE ShowNetwork
  BY <1>0, <1>6 DEF ShowNetwork, Stays, Ended
<1>7. CASE ShowNics
  BY <1>0, <1>7, ScreenInList DEF ShowNics, Ahead, Ends, Screens
<1>8. CASE ShowTimeZone
  BY <1>0, <1>8, ScreenInList DEF ShowTimeZone, Stays, Ahead, Ended, Screens, TzScreens
<1>9. CASE ShowDate
  BY <1>0, <1>9 DEF ShowDate, Stays, Ends, Ended
<1>10. CASE ShowPlain
  BY <1>0, <1>10 DEF ShowPlain, Stays, Ended
<1>. QED
  BY <1>1, <1>2, <1>3, <1>4, <1>5, <1>6, <1>7, <1>8, <1>9, <1>10, ShowScreen DEF ShowScreen

\* F2 leads ahead.
LEMMA ContinueMoves ==
    ASSUME VisitInv, Continue
    PROVE  Ahead
BY ScreenInList DEF Continue, OnKeys, Store, GoTo, Ahead

\* A refused answer leaves the way back as it was.
LEMMA RefuseMoves ==
    ASSUME VisitInv, RefuseAnswer
    PROVE  Stays /\ shown' = shown
<1>1. screen \in ToSet(List) /\ visited \in Seq(ToSet(List))
  BY ScreenInList DEF RefuseAnswer, OnKeys, VisitInv
<1>2. visited' = visited
  BY <1>1, FrontAppend DEF RefuseAnswer, VisitedWhenRefused
<1>. QED
  BY <1>2 DEF RefuseAnswer, Stays

\* F3 returns.
LEMMA BackMoves ==
    ASSUME VisitInv, Back
    PROVE  Returns
BY ScreenInList DEF Back, OnKeys, Store, GoTo, Returns

\* F6 asks, the help screen returns.
LEMMA HelpMoves ==
    ASSUME VisitInv
    PROVE  /\ ShowHelp => Asks
           /\ HelpIndex \/ HelpTopic => Stays /\ shown' = FALSE
           /\ LeaveHelp => Returns
<1>1. ASSUME ShowHelp PROVE Asks
  <2>1. screen \in ToSet(List) /\ screen # "help"
    BY <1>1, ScreenInList, NotInTheList DEF ShowHelp, OnKeys
  <2>. QED
    BY <1>1, <2>1 DEF ShowHelp, VisitedForHelp, Store, GoTo, Asks
<1>2. ASSUME HelpIndex \/ HelpTopic PROVE Stays /\ shown' = FALSE
  BY <1>2 DEF HelpIndex, HelpTopic, VisitedForHelp, Stays
<1>3. ASSUME LeaveHelp PROVE Returns
  BY <1>3 DEF LeaveHelp, GoTo, Returns
<1>. QED
  BY <1>1, <1>2, <1>3

\* The keys of a screen stay on it.
LEMMA OtherMoves ==
    /\ EditDate \/ MoveToDisk \/ EditLayout => Stays /\ shown' = shown
    /\ ResetLayout => (Stays /\ shown' = shown) \/ Ends
    /\ Quit \/ DateRaises => Ends
<1>1. ASSUME EditDate \/ MoveToDisk \/ EditLayout PROVE Stays /\ shown' = shown
  BY <1>1 DEF EditDate, MoveToDisk, EditLayout, Stays
<1>2. ASSUME ResetLayout PROVE (Stays /\ shown' = shown) \/ Ends
  BY <1>2 DEF ResetLayout, Stays, Ends
<1>3. ASSUME Quit \/ DateRaises PROVE Ends
  BY <1>3 DEF Quit, DateRaises, Stop, Ends
<1>. QED
  BY <1>1, <1>2, <1>3

\* There is no other kind of step.
LEMMA Moves ==
    ASSUME VisitInv, ScreensNext
    PROVE  \/ Stays /\ (shown' = shown \/ shown' = FALSE \/ (shown' = TRUE /\ screen \notin Ended))
           \/ Ahead \/ Returns \/ Asks \/ Ends
BY ShowMoves, ContinueMoves, RefuseMoves, BackMoves, HelpMoves, OtherMoves DEF ScreensNext

(* The visited screens and the one that is added to them are in order.     *)
LEMMA VisitAppends ==
    ASSUME VisitInv, screen \in ToSet(List)
    PROVE  /\ Append(visited, screen) \in Seq(ToSet(List)) /\ Append(visited, screen) # <<>>
           /\ Append(visited, screen)[1] = "welcome"
           /\ \A i, j \in 1 .. Len(Append(visited, screen)) :
                 i < j => Rank(Append(visited, screen)[i]) < Rank(Append(visited, screen)[j])
           /\ \A i \in 1 .. Len(Append(visited, screen)) :
                 Rank(Append(visited, screen)[i]) <= Rank(screen)
<1>. DEFINE v == Append(visited, screen)
            n == Len(visited)
<1>1. visited \in Seq(ToSet(List)) /\ n \in Nat
  BY DEF VisitInv
<1>2. /\ v \in Seq(ToSet(List)) /\ v # <<>> /\ Len(v) = n + 1 /\ v[n + 1] = screen
      /\ \A i \in 1 .. n : v[i] = visited[i]
  BY <1>1, FrontAppend
<1>3. /\ \A i, j \in 1 .. n : i < j => Rank(visited[i]) < Rank(visited[j])
      /\ \A i \in 1 .. n : Rank(visited[i]) < Rank(screen) /\ Rank(visited[i]) \in Nat
      /\ Rank(screen) \in Nat
  BY RankType DEF VisitInv
<1>. HIDE DEF v
<1>4. \A i \in 1 .. n + 1 : (i \in 1 .. n /\ v[i] = visited[i]) \/ (i = n + 1 /\ v[i] = screen)
  BY <1>1, <1>2
<1>5. ASSUME NEW i \in 1 .. n + 1, NEW j \in 1 .. n + 1, i < j
      PROVE  Rank(v[i]) < Rank(v[j])
  <2>1. i \in 1 .. n /\ v[i] = visited[i]
    BY <1>1, <1>4, <1>5
  <2>. QED
    BY <1>3, <1>4, <1>5, <2>1
<1>6. \A i \in 1 .. n + 1 : Rank(v[i]) <= Rank(screen)
  BY <1>3, <1>4
<1>7. v[1] = "welcome"
  <2>1. CASE n = 0
    <3>1. visited = <<>>
      BY <1>1, <2>1, EmptySeq
    <3>2. screen = "welcome"
      BY <3>1 DEF VisitInv
    <3>. QED
      BY <1>2, <2>1, <3>2
  <2>2. CASE n # 0
    <3>1. 1 \in 1 .. n /\ visited # <<>>
      BY <1>1, <2>2, EmptySeq
    <3>. QED
      BY <1>2, <3>1 DEF VisitInv
  <2>. QED
    BY <2>1, <2>2
<1>8. /\ v \in Seq(ToSet(List)) /\ v # <<>> /\ v[1] = "welcome"
      /\ \A i, j \in 1 .. Len(v) : i < j => Rank(v[i]) < Rank(v[j])
      /\ \A i \in 1 .. Len(v) : Rank(v[i]) <= Rank(screen)
  BY <1>2, <1>5, <1>6, <1>7
<1>. QED
  BY <1>8 DEF v

\* Ahead, what was visited stays before the screen.
LEMMA VisitAhead ==
    ASSUME VisitInv, Ahead
    PROVE  VisitInv'
<1>1. List' = List /\ setup' = setup /\ shown' = FALSE /\ screen \in ToSet(List)
      /\ screen' = GetNext(screen)
  BY SameList DEF Ahead
<1>2. screen' \in ToSet(List) \cup {"done"} /\ Rank(screen) < Rank(screen')
  BY <1>1, NextScreen
<1>3. /\ visited' \in Seq(ToSet(List)) /\ visited' # <<>> /\ visited'[1] = "welcome"
      /\ \A i, j \in 1 .. Len(visited') : i < j => Rank(visited'[i]) < Rank(visited'[j])
      /\ \A i \in 1 .. Len(visited') : Rank(visited'[i]) <= Rank(screen)
  <2>1. CASE visited' = visited /\ screen # "welcome"
    <3>1. \A i \in 1 .. Len(visited) : Rank(visited[i]) < Rank(screen) /\ Rank(visited[i]) \in Nat
      BY <1>1, RankType DEF VisitInv
    <3>2. \A i \in 1 .. Len(visited) : Rank(visited[i]) <= Rank(screen)
      BY <3>1, RankType
    <3>. QED
      BY <1>1, <2>1, <3>2 DEF VisitInv
  <2>2. CASE visited' = Append(visited, screen)
    BY <1>1, <2>2, VisitAppends
  <2>. QED
    BY <2>1, <2>2 DEF Ahead
<1>4. \A i \in 1 .. Len(visited') : Rank(visited'[i]) < Rank(screen')
  <2>1. /\ \A i \in 1 .. Len(visited') : Rank(visited'[i]) \in Nat
        /\ Rank(screen) \in Nat /\ Rank(screen') \in Nat
    BY RankType
  <2>. QED
    BY <1>2, <1>3, <2>1
<1>5. screen' \in ToSet(List) \cup {"help"} \cup Ended
  BY <1>2 DEF Ended
<1>. QED
  BY <1>1, <1>3, <1>4, <1>5 DEF VisitInv

\* Returning to the last one leaves those before it.
LEMMA VisitReturns ==
    ASSUME VisitInv, Returns
    PROVE  VisitInv'
<1>1. List' = List /\ setup' = setup /\ shown' = FALSE /\ visited # <<>>
      /\ visited \in Seq(ToSet(List)) /\ screen' = Last(visited) /\ visited' = Front(visited)
  BY SameList DEF Returns, VisitInv
<1>. DEFINE n == Len(visited)
<1>2. /\ n \in Nat /\ n >= 1 /\ screen' = visited[n] /\ screen' \in ToSet(List)
      /\ visited' \in Seq(ToSet(List)) /\ Len(visited') = n - 1
      /\ \A i \in 1 .. n - 1 : visited'[i] = visited[i]
  BY <1>1, FrontOf
<1>3. /\ \A i, j \in 1 .. n : i < j => Rank(visited[i]) < Rank(visited[j])
      /\ visited[1] = "welcome"
  BY <1>1 DEF VisitInv
<1>4. \A i \in 1 .. n - 1 : i \in 1 .. n /\ i < n
  BY <1>2
<1>5. \A i, j \in 1 .. n - 1 : i < j => Rank(visited'[i]) < Rank(visited'[j])
  BY <1>2, <1>3, <1>4
<1>6. \A i \in 1 .. n - 1 : Rank(visited'[i]) < Rank(screen')
  BY <1>2, <1>3, <1>4
<1>7. visited' # <<>> => visited'[1] = "welcome"
  <2>1. visited' # <<>> => n - 1 >= 1
    BY <1>2, EmptySeq
  <2>. QED
    BY <1>2, <1>3, <2>1
<1>8. screen' # "welcome" => visited' # <<>>
  <2>1. CASE n = 1
    BY <1>2, <1>3, <2>1
  <2>2. CASE n # 1
    <3>1. Len(visited') # 0
      BY <1>2, <2>2
    <3>. QED
      BY <3>1
  <2>. QED
    BY <2>1, <2>2
<1>9. screen' # "help"
  BY <1>2, NotInTheList
<1>. QED
  BY <1>1, <1>2, <1>5, <1>6, <1>7, <1>8, <1>9 DEF VisitInv

\* The screen that asks for help is the last one visited.
LEMMA VisitAsks ==
    ASSUME VisitInv, Asks
    PROVE  VisitInv'
<1>1. List' = List /\ setup' = setup /\ shown' = FALSE /\ screen' = "help"
      /\ visited' = Append(visited, screen) /\ screen \in ToSet(List)
  BY SameList DEF Asks
<1>2. screen' \notin ToSet(List)
  BY <1>1, NotInTheList
<1>. QED
  BY <1>1, <1>2, VisitAppends DEF VisitInv

\* Every step keeps the way back.
LEMMA VisitStep ==
    ASSUME VisitInv, [ScreensNext]_screensVars
    PROVE  VisitInv'
<1>1. CASE Ahead
  BY <1>1, VisitAhead
<1>2. CASE Returns
  BY <1>2, VisitReturns
<1>3. CASE Asks
  BY <1>3, VisitAsks
<1>4. CASE Ends
  <2>1. List' = List /\ screen' \notin ToSet(List)
    BY <1>4, SameList, NotInTheList DEF Ends, Ended
  <2>. QED
    BY <1>4, <2>1 DEF Ends, VisitInv, Ended
<1>5. CASE Stays /\ (shown' = shown \/ shown' = FALSE \/ (shown' = TRUE /\ screen \notin Ended))
  <2>1. List' = List /\ screen' = screen /\ visited' = visited /\ setup' = setup
    BY <1>5, SameList DEF Stays
  <2>2. shown \in BOOLEAN /\ (shown => screen \notin Ended)
    BY DEF VisitInv
  <2>3. CASE shown' = shown
    BY <2>1, <2>2, <2>3 DEF VisitInv
  <2>4. CASE shown' = FALSE
    BY <2>1, <2>4 DEF VisitInv
  <2>5. CASE shown' = TRUE /\ screen \notin Ended
    BY <2>1, <2>5 DEF VisitInv
  <2>. QED
    BY <1>5, <2>3, <2>4, <2>5
<1>6. CASE UNCHANGED screensVars
  BY <1>6, SameList DEF screensVars, VisitInv
<1>. QED
  BY <1>1, <1>2, <1>3, <1>4, <1>5, <1>6, Moves
-----------------------------------------------------------------------------
(* The profile *)

\* Only a step ahead makes a screen past: the one it leaves.
LEMMA PastMoves ==
    ASSUME VisitInv, ScreensNext
    PROVE  /\ List' = List /\ Disks' = Disks /\ setup' = setup
           /\ \A s : Past(s)' => Past(s) \/ (s = screen /\ Ahead)
<1>1. setup' = setup
  BY Moves DEF Stays, Ahead, Returns, Asks, Ends
<1>2. CASE Stays
  BY <1>1, <1>2, SameList, PastStays
<1>3. CASE Ahead
  BY <1>1, <1>3, SameList, PastAhead
<1>4. CASE Returns
  BY <1>1, <1>4, SameList, PastReturns
<1>5. CASE Asks
  BY <1>1, <1>5, SameList, PastAsks
<1>6. CASE Ends
  BY <1>1, <1>6, SameList, PastEnds
<1>. QED
  BY <1>1, <1>2, <1>3, <1>4, <1>5, <1>6, Moves, SameList

(* A step that leaves the name and the dates alone, and neither of the two *)
(* screens behind.                                                         *)
LEMMA ProfKept ==
    ASSUME ProfInv, DOMAIN prof' = DOMAIN prof, prof'.host = prof.host,
           prof'.offset = prof.offset, date' = date, isValid' = isValid,
           Past("network")' => Past("network"), Past("date")' => Past("date"),
           shown' /\ screen' = "date" => shown /\ screen = "date"
    PROVE  ProfInv'
BY DEF ProfInv, GoodDate

\* The same, of the steps that are not ahead of the two screens.
LEMMA ProfNext ==
    ASSUME VisitInv, ProfInv, ScreensNext, DOMAIN prof' = DOMAIN prof,
           prof'.host = prof.host, prof'.offset = prof.offset, date' = date, isValid' = isValid,
           screen \notin {"network", "date"} \/ ~Ahead,
           shown' = FALSE \/ (shown' = shown /\ screen' = screen) \/ screen' # "date"
    PROVE  ProfInv'
<1>1. Past("network")' => Past("network")
  BY PastMoves
<1>2. Past("date")' => Past("date")
  BY PastMoves
<1>3. shown' /\ screen' = "date" => shown /\ screen = "date"
  <2>1. CASE shown' = FALSE
    BY <2>1
  <2>2. CASE shown' = shown /\ screen' = screen
    BY <2>2
  <2>3. CASE screen' # "date"
    BY <2>3
  <2>. QED
    BY <2>1, <2>2, <2>3
<1>. QED
  BY <1>1, <1>2, <1>3, ProfKept

(* No month is longer than its days, whatever the day was.                 *)
LEMMA DayChecked ==
    ASSUME NEW f \in Dates, NEW flags
    PROVE  /\ CheckDayRange(f, flags) \in Dates
           /\ flags.month => GoodDate(CheckDayRange(f, flags))
           /\ f.year \notin {"leap", "common"} \/ f.month = 0 => GoodDate(f)
<1>. DEFINE m == GetDaysInMonth(f.month, f.year, flags)
<1>1. /\ f.year \in Years /\ f.month \in {0, 2, 4, 12} /\ f.day \in {0, 28, 29, 30, 31}
      /\ f = [year |-> f.year, month |-> f.month, day |-> f.day]
  BY DEF Dates
<1>2. m \in {28, 29, 30, 31}
  BY DEF GetDaysInMonth, MonthDays
<1>3. flags.month /\ f.year \in {"leap", "common"} => m <= MonthDays(f.month, f.year = "leap")
  <2>1. CASE f.year = "leap"
    BY <2>1 DEF GetDaysInMonth, MonthDays
  <2>2. CASE f.year = "common"
    BY <2>2 DEF GetDaysInMonth, MonthDays
  <2>. QED
    BY <2>1, <2>2
<1>4. CheckDayRange(f, flags) = [f EXCEPT !.day = IF f.day > m THEN m ELSE f.day]
  BY DEF CheckDayRange
<1>. DEFINE g == CheckDayRange(f, flags)
<1>5. g \in Dates /\ g.year = f.year /\ g.month = f.month /\ g.day <= m
  <2>. HIDE DEF m
  <2>. QED
    BY <1>1, <1>2, <1>4 DEF Dates
<1>6. flags.month => GoodDate(g)
  <2>1. MonthDays(f.month, f.year = "leap") \in Nat /\ g.day \in Nat
    BY <1>5 DEF MonthDays, Dates
  <2>. HIDE DEF m, g
  <2>2. ASSUME flags.month, f.year \in {"leap", "common"}
        PROVE  g.day <= MonthDays(f.month, f.year = "leap")
    BY <1>2, <1>3, <1>5, <2>1, <2>2
  <2>. QED
    BY <1>5, <2>2 DEF GoodDate
<1>7. f.year \notin {"leap", "common"} => GoodDate(f)
  BY DEF GoodDate
<1>8. f.month = 0 => GoodDate(f)
  BY <1>1 DEF GoodDate, MonthDays
<1>. HIDE DEF g
<1>. QED
  BY <1>5, <1>6, <1>7, <1>8 DEF g

\* What is typed stays a date, and one that exists unless the month is marked.
LEMMA FieldChecked ==
    ASSUME NEW f \in Dates, DOMAIN isValid = {"year", "month"}
    PROVE  /\ YearValid(f) \in Dates /\ (isValid.month => GoodDate(YearValid(f)))
           /\ MonthValid(f) \in Dates /\ GoodDate(MonthValid(f))
<1>1. [isValid EXCEPT !.year = TRUE].month = isValid.month
  OBVIOUS
<1>2. [isValid EXCEPT !.month = TRUE].month
  OBVIOUS
<1>3. /\ YearValid(f) \in Dates
      /\ isValid.month => GoodDate(YearValid(f))
  BY <1>1, DayChecked DEF YearValid
<1>4. f.month = 0 \/ f.month > 0
  BY DEF Dates
<1>5. MonthValid(f) \in Dates /\ GoodDate(MonthValid(f))
  BY <1>2, <1>4, DayChecked DEF MonthValid
<1>. QED
  BY <1>3, <1>5

\* Showing a screen: the date is filled in again, and not accepted any more.
LEMMA ProfShow ==
    ASSUME VisitInv, ProfInv, ShowScreen
    PROVE  ProfInv'
<1>. USE DEF Show, Stop, Skip, GoTo, KeepConf, confVars
<1>0. ScreensNext
  BY DEF ScreensNext
<1>1. CASE screen = "date"
  <2>1. ShowDate /\ List' = List /\ screen \notin Ended
    BY <1>0, <1>1, PastMoves DEF ShowScreen, ShowDisk, ShowFDisk, ShowParts, ShowFDiskSlice,
       ShowPartsSlice, ShowNetwork, ShowNics, ShowTimeZone, TzScreens, ShowPlain, Ended
  <2>2. ~Ahead
    <3>1. CASE shown' = TRUE
      BY <3>1 DEF Ahead
    <3>2. CASE screen' = "failed"
      <4>1. GetNext(screen) # "failed" \/ screen \notin ToSet(List)
        BY NextScreen, NotInTheList DEF Ended
      <4>. QED
        BY <3>2, <4>1 DEF Ahead
    <3>. QED
      BY <2>1, <3>1, <3>2 DEF ShowDate
  <2>3. \A s : Past(s)' => Past(s)
    BY <1>0, <2>2, PastMoves
  <2>4. Place = "date" /\ ~Past("date")
    <3>1. Place = "date"
      BY <1>1 DEF Place
    <3>. QED
      BY <3>1, RankType DEF Past
  <2>5. DOMAIN prof' = DOMAIN prof /\ prof'.host = prof.host
    BY <2>1 DEF ShowDate, ProfInv
  <2>6. setup \in Setups /\ setup.now \in Dates /\ GoodDate(setup.now) /\ isValid' = isValid
    BY <2>1, SetupAssumption, NowAssumption DEF VisitInv, GoodDate, DateExists, ShowDate
  <2>7. CASE screen' = "failed"
    BY <2>1, <2>3, <2>4, <2>6, <2>7 DEF ShowDate, ProfInv, GoodDate
  <2>8. CASE date = Nothing /\ date' = setup.now /\ prof' = prof
    BY <2>3, <2>4, <2>6, <2>8 DEF ProfInv, GoodDate
  <2>9. CASE date # Nothing /\ prof.offset # Nothing /\ date' = prof.offset
             /\ prof' = [prof EXCEPT !.offset = Nothing]
    <3>1. prof'.offset = Nothing /\ Nothing \notin Dates
      BY <2>9, NothingAssumption DEF ProfInv
    <3>2. date' \in Dates /\ GoodDate(date')
      BY <2>9 DEF ProfInv
    <3>. QED
      BY <2>3, <2>4, <2>5, <2>6, <3>1, <3>2 DEF ProfInv, GoodDate
  <2>10. CASE date # Nothing /\ date' = date /\ prof' = prof
    BY <2>3, <2>4, <2>6, <2>10 DEF ProfInv, GoodDate
  <2>. QED
    BY <2>1, <2>7, <2>8, <2>9, <2>10 DEF ShowDate
<1>2. CASE screen # "date"
  <2>1. /\ DOMAIN prof' = DOMAIN prof /\ prof'.host = prof.host /\ prof'.offset = prof.offset
        /\ date' = date /\ isValid' = isValid
    BY <1>2 DEF ShowScreen, ShowDisk, ShowFDisk, ShowParts, ShowFDiskSlice,
       ShowPartsSlice, ShowNetwork, ShowNics, ShowTimeZone, ShowPlain, ShowDate, ProfInv
  <2>2. screen = "network" => ~Ahead
    BY DEF ShowScreen, ShowDisk, ShowFDisk, ShowParts, ShowFDiskSlice,
       ShowPartsSlice, ShowNetwork, ShowNics, ShowTimeZone, TzScreens, ShowPlain, ShowDate, Ahead
  <2>3. shown' = FALSE \/ screen' # "date"
    BY <1>2, ShowMoves DEF Stays, Ahead, Ends
  <2>4. screen \notin {"network", "date"} \/ ~Ahead
    BY <1>2, <2>2
  <2>5. shown' = FALSE \/ (shown' = shown /\ screen' = screen) \/ screen' # "date"
    BY <2>3
  <2>. QED
    BY <1>0, <2>1, <2>4, <2>5, ProfNext
<1>. QED
  BY <1>1, <1>2

\* The kinds of steps are different.
LEMMA NotAhead ==
    ASSUME VisitInv, Stays \/ Returns \/ Asks \/ Ends
    PROVE  ~Ahead
<1>. SUFFICES ASSUME Ahead PROVE FALSE
  OBVIOUS
<1>1. /\ screen \in ToSet(List) /\ screen' \in ToSet(List) \cup {"done"}
      /\ Rank(screen) < Rank(screen') /\ Rank(screen) \in Nat /\ Rank(screen') \in Nat
  BY NextScreen, RankType DEF Ahead
<1>2. CASE Stays
  BY <1>1, <1>2 DEF Stays
<1>3. CASE Returns
  <2>1. visited # <<>> /\ visited \in Seq(ToSet(List))
    BY <1>3 DEF Returns, VisitInv
  <2>2. screen' = visited[Len(visited)] /\ Len(visited) \in 1 .. Len(visited)
    BY <1>3, <2>1, FrontOf DEF Returns
  <2>. QED
    BY <1>1, <2>2 DEF VisitInv
<1>4. CASE Asks
  BY <1>1, <1>4, NotInTheList DEF Asks
<1>5. CASE Ends
  BY <1>1, <1>5, NotInTheList DEF Ends, Ended
<1>. QED
  BY <1>2, <1>3, <1>4, <1>5

(* Leaving a screen stores its name, or a part of its zone.                *)
LEMMA Stored ==
    ASSUME ProfInv, NEW c, NEW p, DOMAIN p = DOMAIN prof, Store(c, p)
    PROVE  /\ DOMAIN prof' = DOMAIN prof /\ prof'.offset = p.offset
           /\ date' = date /\ isValid' = isValid
           /\ screen # "network" => prof'.host = p.host
           /\ screen = "network" => prof'.host = c
<1>1. DOMAIN p = {"system", "host", "nic", "offset", "region", "country", "zone"}
  BY DEF ProfInv
<1>2. date' = date /\ isValid' = isValid
  BY DEF Store
<1>3. CASE screen = "network"
  BY <1>1, <1>2, <1>3 DEF Store, NameStored, TzScreens, ProfInv
<1>4. CASE screen = "regions" /\ c = "utc"
  BY <1>1, <1>2, <1>4 DEF Store, ZoneStored, TzScreens, ProfInv
<1>5. CASE screen = "regions" /\ c # "utc"
  BY <1>1, <1>2, <1>5 DEF Store, ZoneStored, TzScreens, ProfInv
<1>6. CASE screen = "locations"
  BY <1>1, <1>2, <1>6 DEF Store, ZoneStored, TzScreens, ProfInv
<1>7. CASE screen = "timezone"
  BY <1>1, <1>2, <1>7 DEF Store, ZoneStored, TzScreens, ProfInv
<1>8. CASE screen \notin TzScreens \cup {"network"}
  BY <1>1, <1>2, <1>8 DEF Store, ProfInv
<1>. QED
  BY <1>3, <1>4, <1>5, <1>6, <1>7, <1>8 DEF TzScreens

\* Keys that do not change the profile.
LEMMA ProfKeys ==
    ASSUME VisitInv, ProfInv, ScreensNext, UNCHANGED confVars, shown' = FALSE \/ Stays,
           Stays \/ Returns \/ Asks \/ Ends, shown' = FALSE \/ shown' = shown
    PROVE  ProfInv'
<1>1. ~Ahead
  BY NotAhead
<1>2. prof' = prof /\ date' = date /\ isValid' = isValid
  BY DEF confVars
<1>3. shown' = FALSE \/ (shown' = shown /\ screen' = screen) \/ screen' # "date"
  <2>1. CASE shown' = FALSE
    BY <2>1
  <2>2. CASE shown' = shown /\ Stays
    BY <2>2 DEF Stays
  <2>. QED
    BY <2>1, <2>2
<1>. QED
  BY <1>1, <1>2, <1>3, ProfNext

\* Editing a field keeps the day in the month.
LEMMA ProfEditDate ==
    ASSUME VisitInv, ProfInv, EditDate
    PROVE  ProfInv'
<1>1. /\ shown' = shown /\ Stays /\ shown /\ screen = "date" /\ screen' = screen
      /\ date \in Dates /\ prof' = prof /\ DOMAIN isValid = {"year", "month"}
      /\ isValid.month => GoodDate(date)
  BY OtherMoves DEF EditDate, ProfInv
<1>2. /\ date.year \in Years /\ date.month \in {0, 2, 4, 12} /\ date.day \in {0, 28, 29, 30, 31}
      /\ date = [year |-> date.year, month |-> date.month, day |-> date.day]
  BY <1>1 DEF Dates
<1>3. /\ DOMAIN isValid' = {"year", "month"}
      /\ date' \in Dates /\ (isValid'.month => GoodDate(date'))
  <2>1. CASE \E y \in Years, refused \in BOOLEAN :
                /\ date' = YearValid([date EXCEPT !.year = y])
                /\ isValid' = [isValid EXCEPT !.year = y # "none" /\ ~refused]
    <3>1. PICK y \in Years : /\ date' = YearValid([date EXCEPT !.year = y])
                             /\ DOMAIN isValid' = {"year", "month"}
                             /\ isValid'.month = isValid.month
      BY <1>1, <2>1
    <3>2. [date EXCEPT !.year = y] \in Dates
      BY <1>2 DEF Dates
    <3>. QED
      BY <1>1, <3>1, <3>2, FieldChecked
  <2>2. CASE \E m \in {0, 2, 4, 12}, refused \in BOOLEAN :
                /\ date' = MonthValid([date EXCEPT !.month = m])
                /\ isValid' = [isValid EXCEPT !.month = m > 0 /\ ~refused]
    <3>1. PICK m \in {0, 2, 4, 12} : /\ date' = MonthValid([date EXCEPT !.month = m])
                                     /\ DOMAIN isValid' = {"year", "month"}
      BY <1>1, <2>2
    <3>2. [date EXCEPT !.month = m] \in Dates
      BY <1>2 DEF Dates
    <3>. QED
      BY <1>1, <3>1, <3>2, FieldChecked
  <2>3. CASE \E d \in {0, 28, 29, 30, 31} :
                DayAllowed(d) /\ date' = [date EXCEPT !.day = d] /\ UNCHANGED isValid
    <3>1. PICK d \in {0, 28, 29, 30, 31} : DayAllowed(d) /\ date' = [date EXCEPT !.day = d]
      BY <2>3
    <3>2. date' = [year |-> date.year, month |-> date.month, day |-> d] /\ date' \in Dates
      BY <1>2, <3>1 DEF Dates
    <3>. DEFINE m == GetDaysInMonth(date.month, date.year, isValid)
    <3>3. d <= m
      BY <3>1 DEF DayAllowed
    <3>4. m \in {28, 29, 30, 31}
      BY DEF GetDaysInMonth, MonthDays
    <3>5. ASSUME isValid.month, date.year \in {"leap", "common"}
          PROVE  m <= MonthDays(date.month, date.year = "leap")
      <4>1. CASE date.year = "leap"
        BY <3>5, <4>1 DEF GetDaysInMonth, MonthDays
      <4>2. CASE date.year = "common"
        BY <3>5, <4>2 DEF GetDaysInMonth, MonthDays
      <4>. QED
        BY <3>5, <4>1, <4>2
    <3>. HIDE DEF m
    <3>6. isValid.month => GoodDate(date')
      <4>1. MonthDays(date.month, date.year = "leap") \in Nat
        BY DEF MonthDays
      <4>. QED
        BY <3>2, <3>3, <3>4, <3>5, <4>1 DEF GoodDate
    <3>. QED
      BY <1>1, <2>3, <3>2, <3>6
  <2>. QED
    BY <2>1, <2>2, <2>3 DEF EditDate
<1>4. List' = List /\ \A s : Past(s)' <=> Past(s)
  BY <1>1, PastStays
<1>. QED
  BY <1>1, <1>3, <1>4 DEF ProfInv

\* What F2 accepts: the name, and the date that stands.
LEMMA ProfContinue ==
    ASSUME VisitInv, ProfInv, Continue
    PROVE  ProfInv'
<1>1. Ahead /\ List' = List /\ shown' = FALSE /\ \A s : Past(s)' => Past(s) \/ s = screen
  BY ContinueMoves, PastAhead DEF Ahead
<1>. DEFINE p == IF screen = "date" THEN [prof EXCEPT !.offset = date] ELSE prof
<1>2. PICK c \in Entries : TRUE \in Answers(c) /\ Store(c, p)
  BY DEF Continue
<1>3. /\ DOMAIN p = DOMAIN prof /\ p.host = prof.host
      /\ screen = "date" => p.offset = date
      /\ screen # "date" => p.offset = prof.offset
  BY DEF ProfInv
<1>. HIDE DEF p
<1>4. /\ DOMAIN prof' = DOMAIN prof /\ prof'.offset = p.offset
      /\ date' = date /\ isValid' = isValid
      /\ screen # "network" => prof'.host = p.host
      /\ screen = "network" => prof'.host = c
  BY <1>2, <1>3, Stored
<1>5. screen = "network" => c = "good"
  BY <1>2 DEF Answers, NameAccepted
<1>6. screen = "date" => date \in Dates /\ GoodDate(date) /\ date # Nothing
  BY NothingAssumption DEF Continue, OnKeys, ProfInv, GoodDate, DateExists
<1>7. prof'.offset \in Dates \cup {Nothing} /\ (prof'.offset \in Dates => GoodDate(prof'.offset))
  BY <1>3, <1>4, <1>6 DEF ProfInv
<1>8. /\ date' \in Dates \cup {Nothing} /\ (date' \in Dates => GoodDate(date') \/ ~isValid'.month)
      /\ DOMAIN isValid' = {"year", "month"}
  BY <1>4 DEF ProfInv
<1>9. Past("network")' => prof'.host = "good"
  BY <1>1, <1>3, <1>4, <1>5 DEF ProfInv
<1>10. Past("date")' => prof'.offset # Nothing
  BY <1>1, <1>3, <1>4, <1>6 DEF ProfInv
<1>11. DOMAIN prof' = {"system", "host", "nic", "offset", "region", "country", "zone"}
  BY <1>4 DEF ProfInv
<1>. QED
  BY <1>1, <1>7, <1>8, <1>9, <1>10, <1>11 DEF ProfInv, GoodDate

\* What F3 and F6 store is not past.
LEMMA ProfBack ==
    ASSUME VisitInv, ProfInv, Back \/ ShowHelp
    PROVE  ProfInv'
<1>1. (Returns \/ Asks) /\ shown' = FALSE /\ List' = List /\ \A s : Past(s)' => Past(s)
  BY BackMoves, HelpMoves, PastReturns, PastAsks DEF Returns, Asks
<1>2. PICK c \in Entries : Store(c, prof)
  BY DEF Back, ShowHelp
<1>3. /\ DOMAIN prof' = DOMAIN prof /\ prof'.offset = prof.offset
      /\ date' = date /\ isValid' = isValid
      /\ screen # "network" => prof'.host = prof.host
  BY <1>2, Stored
<1>4. screen = "network" => ~Past("network")
  BY RankType DEF Past, Place
<1>. QED
  BY <1>1, <1>3, <1>4 DEF ProfInv, GoodDate

\* Every step keeps what was accepted.
LEMMA ProfStep ==
    ASSUME VisitInv, ProfInv, [ScreensNext]_screensVars
    PROVE  ProfInv'
<1>1. CASE ShowScreen
  BY <1>1, ProfShow
<1>2. CASE EditDate
  BY <1>2, ProfEditDate
<1>3. CASE Continue
  BY <1>3, ProfContinue
<1>4. CASE Back \/ ShowHelp
  BY <1>4, ProfBack
<1>5. CASE MoveToDisk \/ EditLayout \/ ResetLayout
  <2>1. (Stays /\ shown' = shown) \/ Ends
    BY <1>5, OtherMoves
  <2>2. UNCHANGED confVars /\ ScreensNext
    BY <1>5 DEF MoveToDisk, EditLayout, ResetLayout, KeepConf, ScreensNext
  <2>3. shown' = FALSE \/ Stays
    BY <2>1 DEF Ends
  <2>4. shown' = FALSE \/ shown' = shown
    BY <2>1 DEF Ends
  <2>. QED
    BY <2>1, <2>2, <2>3, <2>4, ProfKeys
<1>6. CASE RefuseAnswer \/ HelpIndex \/ HelpTopic \/ LeaveHelp \/ Quit \/ DateRaises
  <2>1. \/ Stays /\ shown' = shown
        \/ Stays /\ shown' = FALSE
        \/ Returns \/ Ends
    BY <1>6, RefuseMoves, HelpMoves, OtherMoves
  <2>2. UNCHANGED confVars /\ ScreensNext
    BY <1>6
    DEF RefuseAnswer, HelpIndex, HelpTopic, LeaveHelp, Quit, DateRaises, KeepConf, ScreensNext
  <2>3. shown' = FALSE \/ Stays
    BY <2>1 DEF Returns, Ends
  <2>4. shown' = FALSE \/ shown' = shown
    BY <2>1 DEF Returns, Ends
  <2>. QED
    BY <2>1, <2>2, <2>3, <2>4, ProfKeys
<1>7. CASE UNCHANGED screensVars
  <2>1. /\ Stays /\ prof' = prof /\ date' = date /\ isValid' = isValid
        /\ screen' = screen /\ shown' = shown
    BY <1>7 DEF screensVars, Stays
  <2>2. List' = List /\ \A s : Past(s)' <=> Past(s)
    BY <2>1, PastStays
  <2>. QED
    BY <2>1, <2>2, ProfKept
<1>. QED
  BY <1>1, <1>2, <1>3, <1>4, <1>5, <1>6, <1>7 DEF ScreensNext
-----------------------------------------------------------------------------
(* The time zone *)

\* A session that has ended takes no step.
LEMMA NotEnded ==
    ASSUME VisitInv, ScreensNext
    PROVE  screen \notin Ended
<1>1. CASE ShowScreen
  BY <1>1 DEF ShowScreen, ShowDisk, ShowFDisk, ShowParts, ShowFDiskSlice,
     ShowPartsSlice, ShowNetwork, ShowNics, ShowTimeZone, TzScreens, ShowPlain, ShowDate, Ended
<1>2. CASE ~ShowScreen
  BY <1>2 DEF ScreensNext, VisitInv, EditDate, MoveToDisk, EditLayout, ResetLayout, Continue,
     RefuseAnswer, Back, ShowHelp, HelpIndex, HelpTopic, LeaveHelp, Quit, DateRaises, OnKeys
<1>. QED
  BY <1>1, <1>2

\* The order of the three screens of the zone.
LEMMA TzRanks ==
    ASSUME screen \in TzScreens, screen \in ToSet(List)
    PROVE  /\ TzScreens \subseteq ToSet(List) /\ Place = screen
           /\ screen = "regions" => ~Past("regions") /\ ~Past("locations") /\ ~Past("timezone")
           /\ screen = "locations" => Past("regions") /\ ~Past("locations") /\ ~Past("timezone")
           /\ screen = "timezone" => Past("regions") /\ Past("locations") /\ ~Past("timezone")
BY InTheList, RankValues DEF TzScreens, Past, Place

(* The same zone, and the lists as they were.                              *)
LEMMA ZoneKept ==
    ASSUME VisitInv, ZoneInv, ScreensNext, zones' = zones, prof'.region = prof.region,
           prof'.country = prof.country, prof'.zone = prof.zone,
           screen \notin TzScreens \/ ~Ahead,
           shown' = FALSE \/ (shown' = shown /\ screen' = screen) \/ screen' \notin TzScreens,
           screen \notin TzScreens \/ (shown' = shown /\ screen' = screen) \/ Ends
    PROVE  ZoneInv'
<1>1. /\ Past("regions")' => Past("regions")
      /\ Past("locations")' => Past("locations")
      /\ Past("timezone")' => Past("timezone")
  BY PastMoves DEF TzScreens
<1>2. shown' /\ screen' \in TzScreens => shown /\ screen' = screen
  <2>1. CASE shown' = FALSE
    BY <2>1
  <2>2. CASE shown' = shown /\ screen' = screen
    BY <2>2
  <2>3. CASE screen' \notin TzScreens
    BY <2>3
  <2>. QED
    BY <2>1, <2>2, <2>3
<1>4. RegionKnown' <=> RegionKnown
  BY DEF RegionKnown
<1>5. CountryKnown' <=> CountryKnown
  BY DEF CountryKnown
<1>6. ASSUME NEW s \in TzScreens
      PROVE  \/ zones'[s].list = {} \/ MadeFor(s, zones'[s].last, zones'[s].list)
             \/ (shown' /\ screen' = s) \/ screen' \in Ended
  <2>1. \/ zones[s].list = {} \/ MadeFor(s, zones[s].last, zones[s].list)
        \/ (shown /\ screen = s)
    BY NotEnded DEF ZoneInv
  <2>2. CASE shown /\ screen = s
    <3>1. CASE shown' = shown /\ screen' = screen
      BY <2>2, <3>1
    <3>2. CASE Ends
      BY <3>2 DEF Ends, Ended
    <3>. QED
      BY <2>2, <3>1, <3>2
  <2>. QED
    BY <2>1, <2>2
<1>7. ASSUME shown', screen' \in TzScreens
      PROVE  /\ MadeFor(screen', zones'[screen'].parent, zones'[screen'].list)
             /\ zones'[screen'].parent = TimezoneParent(screen)'
  <2>1. shown /\ screen' = screen
    BY <1>2, <1>7
  <2>2. TimezoneParent(screen)' = TimezoneParent(screen)
    BY <2>1 DEF TimezoneParent
  <2>. QED
    BY <1>7, <2>1, <2>2 DEF ZoneInv
<1>8. shown' /\ screen' \in {"locations", "timezone"} => prof'.region # "utc"
  BY <1>2 DEF ZoneInv, TzScreens
<1>9. /\ Past("regions")' => RegionKnown'
      /\ Past("locations")' => CountryKnown'
  BY <1>1, <1>4, <1>5 DEF ZoneInv
<1>10. Past("timezone")' => ZoneChosen'
  BY <1>1 DEF ZoneInv, ZoneChosen, RegionsOf
<1>11. /\ DOMAIN zones' = TzScreens
       /\ \A s \in TzScreens : DOMAIN zones'[s] = {"list", "parent", "last"}
  BY DEF ZoneInv
<1>. QED
  BY <1>6, <1>7, <1>8, <1>9, <1>10, <1>11 DEF ZoneInv

\* A list is fresh, or was made for the same parent.
LEMMA ZoneShow ==
    ASSUME VisitInv, ProfInv, ZoneInv, ShowScreen, ShowTimeZone
    PROVE  ZoneInv'
<1>. USE DEF Show, Skip, GoTo
<1>0. ScreensNext /\ screen \in ToSet(List) /\ screen \in TzScreens /\ ~shown
  BY ScreenInList DEF ScreensNext, ShowTimeZone, ShowScreen, TzScreens, Screens
<1>1. /\ prof'.region = prof.region /\ prof'.country = prof.country /\ prof'.zone = prof.zone
  BY DEF ShowTimeZone, ProfInv
<1>2. RegionKnown' <=> RegionKnown
  BY <1>1 DEF RegionKnown
<1>3. CountryKnown' <=> CountryKnown
  BY <1>1 DEF CountryKnown
<1>4. \A s \in TzScreens : zones[s].list = {} \/ MadeFor(s, zones[s].last, zones[s].list)
  BY <1>0, NotEnded DEF ZoneInv
<1>5. screen # "regions" => RegionKnown
  BY <1>0, TzRanks DEF ZoneInv, TzScreens
<1>6. screen = "timezone" => CountryKnown
  BY <1>0, TzRanks DEF ZoneInv
<1>7. CASE prof.region = "utc" /\ screen # "regions"
  <2>1. zones' = zones /\ shown' = FALSE
    BY <1>7 DEF ShowTimeZone
  <2>2. \A s \in TzScreens : \/ zones'[s].list = {} \/ MadeFor(s, zones'[s].last, zones'[s].list)
    BY <1>4, <2>1
  <2>. QED
    BY <1>1, <1>2, <1>3, <1>5, <1>7, <2>1, <2>2 DEF ZoneInv, CountryKnown, ZoneChosen
<1>8. CASE ~(prof.region = "utc" /\ screen # "regions")
  <2>. DEFINE q == TimezoneParent(screen)
              new == [list |-> GetTimezones(screen), last |-> zones[screen].last, parent |-> q]
  <2>1. zones' = [zones EXCEPT ![screen] = new] /\ shown' = TRUE /\ Stays
    BY <1>8 DEF ShowTimeZone, Stays, ShowScreen
  <2>2. List' = List /\ screen' = screen /\ \A s : Past(s)' <=> Past(s)
    BY <2>1, PastStays DEF Stays
  <2>3. MadeFor(screen, q, GetTimezones(screen))
    <3>1. CASE GetTimezones(screen) = zones[screen].list /\ zones[screen].list # {}
                 /\ zones[screen].last = q
      BY <1>0, <1>4, <3>1
    <3>2. CASE GetTimezones(screen) = FreshTimezones(screen)
      <4>1. CASE screen = "regions"
        BY <3>2, <4>1 DEF MadeFor, FreshTimezones
      <4>2. CASE screen = "locations"
        BY <1>5, <1>8, <3>2, <4>2 DEF MadeFor, FreshTimezones, TimezoneParent, RegionKnown
      <4>3. CASE screen = "timezone"
        BY <1>5, <1>6, <1>8, <3>2, <4>3
        DEF MadeFor, FreshTimezones, TimezoneParent, RegionKnown, CountryKnown, ZonesOf
      <4>. QED
        BY <1>0, <4>1, <4>2, <4>3 DEF TzScreens
    <3>. QED
      BY <3>1, <3>2 DEF GetTimezones
  <2>4. TimezoneParent(screen)' = q
    BY <1>1, <2>2 DEF TimezoneParent
  <2>. HIDE DEF q
  <2>5. /\ DOMAIN zones' = TzScreens
        /\ zones'[screen].parent = q /\ zones'[screen].list = GetTimezones(screen)
        /\ \A s \in TzScreens : DOMAIN zones'[s] = {"list", "parent", "last"}
        /\ \A s \in TzScreens : s # screen => zones'[s] = zones[s]
    BY <1>0, <2>1 DEF ZoneInv
  <2>6. \A s \in TzScreens : \/ zones'[s].list = {} \/ MadeFor(s, zones'[s].last, zones'[s].list)
                             \/ (shown' /\ screen' = s)
    BY <1>4, <2>1, <2>2, <2>5
  <2>7. MadeFor(screen', zones'[screen'].parent, zones'[screen'].list)
    BY <2>2, <2>3, <2>5
  <2>8. zones'[screen'].parent = TimezoneParent(screen)'
    BY <2>2, <2>4, <2>5
  <2>9. screen' \in {"locations", "timezone"} => prof'.region # "utc"
    BY <1>1, <1>8, <2>2
  <2>10. Past("timezone")' => ZoneChosen'
    BY <1>1, <2>2 DEF ZoneInv, ZoneChosen, RegionsOf
  <2>11. /\ Past("regions")' => RegionKnown'
         /\ Past("locations")' => CountryKnown'
    BY <1>2, <1>3, <2>2 DEF ZoneInv
  <2>. QED
    BY <2>2, <2>5, <2>6, <2>7, <2>8, <2>9, <2>10, <2>11 DEF ZoneInv
<1>. QED
  BY <1>7, <1>8

\* A choice is taken from the list its parent was made for.
LEMMA ZoneLeft ==
    ASSUME VisitInv, ProfInv, ZoneInv, ScreensNext,
           shown, shown' = FALSE, screen \in TzScreens,
           NEW c \in Entries, Store(c, prof)
    PROVE  ZoneInv'
<1>1. /\ screen \in ToSet(List) /\ TzScreens \subseteq ToSet(List)
      /\ \A s : Past(s)' => Past(s) \/ s = screen
  BY ScreenInList, PastMoves, InTheList DEF TzScreens, Screens
<1>2. /\ MadeFor(screen, TimezoneParent(screen), zones[screen].list)
      /\ zones[screen].parent = TimezoneParent(screen)
      /\ DOMAIN zones = TzScreens /\ DOMAIN zones[screen] = {"list", "parent", "last"}
  BY DEF ZoneInv
<1>3. zones' = [zones EXCEPT ![screen].last = zones[screen].parent]
  BY DEF Store
<1>4. /\ DOMAIN zones' = TzScreens
      /\ zones'[screen].last = TimezoneParent(screen) /\ zones'[screen].list = zones[screen].list
      /\ DOMAIN zones'[screen] = {"list", "parent", "last"}
      /\ \A s \in TzScreens : s # screen => zones'[s] = zones[s]
  BY <1>2, <1>3
<1>5. \A s \in TzScreens : DOMAIN zones'[s] = {"list", "parent", "last"}
  BY <1>4 DEF ZoneInv
<1>6. \A s \in TzScreens : \/ zones'[s].list = {} \/ MadeFor(s, zones'[s].last, zones'[s].list)
  <2>1. \A s \in TzScreens : s # screen => \/ zones[s].list = {}
                                           \/ MadeFor(s, zones[s].last, zones[s].list)
    BY NotEnded DEF ZoneInv
  <2>. QED
    BY <1>2, <1>4, <2>1
<1>7. screen # "regions" => RegionKnown /\ prof.region # "utc"
  BY <1>1, TzRanks DEF ZoneInv, TzScreens
<1>8. screen = "timezone" => CountryKnown
  BY <1>1, TzRanks DEF ZoneInv
<1>9. /\ Past("regions")' => RegionKnown'
      /\ Past("locations")' => CountryKnown'
      /\ Past("timezone")' => ZoneChosen'
  <2>1. CASE screen = "regions"
    <3>1. ~Past("locations")' /\ ~Past("timezone")'
      BY <1>1, <2>1, TzRanks
    <3>2. c \in DOMAIN ZoneTable \cup {"utc"}
      BY <1>2, <2>1 DEF Entries, MadeFor
    <3>3. CASE c = "utc"
      BY <2>1, <3>1, <3>3 DEF Store, ZoneStored, TzScreens, ProfInv, RegionKnown
    <3>4. CASE c # "utc"
      BY <2>1, <3>1, <3>2, <3>4 DEF Store, ZoneStored, TzScreens, ProfInv, RegionKnown
    <3>. QED
      BY <3>3, <3>4
  <2>2. CASE screen = "locations"
    <3>1. ~Past("timezone")'
      BY <1>1, <2>2, TzRanks
    <3>2. prof'.region = prof.region /\ prof'.country = c
      BY <2>2 DEF Store, ZoneStored, TzScreens, ProfInv
    <3>3. c \in DOMAIN ZoneTable[prof.region]
      BY <1>2, <2>2 DEF Entries, MadeFor, TimezoneParent
    <3>. QED
      BY <1>7, <2>2, <3>1, <3>2, <3>3 DEF RegionKnown, CountryKnown
  <2>3. CASE screen = "timezone"
    <3>1. prof'.region = prof.region /\ prof'.country = prof.country /\ prof'.zone = c
      BY <2>3 DEF Store, ZoneStored, TzScreens, ProfInv
    <3>2. PICK r \in DOMAIN ZoneTable :
             prof.country \in DOMAIN ZoneTable[r] /\ zones[screen].list = ZoneTable[r][prof.country]
      BY <1>2, <2>3 DEF MadeFor, TimezoneParent
    <3>3. r \in RegionsOf(prof'.country) /\ c \in ZoneTable[r][prof'.country]
      BY <2>3, <3>1, <3>2 DEF Entries, RegionsOf
    <3>5. ZoneChosen'
      BY <3>1, <3>3 DEF ZoneChosen, RegionsOf
    <3>. QED
      BY <1>7, <1>8, <2>3, <3>1, <3>5 DEF RegionKnown, CountryKnown
  <2>. QED
    BY <2>1, <2>2, <2>3 DEF TzScreens
<1>. QED
  BY <1>4, <1>5, <1>6, <1>9 DEF ZoneInv

(* On another screen nothing of the zone is stored.                        *)
LEMMA NoZoneStored ==
    ASSUME ProfInv, NEW c, NEW p, DOMAIN p = DOMAIN prof, screen \notin TzScreens, Store(c, p)
    PROVE  /\ zones' = zones /\ prof'.region = p.region /\ prof'.country = p.country
           /\ prof'.zone = p.zone
<1>1. CASE screen = "network"
  BY <1>1 DEF Store, NameStored, ProfInv
<1>2. CASE screen # "network"
  BY <1>2 DEF Store
<1>. QED
  BY <1>1, <1>2

\* Leaving any screen keeps the choices that are past.
LEMMA ZoneLeave ==
    ASSUME VisitInv, ProfInv, ZoneInv, Continue \/ Back \/ ShowHelp
    PROVE  ZoneInv'
<1>1. ScreensNext /\ shown /\ screen \in Screens /\ shown' = FALSE
  BY DEF ScreensNext, Continue, Back, ShowHelp, OnKeys, GoTo
<1>2. PICK c \in Entries : \/ Store(c, prof)
                          \/ (Store(c, [prof EXCEPT !.offset = date]) /\ screen = "date")
  BY DEF Continue, Back, ShowHelp
<1>3. CASE screen \in TzScreens
  <2>1. Store(c, prof)
    BY <1>2, <1>3 DEF TzScreens
  <2>. QED
    BY <1>1, <1>3, <2>1, ZoneLeft
<1>4. CASE screen \notin TzScreens
  <2>. DEFINE p == [prof EXCEPT !.offset = date]
  <2>1. /\ zones' = zones /\ prof'.region = prof.region /\ prof'.country = prof.country
        /\ prof'.zone = prof.zone
    <3>1. CASE Store(c, prof)
      BY <1>4, <3>1, NoZoneStored
    <3>2. CASE Store(c, p)
      <4>1. /\ DOMAIN p = DOMAIN prof /\ p.region = prof.region /\ p.country = prof.country
            /\ p.zone = prof.zone
        BY DEF ProfInv
      <4>. HIDE DEF p
      <4>. QED
        BY <1>4, <3>2, <4>1, NoZoneStored
    <3>. QED
      BY <1>2, <3>1, <3>2
  <2>2. /\ shown' = FALSE \/ (shown' = shown /\ screen' = screen) \/ screen' \notin TzScreens
        /\ screen \notin TzScreens \/ (shown' = shown /\ screen' = screen) \/ Ends
        /\ screen \notin TzScreens \/ ~Ahead
    BY <1>1, <1>4
  <2>. QED
    BY <1>1, <2>1, <2>2, ZoneKept
<1>. QED
  BY <1>3, <1>4

\* Keys that do not change the zone.
LEMMA ZoneKeys ==
    ASSUME VisitInv, ZoneInv, ScreensNext, zones' = zones, prof' = prof,
           \/ Stays /\ shown' = shown
           \/ Ends
           \/ screen \notin TzScreens /\ (Stays \/ Returns \/ Asks) /\ shown' = FALSE
    PROVE  ZoneInv'
<1>1. ~Ahead
  BY NotAhead
<1>2. shown' = FALSE \/ (shown' = shown /\ screen' = screen) \/ screen' \notin TzScreens
  BY DEF Stays, Ends
<1>3. screen \notin TzScreens \/ (shown' = shown /\ screen' = screen) \/ Ends
  BY DEF Stays
<1>. QED
  BY <1>1, <1>2, <1>3, ZoneKept

\* Every step keeps the zone.
LEMMA ZoneStep ==
    ASSUME VisitInv, ProfInv, ZoneInv, [ScreensNext]_screensVars
    PROVE  ZoneInv'
<1>1. CASE ShowScreen /\ ShowTimeZone
  BY <1>1, ZoneShow
<1>2. CASE ShowScreen /\ ~ShowTimeZone
  <2>1. /\ zones' = zones /\ prof'.region = prof.region /\ prof'.country = prof.country
        /\ prof'.zone = prof.zone /\ screen \notin TzScreens
    BY <1>2 DEF ShowScreen, ShowDisk, ShowFDisk, ShowParts, ShowFDiskSlice, ShowPartsSlice,
       ShowNetwork, ShowNics, ShowDate, ShowPlain, KeepConf, confVars, TzScreens, ProfInv
  <2>2. shown' = FALSE \/ screen' = screen
    BY <1>2, ShowMoves DEF Stays, Ahead, Ends
  <2>3. shown' = FALSE \/ (shown' = shown /\ screen' = screen) \/ screen' \notin TzScreens
    BY <2>1, <2>2
  <2>4. ScreensNext
    BY <1>2 DEF ScreensNext
  <2>. QED
    BY <2>1, <2>3, <2>4, ZoneKept
<1>3. CASE \/ EditDate \/ MoveToDisk \/ EditLayout \/ ResetLayout \/ RefuseAnswer
           \/ Quit \/ DateRaises
  <2>1. (Stays /\ shown' = shown) \/ Ends
    BY <1>3, OtherMoves, RefuseMoves
  <2>2. zones' = zones /\ prof' = prof /\ ScreensNext
    BY <1>3 DEF EditDate, MoveToDisk, EditLayout, ResetLayout, RefuseAnswer, Quit, DateRaises, KeepConf,
       confVars, ScreensNext
  <2>. QED
    BY <2>1, <2>2, ZoneKeys
<1>4. CASE Continue \/ Back \/ ShowHelp
  BY <1>4, ZoneLeave
<1>5. CASE HelpIndex \/ HelpTopic \/ LeaveHelp
  <2>1. (Stays \/ Returns) /\ shown' = FALSE /\ screen \notin TzScreens
    BY <1>5, HelpMoves DEF HelpIndex, HelpTopic, LeaveHelp, TzScreens, GoTo
  <2>2. zones' = zones /\ prof' = prof /\ ScreensNext
    BY <1>5 DEF HelpIndex, HelpTopic, LeaveHelp, KeepConf, confVars, ScreensNext
  <2>. QED
    BY <2>1, <2>2, ZoneKeys
<1>6. CASE UNCHANGED screensVars
  <2>1. Stays /\ prof' = prof /\ zones' = zones /\ screen' = screen /\ shown' = shown
    BY <1>6 DEF screensVars, Stays
  <2>2. /\ Past("regions")' <=> Past("regions")
        /\ Past("locations")' <=> Past("locations")
        /\ Past("timezone")' <=> Past("timezone")
    BY <2>1, PastStays
  <2>3. /\ TimezoneParent(screen)' = TimezoneParent(screen)
        /\ RegionKnown' <=> RegionKnown
        /\ CountryKnown' <=> CountryKnown
        /\ ZoneChosen' <=> ZoneChosen
    BY <2>1 DEF TimezoneParent, RegionKnown, CountryKnown, ZoneChosen, RegionsOf
  <2>. QED
    BY <2>1, <2>2, <2>3 DEF ZoneInv
<1>. QED
  BY <1>1, <1>2, <1>3, <1>4, <1>5, <1>6 DEF ScreensNext
-----------------------------------------------------------------------------
(* The target *)

DiskScreens == {"disk", "fdisk", "parts", "fdisk_slice", "parts_slice"}

\* The order of the disk screens.
LEMMA DiskRanks ==
    ASSUME screen \in DiskScreens, screen \in ToSet(List)
    PROVE  /\ ~Past("parts_slice")
           /\ screen # "disk" => Past("disk")
           /\ screen = "disk" => ~Past("disk")
           /\ Past("parts") \/ Past("fdisk_slice") =>
                 setup.x86 /\ screen \in {"fdisk_slice", "parts_slice"}
           /\ Past("fdisk_slice") <=> screen = "parts_slice"
           /\ screen \in {"fdisk_slice", "parts_slice"} => setup.x86
<1>1. setup.text /\ Place = screen
  BY InTheList DEF DiskScreens, Place
<1>2. /\ {"disk", "fdisk", "parts"} \subseteq ToSet(List)
      /\ "fdisk_slice" \in ToSet(List) <=> setup.x86
      /\ "parts_slice" \in ToSet(List) <=> setup.x86
  BY <1>1, InTheList
<1>. QED
  BY <1>1, <1>2, RankValues DEF DiskScreens, Past

\* What was discovered is a layout.
LEMMA FoundGood ==
    ASSUME VisitInv, NEW d \in Disks
    PROVE  /\ Found(d) \in GoodLayouts /\ ~Found(d).whole /\ ~Found(d).inPool
           /\ setup.disks[d] = "sliced" => Found(d).part = "sliced"
<1>. DEFINE p == IF setup.disks[d] = "none" /\ setup.x86 THEN "none" ELSE "sliced"
<1>1. p \in {"none", "sliced"} /\ (~setup.x86 => p = "sliced")
      /\ (setup.disks[d] = "sliced" => p = "sliced")
  OBVIOUS
<1>2. Found(d) = [part |-> p, made |-> "found", inPool |-> FALSE, whole |-> FALSE]
  BY DEF Found, Layout
<1>. HIDE DEF p
<1>. QED
  BY <1>1, <1>2 DEF GoodLayouts, LayoutRecords

\* A layout that is not a whole disk's any more.
LEMMA LayoutEdits ==
    ASSUME NEW l \in GoodLayouts
    PROVE  /\ [l EXCEPT !.whole = FALSE] \in GoodLayouts
           /\ [l EXCEPT !.whole = FALSE].whole = FALSE
           /\ [l EXCEPT !.whole = FALSE].part = l.part
           /\ [l EXCEPT !.whole = FALSE].inPool = l.inPool
           /\ l.part \in {"none", "bare", "sliced"} /\ l.whole \in BOOLEAN /\ l.inPool \in BOOLEAN
           /\ l.whole => l.part = "sliced" /\ ~l.inPool
           /\ ~setup.x86 => l.part = "sliced" /\ ~l.inPool
<1>0. l \in LayoutRecords
  BY DEF GoodLayouts
<1>1. /\ l.whole => l.part = "sliced" /\ ~l.inPool
      /\ ~setup.x86 => l.part = "sliced" /\ ~l.inPool
  <2>1. l.whole => l.part = "sliced" /\ ~l.inPool
    BY DEF GoodLayouts, LayoutRecords
  <2>2. ~setup.x86 => l.part = "sliced" /\ ~l.inPool
    BY DEF GoodLayouts, LayoutRecords
  <2>. QED
    BY <2>1, <2>2
<1>2. l.part \in {"none", "bare", "sliced"} /\ l.whole \in BOOLEAN /\ l.inPool \in BOOLEAN
  BY <1>0 DEF LayoutRecords
<1>3. /\ [l EXCEPT !.whole = FALSE] \in LayoutRecords
      /\ [l EXCEPT !.whole = FALSE].whole = FALSE
      /\ [l EXCEPT !.whole = FALSE].part = l.part
      /\ [l EXCEPT !.whole = FALSE].inPool = l.inPool
  BY <1>0 DEF LayoutRecords
<1>4. [l EXCEPT !.whole = FALSE] \in GoodLayouts
  BY <1>1, <1>3 DEF GoodLayouts
<1>. QED
  BY <1>1, <1>2, <1>3, <1>4

\* The backups are layouts, and what is restored from them is one.
LEMMA Backups ==
    ASSUME VisitInv, TargetInv
    PROVE  /\ BackedUp \in [Disks -> GoodLayouts \cup {Nothing}]
           /\ \A b \in [Disks -> GoodLayouts \cup {Nothing}] : \A d \in Disks :
                 /\ FromBackup(b, d) \in GoodLayouts
                 /\ [b EXCEPT ![d] = Nothing] \in [Disks -> GoodLayouts \cup {Nothing}]
<1>1. /\ kept \in [Disks -> GoodLayouts \cup {Nothing}]
      /\ target = NoTarget \/ target \in TargetRecords
  BY DEF TargetInv
<1>2. BackedUp \in [Disks -> GoodLayouts \cup {Nothing}]
  <2>1. CASE target.disk = Nothing
    BY <1>1, <2>1 DEF BackedUp
  <2>2. CASE target.disk # Nothing
    <3>1. target.disk \in Disks /\ target.layout \in GoodLayouts
      BY <1>1, <2>2 DEF NoTarget, TargetRecords
    <3>. QED
      BY <1>1, <2>2, <3>1 DEF BackedUp
  <2>. QED
    BY <2>1, <2>2
<1>3. ASSUME NEW b \in [Disks -> GoodLayouts \cup {Nothing}], NEW d \in Disks
      PROVE  /\ FromBackup(b, d) \in GoodLayouts
             /\ [b EXCEPT ![d] = Nothing] \in [Disks -> GoodLayouts \cup {Nothing}]
  <2>1. CASE b[d] = Nothing
    BY <2>1, FoundGood DEF FromBackup
  <2>2. CASE b[d] # Nothing
    <3>1. b[d] \in GoodLayouts
      BY <2>2
    <3>. QED
      BY <2>2, <3>1, LayoutEdits DEF FromBackup
  <2>. QED
    BY <2>1, <2>2
<1>. QED
  BY <1>2, <1>3

\* Layouts and targets are the setup's.
LEMMA SameRecords ==
    ASSUME setup' = setup
    PROVE  Disks' = Disks /\ GoodLayouts' = GoodLayouts /\ TargetRecords' = TargetRecords
BY DEF Disks, GoodLayouts, TargetRecords

\* A new target.
LEMMA NewRecord ==
    ASSUME NEW d \in Disks, NEW l \in GoodLayouts
    PROVE  NewTarget(d, l) \in TargetRecords /\ NewTarget(d, l).layout = l
BY DEF NewTarget, TargetRecords

\* A target whose layout changes.
LEMMA Changed ==
    ASSUME target \in TargetRecords, NEW l \in GoodLayouts, NEW b \in BOOLEAN
    PROVE  /\ [target EXCEPT !.layout = l, !.checked = b] \in TargetRecords
           /\ [target EXCEPT !.layout = l, !.checked = b].layout = l
           /\ [target EXCEPT !.layout = l, !.checked = b].checked = b
BY DEF TargetRecords

\* The layout of a target.
LEMMA TargetLayout ==
    ASSUME target \in TargetRecords
    PROVE  /\ target.layout \in GoodLayouts /\ target.disk \in Disks
           /\ target.layout.part \in {"none", "bare", "sliced"}
           /\ target.layout.whole \in BOOLEAN /\ target.layout.inPool \in BOOLEAN
           /\ target.layout.whole => target.layout.part = "sliced" /\ ~target.layout.inPool
           /\ ~setup.x86 => target.layout.part = "sliced" /\ ~target.layout.inPool
BY LayoutEdits DEF TargetRecords

\* A step that leaves the target alone, and no disk screen behind.
LEMMA TargetKept ==
    ASSUME TargetInv, setup' = setup, target' = target, kept' = kept,
           \A s \in DiskScreens \ {"fdisk"} : Past(s)' => Past(s),
           shown' /\ screen' \in DiskScreens \ {"fdisk"} => shown /\ screen' = screen
    PROVE  TargetInv'
<1>1. Disks' = Disks /\ GoodLayouts' = GoodLayouts /\ TargetRecords' = TargetRecords
  BY SameRecords
<1>2. /\ Past("disk")' => Past("disk")
      /\ Past("parts")' => Past("parts")
      /\ Past("fdisk_slice")' => Past("fdisk_slice")
      /\ Past("parts_slice")' => Past("parts_slice")
  BY DEF DiskScreens
<1>3. /\ shown' /\ screen' = "disk" => shown /\ screen = "disk"
      /\ shown' /\ screen' = "parts" => shown /\ screen = "parts"
      /\ shown' /\ screen' = "fdisk_slice" => shown /\ screen = "fdisk_slice"
      /\ shown' /\ screen' = "parts_slice" => shown /\ screen = "parts_slice"
  BY DEF DiskScreens
<1>4. NoTarget' = NoTarget
  BY DEF NoTarget
<1>. QED
  BY <1>1, <1>2, <1>3, <1>4 DEF TargetInv, Validated

(* A step of a disk screen that has a target and stays before the last of them. *)
LEMMA TargetNew ==
    ASSUME setup' = setup, target' \in TargetRecords,
           kept' \in [Disks -> GoodLayouts \cup {Nothing}],
           ~Past("parts")' /\ ~Past("fdisk_slice")' /\ ~Past("parts_slice")',
           shown' => screen' = "disk"
    PROVE  TargetInv'
<1>1. Disks' = Disks /\ GoodLayouts' = GoodLayouts /\ TargetRecords' = TargetRecords
  BY SameRecords
<1>. QED
  BY <1>1 DEF TargetInv

\* The disk screen starts with a target.
LEMMA TargetShowDisk ==
    ASSUME VisitInv, TargetInv, ShowScreen, ShowDisk
    PROVE  TargetInv'
<1>1. /\ screen = "disk" /\ setup' = setup /\ shown' = TRUE /\ Stays /\ screen \in ToSet(List)
      /\ Disks' = Disks
  BY ScreenInList, SameList DEF ShowDisk, ShowScreen, Show, Stays, Screens
<1>2. ~Past("disk") /\ ~Past("parts") /\ ~Past("fdisk_slice") /\ ~Past("parts_slice")
  BY <1>1, DiskRanks DEF DiskScreens
<1>3. ~Past("disk")' /\ ~Past("parts")' /\ ~Past("fdisk_slice")' /\ ~Past("parts_slice")'
  BY <1>1, <1>2, PastStays
<1>4. CASE Disks = {}
  <2>1. target' = target /\ kept' = kept /\ screen' = "disk"
    BY <1>1, <1>4 DEF ShowDisk, KeepDisks, diskVars, Stays
  <2>2. Disks' = Disks /\ GoodLayouts' = GoodLayouts /\ TargetRecords' = TargetRecords
        /\ NoTarget' = NoTarget
    BY <1>1, SameRecords DEF NoTarget
  <2>. QED
    BY <1>3, <1>4, <2>1, <2>2 DEF TargetInv
<1>5. CASE Disks # {}
  <2>1. PICK d \in Disks : InitializeTarget(d)
    BY <1>5 DEF ShowDisk
  <2>2. kept \in [Disks -> GoodLayouts \cup {Nothing}]
    BY DEF TargetInv
  <2>3. target' \in TargetRecords /\ kept' \in [Disks -> GoodLayouts \cup {Nothing}]
    BY <2>1, <2>2, Backups, NewRecord DEF InitializeTarget
  <2>. QED
    BY <1>1, <1>3, <2>3, TargetNew DEF Stays
<1>. QED
  BY <1>4, <1>5

(* The target as any step after the choice of the disk leaves it.          *)
LEMMA TargetSet ==
    ASSUME VisitInv, ScreensNext, NEW t \in TargetRecords, target' = t,
           kept' \in [Disks -> GoodLayouts \cup {Nothing}],
           shown' /\ screen' \in {"parts", "fdisk_slice", "parts_slice"} => ~t.layout.whole,
           shown' /\ screen' = "parts_slice" => ~t.layout.inPool,
           shown' /\ screen' = "fdisk_slice" => t.layout.part = "sliced",
           Past("fdisk_slice")' /\ ~t.layout.whole => t.layout.part = "sliced" \/ t.layout.inPool,
           Past("parts_slice")' \/ (Past("parts")' /\ ~setup.x86) =>
              /\ t.checked /\ ~t.layout.whole /\ ~t.layout.inPool
              /\ t.layout.part = "sliced"
    PROVE  TargetInv'
<1>1. /\ Disks' = Disks /\ GoodLayouts' = GoodLayouts /\ TargetRecords' = TargetRecords
      /\ setup' = setup
  BY SameRecords, PastMoves
<1>2. target' \in TargetRecords'
  BY <1>1
<1>3. kept' \in [Disks' -> GoodLayouts' \cup {Nothing}]
  BY <1>1
<1>. QED
  BY <1>1, <1>2, <1>3 DEF TargetInv, Validated

\* On SPARC a whole disk is validated where it is skipped.
LEMMA TargetShowParts ==
    ASSUME VisitInv, TargetInv, ShowScreen, ShowParts
    PROVE  TargetInv'
<1>. USE DEF Show, Skip, GoTo
<1>1. /\ screen = "parts" /\ screen \in ToSet(List) /\ ScreensNext /\ ~shown
      /\ kept' \in [Disks -> GoodLayouts \cup {Nothing}]
  BY ScreenInList DEF ShowParts, ShowScreen, Screens, ScreensNext, TargetInv
<1>2. target \in TargetRecords
  BY <1>1, DiskRanks DEF TargetInv, DiskScreens
<1>3. ~Past("parts_slice")' /\ ~Past("fdisk_slice")'
  BY <1>1, DiskRanks, PastMoves DEF DiskScreens
<1>4. CASE ~target.layout.whole
  <2>1. target' = target /\ shown' = TRUE /\ screen' = "parts" /\ Stays
    BY <1>1, <1>4 DEF ShowParts, Stays, ShowScreen
  <2>2. ~(Past("parts")' /\ ~setup.x86)
    BY <1>1, <2>1, DiskRanks, PastStays DEF DiskScreens
  <2>. QED
    BY <1>1, <1>2, <1>3, <1>4, <2>1, <2>2, TargetSet
<1>5. CASE target.layout.whole /\ setup.x86
  <2>1. target' = target /\ shown' = FALSE
    BY <1>5 DEF ShowParts
  <2>. QED
    BY <1>1, <1>2, <1>3, <1>5, <2>1, TargetSet
<1>6. CASE target.layout.whole /\ ~setup.x86
  <2>. DEFINE l == [target.layout EXCEPT !.whole = FALSE]
              t == [target EXCEPT !.layout = l, !.checked = TRUE]
  <2>1. target' = t /\ shown' = FALSE
    BY <1>6 DEF ShowParts, Checked
  <2>2. /\ l \in GoodLayouts /\ l.whole = FALSE /\ l.part = "sliced" /\ l.inPool = FALSE
    BY <1>2, <1>6, TargetLayout, LayoutEdits
  <2>. HIDE DEF l
  <2>3. t \in TargetRecords /\ t.layout = l /\ t.checked = TRUE
    BY <1>2, <2>2, Changed
  <2>. HIDE DEF t
  <2>. QED
    BY <1>1, <1>3, <2>1, <2>2, <2>3, TargetSet
<1>. QED
  BY <1>4, <1>5, <1>6

\* A partition without slices is put in the pool.
LEMMA TargetShowFDiskSlice ==
    ASSUME VisitInv, TargetInv, ShowScreen, ShowFDiskSlice
    PROVE  TargetInv'
<1>. USE DEF Show, Skip, Stop, GoTo
<1>1. /\ screen = "fdisk_slice" /\ screen \in ToSet(List) /\ ScreensNext /\ ~shown
      /\ kept' \in [Disks -> GoodLayouts \cup {Nothing}]
  BY ScreenInList DEF ShowFDiskSlice, ShowScreen, Screens, ScreensNext, TargetInv
<1>2. target \in TargetRecords /\ setup.x86
  BY <1>1, DiskRanks DEF TargetInv, DiskScreens
<1>3. ~Past("parts_slice")'
  BY <1>1, DiskRanks, PastMoves DEF DiskScreens
<1>4. CASE target.layout.whole
  <2>1. target' = target /\ shown' = FALSE
    BY <1>4 DEF ShowFDiskSlice
  <2>. QED
    BY <1>1, <1>2, <1>3, <1>4, <2>1, TargetSet
<1>5. CASE ~target.layout.whole /\ target.layout.part = "none"
  <2>1. target' = target /\ shown' = FALSE /\ screen' = "failed" /\ Ends
    BY <1>5 DEF ShowFDiskSlice, Ends, ShowScreen
  <2>2. ~Past("fdisk_slice")' /\ ~Past("parts")'
    BY <2>1, PastEnds
  <2>. QED
    BY <1>1, <1>2, <1>3, <2>1, <2>2, TargetSet
<1>6. CASE ~target.layout.whole /\ target.layout.part = "bare"
  <2>. DEFINE l == [target.layout EXCEPT !.inPool = TRUE]
              t == [target EXCEPT !.layout = l, !.checked = FALSE]
  <2>1. target' = t /\ shown' = FALSE
    BY <1>6 DEF ShowFDiskSlice, Relayout
  <2>2. /\ l \in GoodLayouts /\ l.inPool = TRUE /\ l.whole = target.layout.whole
    BY <1>2, <1>6, TargetLayout DEF GoodLayouts, LayoutRecords
  <2>. HIDE DEF l
  <2>3. t \in TargetRecords /\ t.layout = l
    BY <1>2, <2>2, Changed
  <2>. HIDE DEF t
  <2>. QED
    BY <1>1, <1>2, <1>3, <1>6, <2>1, <2>2, <2>3, TargetSet
<1>7. CASE ~target.layout.whole /\ target.layout.part \notin {"none", "bare"}
  <2>1. target' = target /\ screen' = "fdisk_slice" /\ target.layout.part = "sliced"
    BY <1>1, <1>2, <1>7, TargetLayout DEF ShowFDiskSlice
  <2>. QED
    BY <1>1, <1>2, <1>3, <1>7, <2>1, TargetSet
<1>. QED
  BY <1>4, <1>5, <1>6, <1>7

\* On x86 a whole disk is validated where the last editor is skipped.
LEMMA TargetShowPartsSlice ==
    ASSUME VisitInv, TargetInv, ShowScreen, ShowPartsSlice
    PROVE  TargetInv'
<1>. USE DEF Show, Skip, Stop, GoTo
<1>1. /\ screen = "parts_slice" /\ screen \in ToSet(List) /\ ScreensNext /\ ~shown
      /\ kept' \in [Disks -> GoodLayouts \cup {Nothing}]
  BY ScreenInList DEF ShowPartsSlice, ShowScreen, Screens, ScreensNext, TargetInv
<1>2. target \in TargetRecords /\ setup.x86
  BY <1>1, DiskRanks DEF TargetInv, DiskScreens
<1>3. CASE target.layout.whole
  <2>. DEFINE l == [target.layout EXCEPT !.whole = FALSE]
              t == [target EXCEPT !.layout = l, !.checked = TRUE]
  <2>1. target' = t /\ shown' = FALSE
    BY <1>3 DEF ShowPartsSlice, Checked
  <2>2. /\ l \in GoodLayouts /\ l.whole = FALSE /\ l.part = "sliced" /\ l.inPool = FALSE
    BY <1>2, <1>3, TargetLayout, LayoutEdits
  <2>. HIDE DEF l
  <2>3. t \in TargetRecords /\ t.layout = l /\ t.checked = TRUE
    BY <1>2, <2>2, Changed
  <2>. HIDE DEF t
  <2>. QED
    BY <1>1, <2>1, <2>2, <2>3, TargetSet
<1>4. CASE ~target.layout.whole /\ target.layout.inPool
  <2>. DEFINE l == [target.layout EXCEPT !.part = "sliced", !.inPool = FALSE]
              t == [target EXCEPT !.layout = l, !.checked = TRUE]
  <2>1. target' = t /\ shown' = FALSE
    BY <1>4 DEF ShowPartsSlice, Checked
  <2>2. /\ l \in GoodLayouts /\ l.whole = FALSE /\ l.part = "sliced" /\ l.inPool = FALSE
    BY <1>2, <1>4, TargetLayout DEF GoodLayouts, LayoutRecords
  <2>. HIDE DEF l
  <2>3. t \in TargetRecords /\ t.layout = l /\ t.checked = TRUE
    BY <1>2, <2>2, Changed
  <2>. HIDE DEF t
  <2>. QED
    BY <1>1, <2>1, <2>2, <2>3, TargetSet
<1>5. CASE ~target.layout.whole /\ ~target.layout.inPool
  <2>1. target' = target /\ screen' = "parts_slice" /\ Stays
    BY <1>1, <1>5 DEF ShowPartsSlice, Stays, ShowScreen
  <2>2. ~Past("parts_slice")' /\ (Past("fdisk_slice")' => Past("fdisk_slice"))
    BY <1>1, <2>1, DiskRanks, PastStays DEF DiskScreens
  <2>3. Past("fdisk_slice")' => target.layout.part = "sliced"
    BY <1>5, <2>2 DEF TargetInv
  <2>. QED
    BY <1>1, <1>2, <1>5, <2>1, <2>2, <2>3, TargetSet
<1>. QED
  BY <1>3, <1>4, <1>5

\* Every screen that is shown keeps the target.
LEMMA TargetShow ==
    ASSUME VisitInv, TargetInv, ShowScreen
    PROVE  TargetInv'
<1>1. CASE ShowDisk
  BY <1>1, TargetShowDisk
<1>2. CASE ShowParts
  BY <1>2, TargetShowParts
<1>3. CASE ShowFDiskSlice
  BY <1>3, TargetShowFDiskSlice
<1>4. CASE ShowPartsSlice
  BY <1>4, TargetShowPartsSlice
<1>5. CASE ShowFDisk \/ ShowNetwork \/ ShowNics \/ ShowTimeZone \/ ShowDate \/ ShowPlain
  <2>1. /\ target' = target /\ kept' = kept /\ screen \notin DiskScreens \ {"fdisk"}
        /\ ScreensNext /\ setup' = setup
    BY <1>5 DEF ShowFDisk, ShowNetwork, ShowNics, ShowTimeZone, ShowDate, ShowPlain, TzScreens,
       KeepDisks, diskVars, DiskScreens, ShowScreen, ScreensNext
  <2>2. \A s \in DiskScreens \ {"fdisk"} : Past(s)' => Past(s)
    BY <2>1, PastMoves
  <2>3. shown' = FALSE \/ screen' = screen
    BY ShowMoves DEF Stays, Ahead, Ends
  <2>4. shown' /\ screen' \in DiskScreens \ {"fdisk"} => shown /\ screen' = screen
    BY <2>1, <2>3
  <2>. QED
    BY <2>1, <2>2, <2>4, TargetKept
<1>. QED
  BY <1>1, <1>2, <1>3, <1>4, <1>5 DEF ShowScreen

(* A step that leaves the disk as it is.                                   *)
LEMMA TargetKeys ==
    ASSUME VisitInv, TargetInv, ScreensNext, target' = target, kept' = kept,
           Stays \/ Returns \/ Asks \/ Ends, shown' = FALSE \/ (Stays /\ shown' = shown)
    PROVE  TargetInv'
<1>1. \A s : Past(s)' => Past(s)
  BY NotAhead, PastMoves
<1>2. shown' /\ screen' \in DiskScreens \ {"fdisk"} => shown /\ screen' = screen
  BY DEF Stays
<1>3. setup' = setup
  BY PastMoves
<1>. QED
  BY <1>1, <1>2, <1>3, TargetKept

\* Another disk is a new target.
LEMMA TargetMove ==
    ASSUME VisitInv, TargetInv, MoveToDisk
    PROVE  TargetInv'
<1>1. /\ screen = "disk" /\ setup' = setup /\ screen' = screen /\ Stays /\ screen \in ToSet(List)
  BY ScreenInList, OtherMoves DEF MoveToDisk, Screens
<1>2. ~Past("parts")' /\ ~Past("fdisk_slice")' /\ ~Past("parts_slice")'
  BY <1>1, DiskRanks, PastStays DEF DiskScreens
<1>3. PICK d \in Disks : SelectDisk(d)
  BY DEF MoveToDisk
<1>4. target' \in TargetRecords /\ kept' \in [Disks -> GoodLayouts \cup {Nothing}]
  BY <1>3, Backups, NewRecord DEF SelectDisk
<1>. QED
  BY <1>1, <1>2, <1>4, TargetNew

\* Editing a partition or a slice.
LEMMA TargetEdit ==
    ASSUME VisitInv, TargetInv, EditLayout
    PROVE  TargetInv'
<1>1. /\ screen \in {"parts", "parts_slice"} /\ shown /\ Stays /\ screen' = screen
      /\ screen \in ToSet(List) /\ ScreensNext
      /\ kept' \in [Disks -> GoodLayouts \cup {Nothing}]
  BY ScreenInList, OtherMoves DEF EditLayout, Screens, ScreensNext, TargetInv
<1>2. target \in TargetRecords /\ ~target.layout.whole
  BY <1>1, DiskRanks DEF TargetInv, DiskScreens
<1>3. PICK e \in Edits :
         target' = [target EXCEPT
            !.layout = [@ EXCEPT !.part = e[1], !.inPool = e[2], !.made = "user"],
            !.checked = FALSE]
  BY DEF EditLayout, Relayout
<1>4. /\ e[1] \in {"none", "bare", "sliced"} /\ e[2] \in BOOLEAN
      /\ screen = "parts_slice" \/ ~setup.x86 => e[1] = "sliced" /\ ~e[2]
  <2>1. CASE screen = "parts_slice" \/ ~setup.x86
    <3>1. e = <<"sliced", FALSE>>
      BY <2>1 DEF Edits, SliceEdits
    <3>. QED
      BY <3>1
  <2>2. CASE ~(screen = "parts_slice" \/ ~setup.x86)
    <3>1. e \in {<<"none", FALSE>>, <<"bare", FALSE>>, <<"bare", TRUE>>}
      BY <2>2 DEF Edits, PartEdits
    <3>2. e[1] \in {"none", "bare"} /\ e[2] \in BOOLEAN
      <4>1. CASE e = <<"none", FALSE>>
        BY <4>1
      <4>2. CASE e = <<"bare", FALSE>>
        BY <4>2
      <4>3. CASE e = <<"bare", TRUE>>
        BY <4>3
      <4>. QED
        BY <3>1, <4>1, <4>2, <4>3
    <3>. QED
      BY <2>2, <3>2
  <2>. QED
    BY <2>1, <2>2
<1>. DEFINE l == [target.layout EXCEPT !.part = e[1], !.inPool = e[2], !.made = "user"]
            t == [target EXCEPT !.layout = l, !.checked = FALSE]
<1>5. target' = t
  BY <1>2, <1>3 DEF TargetRecords
<1>6. l \in GoodLayouts /\ ~l.whole /\ l.part = e[1] /\ l.inPool = e[2]
  BY <1>2, <1>4, TargetLayout DEF GoodLayouts, LayoutRecords
<1>. HIDE DEF l
<1>7. t \in TargetRecords /\ t.layout = l
  BY <1>2, <1>6, Changed
<1>. HIDE DEF t
<1>8. /\ ~Past("parts_slice")' /\ (Past("parts")' => setup.x86)
      /\ Past("fdisk_slice")' => screen = "parts_slice"
  BY <1>1, DiskRanks, PastStays DEF DiskScreens
<1>. QED
  BY <1>1, <1>4, <1>5, <1>6, <1>7, <1>8, TargetSet

\* F7: what was discovered, or the end of the session.
LEMMA TargetReset ==
    ASSUME VisitInv, TargetInv, ResetLayout
    PROVE  TargetInv'
<1>1. /\ screen \in {"parts", "parts_slice"} /\ shown
      /\ screen \in ToSet(List) /\ ScreensNext
      /\ kept' \in [Disks -> GoodLayouts \cup {Nothing}]
  BY ScreenInList DEF ResetLayout, Screens, ScreensNext, TargetInv
<1>2. target \in TargetRecords /\ target.disk \in Disks
  BY <1>1, DiskRanks, TargetLayout DEF TargetInv, DiskScreens
<1>3. CASE screen' = "failed" /\ shown' = FALSE /\ target' = target
  <2>1. Ends /\ kept' = kept
    BY <1>3 DEF ResetLayout, Ends
  <2>. QED
    BY <1>1, <1>3, <2>1, TargetKeys
<1>4. CASE /\ screen = "parts" \/ setup.disks[target.disk] = "sliced"
           /\ target' = [target EXCEPT !.layout = [Found(target.disk) EXCEPT !.inPool = FALSE],
                                       !.checked = FALSE]
           /\ screen' = screen /\ shown' = shown
  <2>. DEFINE f == Found(target.disk)
              l == [f EXCEPT !.inPool = FALSE]
              t == [target EXCEPT !.layout = l, !.checked = FALSE]
  <2>1. /\ f \in GoodLayouts /\ ~f.whole /\ ~f.inPool
        /\ screen = "parts_slice" => f.part = "sliced"
    BY <1>2, <1>4, FoundGood
  <2>. HIDE DEF f
  <2>2. l \in GoodLayouts /\ ~l.whole /\ ~l.inPool /\ l.part = f.part
    BY <2>1 DEF GoodLayouts, LayoutRecords
  <2>3. target' = t
    BY <1>4 DEF f
  <2>. HIDE DEF l
  <2>4. t \in TargetRecords /\ t.layout = l
    BY <1>2, <2>2, Changed
  <2>. HIDE DEF t
  <2>5. Stays
    BY <1>4 DEF ResetLayout, Stays
  <2>6. /\ ~Past("parts_slice")' /\ (Past("parts")' => setup.x86)
        /\ Past("fdisk_slice")' => screen = "parts_slice"
    BY <1>1, <2>5, DiskRanks, PastStays DEF DiskScreens
  <2>. QED
    BY <1>1, <1>4, <2>1, <2>2, <2>3, <2>4, <2>6, TargetSet
<1>. QED
  BY <1>3, <1>4 DEF ResetLayout, Relayout

\* F2 where the whole disk or partition is chosen.
LEMMA TargetContinueSegment ==
    ASSUME VisitInv, TargetInv, Continue, screen \in {"fdisk", "fdisk_slice"},
           NEW c, DiskContinue(c)
    PROVE  TargetInv'
<1>1. /\ ScreensNext /\ screen \in ToSet(List) /\ shown /\ shown' = FALSE /\ setup' = setup
      /\ kept \in [Disks -> GoodLayouts \cup {Nothing}]
      /\ \A s : Past(s)' => Past(s) \/ s = screen
  BY ScreenInList, PastMoves
  DEF Continue, Screens, ScreensNext, OnKeys, GoTo, TargetInv
<1>2. target \in TargetRecords /\ target.disk \in Disks
  BY <1>1, DiskRanks, TargetLayout DEF TargetInv, DiskScreens
<1>3. ~Past("parts")' \/ setup.x86
  BY <1>1, DiskRanks DEF DiskScreens
<1>4. ~Past("parts_slice")'
  BY <1>1, DiskRanks DEF DiskScreens
<1>5. CASE screen = "fdisk" /\ c = "whole"
  <2>. DEFINE w == [Layout("sliced", "whole") EXCEPT !.whole = TRUE]
  <2>1. w \in GoodLayouts
    BY DEF Layout, GoodLayouts, LayoutRecords
  <2>. HIDE DEF w
  <2>2. target' \in TargetRecords /\ kept' = BackedUp
    BY <1>2, <1>5, <2>1, NewRecord DEF DiskContinue, UseSegment, SelectWholeDisk, w
  <2>3. ~Past("parts")' /\ ~Past("fdisk_slice")'
    BY <1>1, <1>5, DiskRanks DEF DiskScreens
  <2>. QED
    BY <1>1, <1>4, <2>2, <2>3, Backups, TargetNew
<1>6. CASE screen = "fdisk" /\ c # "whole"
  <2>. DEFINE l == [target.layout EXCEPT !.whole = FALSE]
              t == [target EXCEPT !.layout = l, !.checked = FALSE]
  <2>1. target' = t /\ kept' = kept
    BY <1>6 DEF DiskContinue, UseSegment, Relayout
  <2>2. l \in GoodLayouts
    BY <1>2, TargetLayout, LayoutEdits
  <2>. HIDE DEF l
  <2>3. t \in TargetRecords
    BY <1>2, <2>2, Changed
  <2>. HIDE DEF t
  <2>4. ~Past("parts")' /\ ~Past("fdisk_slice")'
    BY <1>1, <1>6, DiskRanks DEF DiskScreens
  <2>. QED
    BY <1>1, <1>4, <2>1, <2>3, <2>4, TargetNew
<1>7. CASE screen = "fdisk_slice"
  <2>. DEFINE b == c = "whole"
              l == [target.layout EXCEPT !.inPool = b]
              t == [target EXCEPT !.layout = l, !.checked = FALSE]
  <2>1. target' = t /\ kept' = kept
    BY <1>7 DEF DiskContinue, UseSegment, Relayout
  <2>2. ~target.layout.whole /\ target.layout.part = "sliced" /\ setup.x86 /\ b \in BOOLEAN
    BY <1>1, <1>7, DiskRanks DEF TargetInv, DiskScreens
  <2>. HIDE DEF b
  <2>3. l \in GoodLayouts /\ l.part = "sliced"
    BY <1>2, <2>2, TargetLayout DEF GoodLayouts, LayoutRecords
  <2>. HIDE DEF l
  <2>4. t \in TargetRecords /\ t.layout = l
    BY <1>2, <2>3, Changed
  <2>. HIDE DEF t
  <2>. QED
    BY <1>1, <1>4, <2>1, <2>2, <2>3, <2>4, TargetSet
<1>. QED
  BY <1>5, <1>6, <1>7

\* F2 on an editor: the last one validates.
LEMMA TargetContinueParts ==
    ASSUME VisitInv, TargetInv, Continue, screen \in {"parts", "parts_slice"},
           NEW c, DiskContinue(c)
    PROVE  TargetInv'
<1>1. /\ ScreensNext /\ screen \in ToSet(List) /\ shown /\ shown' = FALSE /\ setup' = setup
      /\ kept' \in [Disks -> GoodLayouts \cup {Nothing}]
      /\ \A s : Past(s)' => Past(s) \/ s = screen
  BY ScreenInList, PastMoves
  DEF Continue, Screens, ScreensNext, OnKeys, GoTo, TargetInv, DiskContinue, ValidateParts
<1>2. /\ target \in TargetRecords /\ ~target.layout.whole
      /\ screen = "parts_slice" => target.layout.part = "sliced" /\ ~target.layout.inPool
  BY <1>1, DiskRanks DEF TargetInv, DiskScreens
<1>3. CASE screen = "parts" /\ setup.x86
  <2>1. target' = target
    BY <1>3 DEF DiskContinue, ValidateParts
  <2>2. ~Past("parts_slice")' /\ ~Past("fdisk_slice")'
    BY <1>1, <1>3, DiskRanks DEF DiskScreens
  <2>. QED
    BY <1>1, <1>2, <1>3, <2>1, <2>2, TargetSet
<1>4. CASE ~(screen = "parts" /\ setup.x86)
  <2>. DEFINE t == [target EXCEPT !.layout = target.layout, !.checked = TRUE]
  <2>1. target' = t
    BY <1>4 DEF DiskContinue, ValidateParts, Checked
  <2>2. /\ target.layout \in GoodLayouts /\ target.layout.part = "sliced"
        /\ ~target.layout.inPool
    BY <1>2, <1>4, TargetLayout
  <2>3. t \in TargetRecords /\ t.layout = target.layout /\ t.checked = TRUE
    BY <1>2, <2>2, Changed
  <2>. HIDE DEF t
  <2>. QED
    BY <1>1, <1>2, <2>1, <2>2, <2>3, TargetSet
<1>. QED
  BY <1>3, <1>4

\* F2 on any screen.
LEMMA TargetContinue ==
    ASSUME VisitInv, TargetInv, Continue
    PROVE  TargetInv'
<1>1. PICK c \in Entries : DiskContinue(c)
  BY DEF Continue
<1>2. CASE screen \in {"fdisk", "fdisk_slice"}
  BY <1>1, <1>2, TargetContinueSegment
<1>3. CASE screen \in {"parts", "parts_slice"}
  BY <1>1, <1>3, TargetContinueParts
<1>4. CASE screen \notin {"fdisk", "fdisk_slice", "parts", "parts_slice"}
  <2>1. /\ target' = target /\ kept' = kept /\ shown' = FALSE /\ ScreensNext
        /\ setup' = setup /\ shown
    BY <1>1, <1>4, PastMoves
    DEF DiskContinue, KeepDisks, diskVars, Continue, GoTo, ScreensNext, OnKeys
  <2>2. \A s : Past(s)' => Past(s) \/ s = screen
    BY <2>1, PastMoves
  <2>3. CASE screen # "disk"
    <3>1. \A s \in DiskScreens \ {"fdisk"} : Past(s)' => Past(s)
      BY <1>4, <2>2, <2>3 DEF DiskScreens
    <3>. QED
      BY <2>1, <3>1, TargetKept
  <2>4. CASE screen = "disk"
    <3>1. target \in TargetRecords /\ kept \in [Disks -> GoodLayouts \cup {Nothing}]
      BY <2>1, <2>4 DEF Continue, OnKeys, TargetInv
    <3>2. ~Past("parts")' /\ ~Past("fdisk_slice")' /\ ~Past("parts_slice")'
      BY <2>2, <2>4, DiskRanks, ScreenInList DEF DiskScreens, Screens
    <3>. QED
      BY <2>1, <3>1, <3>2, TargetNew
  <2>. QED
    BY <2>3, <2>4
<1>. QED
  BY <1>2, <1>3, <1>4

\* Every step keeps the target.
LEMMA TargetStep ==
    ASSUME VisitInv, TargetInv, [ScreensNext]_screensVars
    PROVE  TargetInv'
<1>1. CASE ShowScreen
  BY <1>1, TargetShow
<1>2. CASE MoveToDisk
  BY <1>2, TargetMove
<1>3. CASE EditLayout
  BY <1>3, TargetEdit
<1>4. CASE ResetLayout
  BY <1>4, TargetReset
<1>5. CASE Continue
  BY <1>5, TargetContinue
<1>6. CASE \/ EditDate \/ RefuseAnswer \/ Back \/ ShowHelp
           \/ HelpIndex \/ HelpTopic \/ LeaveHelp \/ Quit \/ DateRaises
  <2>1. /\ target' = target /\ kept' = kept /\ ScreensNext
    BY <1>6
    DEF EditDate, RefuseAnswer, Back, ShowHelp, HelpIndex, HelpTopic, LeaveHelp, Quit, DateRaises,
       KeepDisks, diskVars, ScreensNext
  <2>2. \/ Stays /\ shown' = shown
        \/ Stays /\ shown' = FALSE
        \/ Returns \/ Asks \/ Ends
    BY <1>6, RefuseMoves, BackMoves, HelpMoves, OtherMoves
  <2>3. shown' = FALSE \/ (Stays /\ shown' = shown)
    BY <2>2 DEF Returns, Asks, Ends
  <2>. QED
    BY <2>1, <2>2, <2>3, TargetKeys
<1>7. CASE UNCHANGED screensVars
  <2>1. Stays /\ target' = target /\ kept' = kept /\ screen' = screen /\ shown' = shown
        /\ setup' = setup
    BY <1>7 DEF screensVars, Stays
  <2>2. \A s : Past(s)' <=> Past(s)
    BY <2>1, PastStays
  <2>. QED
    BY <2>1, <2>2, TargetKept
<1>. QED
  BY <1>1, <1>2, <1>3, <1>4, <1>5, <1>6, <1>7 DEF ScreensNext

-----------------------------------------------------------------------------
(* The session *)

\* A session begins in the invariants.
LEMMA SessionInit ==
    ASSUME ScreensInit
    PROVE  VisitInv /\ ProfInv /\ ZoneInv /\ TargetInv
<1>1. /\ screen = "welcome" /\ shown = FALSE /\ visited = <<>> /\ setup \in Setups
      /\ "welcome" \in ToSet(List)
  BY ListSorted DEF ScreensInit
<1>2. \A s : ~Past(s)
  <2>1. Place = "welcome" /\ Rank("welcome") = 1
    BY <1>1, RankValues DEF Place
  <2>2. \A s \in ToSet(List) : Rank(s) \in Nat /\ Rank(s) >= 1
    BY NotInTheList
  <2>. QED
    BY <2>1, <2>2 DEF Past
<1>3. VisitInv
  <2>1. visited \in Seq(ToSet(List)) /\ Len(visited) = 0 /\ \A i \in 1 .. Len(visited) : FALSE
    BY <1>1
  <2>2. shown \in BOOLEAN /\ (shown => screen \notin Ended)
    BY <1>1
  <2>. QED
    BY <1>1, <2>1, <2>2 DEF VisitInv
<1>4. ProfInv
  BY <1>1, <1>2, NothingAssumption DEF ScreensInit, ProfInv
<1>5. ZoneInv
  <2>1. zones = [s \in TzScreens |-> [list |-> {}, parent |-> Nothing, last |-> Nothing]]
    BY DEF ScreensInit
  <2>. QED
    BY <1>1, <1>2, <2>1 DEF ZoneInv
<1>6. TargetInv
  BY <1>1, <1>2 DEF ScreensInit, TargetInv, Disks
<1>. QED
  BY <1>3, <1>4, <1>5, <1>6

\* The way back of the invariant is the property's.
LEMMA InOrder ==
    ASSUME VisitInv
    PROVE  VisitedInOrder
<1>1. \A i \in 1 .. Len(visited) : visited[i] \in ToSet(List)
  BY VisitedRanks
<1>2. ASSUME NEW i \in 1 .. Len(visited), NEW j \in 1 .. Len(visited), i < j
      PROVE  Position(visited[i]) < Position(visited[j])
  BY <1>1, <1>2, PositionByRank DEF VisitInv
<1>3. ASSUME screen \in ToSet(List) \ {"welcome"}
      PROVE  visited # <<>> /\ Position(Last(visited)) < Position(screen)
  <2>1. visited # <<>> /\ visited \in Seq(ToSet(List))
    BY <1>3 DEF VisitInv
  <2>2. /\ Last(visited) = visited[Len(visited)] /\ Len(visited) \in 1 .. Len(visited)
        /\ Last(visited) \in ToSet(List)
    BY <2>1, FrontOf
  <2>3. Rank(Last(visited)) < Rank(screen)
    BY <1>3, <2>2 DEF VisitInv
  <2>. QED
    BY <1>3, <2>1, <2>2, <2>3, PositionByRank
<1>4. screen = "help" => visited # <<>>
  BY DEF VisitInv
<1>. QED
  BY <1>1, <1>2, <1>3, <1>4 DEF VisitedInOrder

(* The last screen is beyond those that are asked about.                   *)
LEMMA PastAtTheEnd ==
    ASSUME NEW s \in ToSet(List), screen = "done" \/ (screen = "summary" /\ s # "summary")
    PROVE  Past(s)
<1>1. s \in Screens /\ Place = screen /\ Rank("done") = 15 /\ Rank("summary") = 14
  BY ListSorted, RankValues DEF Place
<1>2. Rank(s) <= 14 /\ (s # "summary" => Rank(s) <= 13) /\ Rank(s) \in Nat
  BY <1>1, RankValues DEF Screens
<1>. QED
  BY <1>1, <1>2 DEF Past

\* The profile of a finished session.
LEMMA Accepted ==
    ASSUME VisitInv, ProfInv
    PROVE  ProfileAccepted /\ AcceptedDateExists
<1>1. ProfileAccepted
  BY PastAtTheEnd DEF ProfileAccepted, Reached, ProfInv
<1>2. AcceptedDateExists
  BY DEF AcceptedDateExists, DateValid, DateExists, ProfInv, GoodDate
<1>. QED
  BY <1>1, <1>2

\* The zone of a finished session.
LEMMA Known ==
    ASSUME VisitInv, ZoneInv
    PROVE  ZoneKnown
<1>. SUFFICES ASSUME Reached("timezone")
              PROVE  \/ prof.region = "utc" /\ prof.zone = "utc"
                     \/ /\ prof.region \in RegionsOf(prof.country)
                        /\ \E r \in RegionsOf(prof.country) :
                              prof.zone \in ZoneTable[r][prof.country]
  BY DEF ZoneKnown
<1>1. {"regions", "locations", "timezone"} \subseteq ToSet(List)
  BY InTheList DEF Reached, TzScreens
<1>2. Past("timezone") /\ Past("locations") /\ Past("regions")
  BY <1>1, PastAtTheEnd DEF Reached
<1>3. CASE prof.region = "utc"
  BY <1>2, <1>3 DEF ZoneInv, RegionKnown
<1>4. CASE prof.region # "utc"
  BY <1>2, <1>4 DEF ZoneInv, RegionKnown, CountryKnown, ZoneChosen, RegionsOf
<1>. QED
  BY <1>3, <1>4

\* The layout of a finished session.
LEMMA Installable ==
    ASSUME VisitInv, TargetInv
    PROVE  LayoutValidated
<1>. SUFFICES ASSUME screen \in TzScreens \union {"network", "date", "summary", "done"}, setup.text
              PROVE  Validated
  BY DEF LayoutValidated, Validated
<1>1. Place = screen /\ Rank(screen) >= 7
  BY RankValues DEF Place, TzScreens
<1>2. CASE setup.x86
  <2>1. Past("parts_slice")
    BY <1>1, <1>2, InTheList, RankValues, RankType DEF Past
  <2>. QED
    BY <2>1 DEF TargetInv
<1>3. CASE ~setup.x86
  <2>1. Past("parts")
    BY <1>1, <1>3, InTheList, RankValues, RankType DEF Past
  <2>. QED
    BY <1>3, <2>1 DEF TargetInv
<1>. QED
  BY <1>2, <1>3

\* Whatever keys are pressed, the way back is in order, what a finished session
\* stores was accepted, its zone is one of its country, a date that does not
\* exist is accepted only while the month is marked, and the layout it installs
\* was validated; on any machine and for any table of time zones.
THEOREM SessionSoundHolds ==
    ScreensSpec => []SessionSound
<1>. DEFINE Inv == VisitInv /\ ProfInv /\ ZoneInv /\ TargetInv
<1>1. ScreensInit => Inv
  BY SessionInit
<1>2. Inv /\ [ScreensNext]_screensVars => Inv'
  BY VisitStep, ProfStep, ZoneStep, TargetStep
<1>3. Inv => SessionSound
  BY InOrder, Accepted, Known, Installable DEF SessionSound
<1>. QED
  BY <1>1, <1>2, <1>3, PTL DEF ScreensSpec
================================================================================
