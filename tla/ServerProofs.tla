------------------------------ MODULE ServerProofs ------------------------------
(***************************************************************************)
(* Proofs about the parts of the install server that are commands on files: *)
(* its manifests and profiles (ManifestStore), the daemon that advertises its *)
(* services (AimdnsDaemon) and its DHCP server's files (DhcpServer).  Each *)
(* part has an invariant of its own, stated where its proof begins.        *)
(***************************************************************************)
EXTENDS ManifestStore, AimdnsDaemon, DhcpServer, DataLemmas

-----------------------------------------------------------------------------
(***************************************************************************)
(* ManifestStore.  Whatever is published, set and deleted, and whichever   *)
(* answers come too late, one manifest is chosen for a client: two criteria *)
(* are exclusive when no client compares them at the same weight.  A command *)
(* that passes the test for collisions adds criteria exclusive with those of *)
(* the other manifests (CollisionTest); at most one request is under way, and *)
(* the table does not change between the test and its execution (StoreInv), *)
(* so the rows stay exclusive.                                             *)
(***************************************************************************)

(* No client fits both of them and gives them the same weight.             *)
Exclusive(a, b) ==
    \/ a = NoCriteria \/ b = NoCriteria
    \/ Weight(a) # Weight(b)
    \/ \A c \in ClientSet : ~(Fits(a, c) /\ Fits(b, c))

IsRow(r) == /\ r = [name |-> r.name, inst |-> r.inst, crit |-> r.crit]
            /\ r.crit \in CriteriaSet
ApartFrom(name, crit, d) == \A r \in d.m : r.name # name => Exclusive(crit, r.crit)

OtherRequests == {"delete", "delete_instance", "update_profile", "insert_profile",
                  "delete_profile", "delete_row"}
SafeRequest(req, d) ==
    \/ req.op = "insert" /\ IsRow(req.row) /\ ApartFrom(req.row.name, req.row.crit, d)
    \/ req.op = "update" /\ req.crit \in CriteriaSet /\ ApartFrom(req.name, req.crit, d)
    \/ req.op \in OtherRequests

(* The fields of a command the argument looks at.                          *)
IsCmd(c) == {"op", "step", "name", "file", "got"} \subseteq DOMAIN c

RowsApart(d) == /\ d = [m |-> d.m, p |-> d.p]
                /\ \A r \in d.m : IsRow(r)
                /\ \A r, s \in d.m : r.name # s.name => Exclusive(r.crit, s.crit)
StoreInv == /\ RowsApart(db)
            /\ IsCmd(cmd)
            /\ cmd.op = "idle" => cmd.step = "" /\ pend = <<>>
            /\ cmd.got => pend = <<>>
            /\ pend = <<>> \/ \E req : pend = <<req>> /\ SafeRequest(req, db)

----------------------------------------------------------------------------
(* Exclusion *)

(* The weight of criteria tells which of them are given.                   *)
LEMMA WeightShape ==
    ASSUME NEW a \in CriteriaSet, NEW b \in CriteriaSet
    PROVE  /\ Weight(a) \in Nat
           /\ Weight(a) = Weight(b) <=>
                /\ a.ipv4 = NoRange <=> b.ipv4 = NoRange
                /\ a.arch = {} <=> b.arch = {}
BY DEF Weight

LEMMA ExclusiveSymmetric ==
    ASSUME NEW a, NEW b, Exclusive(a, b)
    PROVE  Exclusive(b, a)
BY DEF Exclusive

(* Ranges that both hold an address overlap.                               *)
LEMMA CommonAddress ==
    ASSUME NEW a \in CriteriaSet, NEW b \in CriteriaSet, NEW v \in Addrs,
           RangeFits(a.ipv4, v), RangeFits(b.ipv4, v)
    PROVE  Overlap(a.ipv4, b.ipv4)
<1>1. ASSUME NEW x \in CriteriaSet
      PROVE  x.ipv4[1] \in 0 .. 9 /\ x.ipv4[2] \in 0 .. 9
  <2>1. x.ipv4 \in Ranges \cup {NoRange}
    BY DEF CriteriaSet
  <2>2. x.ipv4 \in (Addrs \cup {0}) \X (Addrs \cup {0})
    BY <2>1 DEF Ranges, NoRange, Unbounded
  <2>3. x.ipv4[1] \in Addrs \cup {0} /\ x.ipv4[2] \in Addrs \cup {0}
    BY <2>2
  <2>4. Addrs \cup {0} \subseteq 0 .. 9
    BY StoreAssumption
  <2> QED
    BY <2>3, <2>4
<1>2. v \in 1 .. 9
  BY StoreAssumption
<1> QED
  BY <1>1, <1>2 DEF Overlap, RangeFits, Unbounded

(* The test of find_colliding_manifests() without append: criteria it      *)
(* accepts are exclusive with those of every manifest it looked at.        *)
LEMMA CollisionTest ==
    ASSUME NEW crit \in CriteriaSet, NEW exclude, NEW r \in db.m,
           crit # NoCriteria, r.name \notin exclude, r.crit \in CriteriaSet,
           ~FindCollidingManifests(crit, FindCollidingCriteria(crit, exclude), {})
    PROVE  Exclusive(crit, r.crit)
<1> DEFINE found == FindCollidingCriteria(crit, exclude)
           v == Verdicts(crit, {}, r.crit, found[r])
<1> SUFFICES ASSUME r.crit # NoCriteria, Weight(crit) = Weight(r.crit),
                    NEW c \in ClientSet, Fits(crit, c), Fits(r.crit, c)
             PROVE  FALSE
  BY DEF Exclusive
<1>1. /\ crit.ipv4 = NoRange <=> r.crit.ipv4 = NoRange
      /\ crit.arch = {} <=> r.crit.arch = {}
  BY WeightShape
<1>2. /\ r \in DOMAIN found
      /\ found[r] = (IF crit.arch \cap r.crit.arch # {} THEN {"arch"} ELSE {})
                    \cup (IF /\ crit.ipv4 # NoRange /\ r.crit.ipv4 # NoRange
                             /\ Overlap(crit.ipv4, r.crit.ipv4)
                          THEN {"ipv4"} ELSE {})
  BY DEF FindCollidingCriteria
<1>3. crit.arch # {} => c.arch \in crit.arch \cap r.crit.arch
  BY <1>1 DEF Fits
<1>4. crit.ipv4 # NoRange => Overlap(crit.ipv4, r.crit.ipv4)
  BY CommonAddress DEF Fits, ClientSet
<1>5. crit.arch # {} \/ crit.ipv4 # NoRange
  BY DEF CriteriaSet, NoCriteria
<1>6. found[r] # {} /\ ("ipv4" \in found[r] <=> crit.ipv4 # NoRange)
  BY <1>1, <1>2, <1>3, <1>4, <1>5
<1>7. v = [i \in 1 .. 3 |->
              IF i = 1 THEN ArchVerdict(crit.arch, r.crit.arch, FALSE)
              ELSE BoundVerdict(crit.ipv4[i - 1], r.crit.ipv4[i - 1],
                                "ipv4" \in found[r], FALSE)]
  BY DEF Verdicts, Mine
<1>8. v[1] = "same"
  <2>1. v[1] = ArchVerdict(crit.arch, r.crit.arch, FALSE)
    <3> HIDE DEF v, found
    <3> QED
      BY <1>7
  <2>2. CASE crit.arch = {}
    BY <2>1, <2>2, <1>1 DEF ArchVerdict
  <2>3. CASE crit.arch # {}
    BY <2>1, <2>3, <1>1, <1>3 DEF ArchVerdict
  <2> QED
    BY <2>2, <2>3
<1>9. ASSUME NEW i \in {2, 3}
      PROVE  v[i] \in {"same", "error"}
  <2>1. v[i] = BoundVerdict(crit.ipv4[i - 1], r.crit.ipv4[i - 1],
                            "ipv4" \in found[r], FALSE)
    <3> HIDE DEF v, found
    <3>1. i \in 1 .. 3 /\ i # 1
      OBVIOUS
    <3> QED
      BY <1>7, <3>1
  <2>2. CASE crit.ipv4 # NoRange
    BY <2>1, <2>2, <1>6 DEF BoundVerdict
  <2>3. CASE crit.ipv4 = NoRange
    <3>1. crit.ipv4[i - 1] = Unbounded /\ r.crit.ipv4[i - 1] = Unbounded
      BY <2>3, <1>1 DEF NoRange
    <3> QED
      BY <2>1, <2>3, <3>1, <1>6 DEF BoundVerdict
  <2> QED
    BY <2>2, <2>3
<1>10. DOMAIN v = 1 .. 3
  BY <1>7
<1>11. Refused(v)
  <2> HIDE DEF v
  <2>1. CASE v[2] = "same" /\ v[3] = "same"
    BY <2>1, <1>8, <1>10 DEF Refused
  <2>2. CASE v[2] = "error"
    BY <2>2, <1>8, <1>10 DEF Refused
  <2>3. CASE v[2] = "same" /\ v[3] = "error"
    BY <2>3, <1>8, <1>10 DEF Refused
  <2> QED
    BY <2>1, <2>2, <2>3, <1>9
<1> QED
  BY <1>2, <1>6, <1>11 DEF FindCollidingManifests

(* Exclusive rows name one manifest for a client.                          *)
LEMMA ApartIsOne ==
    ASSUME RowsApart(db)
    PROVE  OneManifestEach
<1> SUFFICES ASSUME NEW c \in ClientSet
             PROVE  Cardinality(ManifestSent(c)) = 1
  BY DEF OneManifestEach
<1>1. CASE FindManifests(c) = {}
  BY <1>1, FS_Singleton DEF ManifestSent
<1>2. CASE FindManifests(c) # {}
  <2> DEFINE fit == {r \in db.m : r.crit # NoCriteria /\ Fits(r.crit, c)}
             best == {s \in fit : \A t \in fit : Weight(s.crit) >= Weight(t.crit)}
  <2>1. FindManifests(c) = {r.name : r \in best}
    BY DEF FindManifests
  <2>2. ASSUME NEW r \in best, NEW s \in best
        PROVE  r.name = s.name
    <3>1. r \in db.m /\ s \in db.m /\ r.crit \in CriteriaSet /\ s.crit \in CriteriaSet
      BY DEF RowsApart, IsRow
    <3>2. Weight(r.crit) >= Weight(s.crit) /\ Weight(s.crit) >= Weight(r.crit)
      OBVIOUS
    <3>3. Weight(r.crit) = Weight(s.crit)
      BY <3>1, <3>2, WeightShape
    <3>4. ~Exclusive(r.crit, s.crit)
      BY <3>3 DEF Exclusive
    <3> QED
      BY <3>1, <3>4 DEF RowsApart
  <2>3. PICK n : FindManifests(c) = {n}
    <3>1. PICK r \in best : TRUE
      BY <1>2, <2>1
    <3>2. FindManifests(c) = {r.name}
      BY <2>1, <2>2, <3>1
    <3> QED
      BY <3>2
  <2> QED
    BY <2>3, <1>2, FS_Singleton DEF ManifestSent
<1> QED
  BY <1>1, <1>2

----------------------------------------------------------------------------
(* Requests *)

(* What the database thread does with a request that passed its test.      *)
LEMMA ExecutedKeepsApart ==
    ASSUME NEW d, NEW req, RowsApart(d), SafeRequest(req, d)
    PROVE  RowsApart(Executed(d, req))
<1> DEFINE e == Executed(d, req)
<1>1. d = [m |-> d.m, p |-> d.p]
  BY DEF RowsApart
<1>2. CASE /\ req.op = "insert" /\ IsRow(req.row)
           /\ ApartFrom(req.row.name, req.row.crit, d)
  <2>1. e = [d EXCEPT !.m = @ \cup {req.row}]
    BY <1>2 DEF Executed
  <2>2. e = [m |-> e.m, p |-> e.p] /\ e.m = d.m \cup {req.row}
    BY <1>1, <2>1
  <2> HIDE DEF e
  <2>3. \A r \in e.m : IsRow(r)
    BY <2>2, <1>2 DEF RowsApart
  <2>4. ASSUME NEW r \in e.m, NEW s \in e.m, r.name # s.name
        PROVE  Exclusive(r.crit, s.crit)
    <3>1. CASE r \in d.m /\ s \in d.m
      BY <2>4, <3>1 DEF RowsApart
    <3>2. CASE r = req.row /\ s \in d.m
      BY <2>4, <3>2, <1>2 DEF ApartFrom
    <3>3. CASE r \in d.m /\ s = req.row
      BY <2>4, <3>3, <1>2, ExclusiveSymmetric DEF ApartFrom
    <3> QED
      BY <2>2, <2>4, <3>1, <3>2, <3>3
  <2>5. RowsApart(e)
    BY <2>2, <2>3, <2>4 DEF RowsApart
  <2> QED
    BY <2>5 DEF e
<1>3. CASE /\ req.op = "update" /\ req.crit \in CriteriaSet
           /\ ApartFrom(req.name, req.crit, d)
  <2> DEFINE New(r) == IF r.name = req.name THEN [r EXCEPT !.crit = req.crit] ELSE r
  <2>1. e = [d EXCEPT !.m = {New(r) : r \in @}]
    BY <1>3 DEF Executed
  <2>2. e = [m |-> e.m, p |-> e.p] /\ e.m = {New(r) : r \in d.m}
    BY <1>1, <2>1
  <2>3. ASSUME NEW r \in d.m
        PROVE  /\ IsRow(New(r)) /\ New(r).name = r.name
               /\ New(r).crit = IF r.name = req.name THEN req.crit ELSE r.crit
    <3>1. IsRow(r)
      BY DEF RowsApart
    <3>2. CASE r.name = req.name
      <4>1. New(r) = [name |-> r.name, inst |-> r.inst, crit |-> req.crit]
        BY <3>1, <3>2 DEF IsRow
      <4> QED
        BY <4>1, <3>2, <1>3 DEF IsRow
    <3> QED
      BY <3>1, <3>2
  <2>4. \A r \in e.m : IsRow(r)
    BY <2>2, <2>3
  <2>5. ASSUME NEW r \in d.m, NEW s \in d.m, r.name # s.name
        PROVE  Exclusive(New(r).crit, New(s).crit)
    <3>1. CASE r.name = req.name
      <4>1. New(r).crit = req.crit /\ New(s).crit = s.crit
        BY <2>3, <2>5, <3>1
      <4> QED
        BY <4>1, <2>5, <3>1, <1>3 DEF ApartFrom
    <3>2. CASE s.name = req.name
      <4>1. New(s).crit = req.crit /\ New(r).crit = r.crit
        BY <2>3, <2>5, <3>2
      <4> QED
        BY <4>1, <2>5, <3>2, <1>3, ExclusiveSymmetric DEF ApartFrom
    <3>3. CASE r.name # req.name /\ s.name # req.name
      BY <2>3, <2>5, <3>3 DEF RowsApart
    <3> QED
      BY <3>1, <3>2, <3>3
  <2> HIDE DEF e, New
  <2>6. ASSUME NEW r \in e.m, NEW s \in e.m, r.name # s.name
        PROVE  Exclusive(r.crit, s.crit)
    BY <2>2, <2>3, <2>5, <2>6
  <2>7. RowsApart(e)
    BY <2>2, <2>4, <2>6 DEF RowsApart
  <2> QED
    BY <2>7 DEF e
<1>4. CASE req.op = "delete_instance"
  <2> DEFINE New(r) == IF r.name = req.name /\ r.inst > req.inst
                       THEN [r EXCEPT !.inst = @ - 1] ELSE r
             kept == {s \in d.m : ~(s.name = req.name /\ s.inst = req.inst)}
  <2>1. e = [d EXCEPT !.m = {New(r) : r \in {s \in @ :
                                 ~(s.name = req.name /\ s.inst = req.inst)}}]
    BY <1>4 DEF Executed
  <2>2. e = [m |-> e.m, p |-> e.p] /\ e.m = {New(r) : r \in kept}
    BY <1>1, <2>1
  <2>3. ASSUME NEW r \in d.m
        PROVE  IsRow(New(r)) /\ New(r).name = r.name /\ New(r).crit = r.crit
    <3>1. IsRow(r)
      BY DEF RowsApart
    <3>2. CASE r.name = req.name /\ r.inst > req.inst
      <4>1. New(r) = [name |-> r.name, inst |-> r.inst - 1, crit |-> r.crit]
        BY <3>1, <3>2 DEF IsRow
      <4> QED
        BY <4>1, <3>1 DEF IsRow
    <3> QED
      BY <3>1, <3>2
  <2>4. kept \subseteq d.m
    OBVIOUS
  <2> HIDE DEF e, New, kept
  <2>5. \A r \in e.m : IsRow(r)
    BY <2>2, <2>3, <2>4
  <2>6. ASSUME NEW r \in e.m, NEW s \in e.m, r.name # s.name
        PROVE  Exclusive(r.crit, s.crit)
    <3>1. PICK q \in kept : r = New(q)
      BY <2>2
    <3>2. PICK t \in kept : s = New(t)
      BY <2>2
    <3> QED
      BY <2>3, <2>4, <2>6, <3>1, <3>2 DEF RowsApart
  <2>7. RowsApart(e)
    BY <2>2, <2>5, <2>6 DEF RowsApart
  <2> QED
    BY <2>7 DEF e
<1>5. CASE req.op \in OtherRequests \ {"delete_instance"}
  <2>1. e.m \subseteq d.m /\ e = [m |-> e.m, p |-> e.p]
    <3>1. CASE req.op = "delete"
      <4>1. e = [d EXCEPT !.m = {r \in @ : r.name # req.name}]
        BY <3>1 DEF Executed
      <4> QED
        BY <1>1, <4>1
    <3>2. CASE req.op # "delete"
      <4>1. \E q : e = [d EXCEPT !.p = q]
        BY <3>2, <1>5 DEF Executed, OtherRequests
      <4> QED
        BY <1>1, <4>1
    <3> QED
      BY <3>1, <3>2
  <2> HIDE DEF e
  <2>2. RowsApart(e)
    BY <2>1 DEF RowsApart
  <2> QED
    BY <2>2 DEF e
<1> QED
  BY <1>2, <1>3, <1>4, <1>5 DEF SafeRequest, OtherRequests

(* A request is put when none is under way.                                *)
LEMMA PutKeeps ==
    ASSUME StoreInv, pend = <<>>, NEW c, NEW step, NEW req, IsCmd(c), c.op # "idle",
           SafeRequest(req, db), Put(c, step, req), UNCHANGED db
    PROVE  StoreInv'
<1>1. IsCmd(cmd') /\ cmd'.op = c.op /\ cmd'.got = FALSE
  BY DEF Put, IsCmd
<1>2. pend' = <<req>>
  BY DEF Put
<1> QED
  BY <1>1, <1>2 DEF StoreInv, IsCmd

(* A command goes on without a request, or ends.                           *)
LEMMA QuietKeeps ==
    ASSUME StoreInv, UNCHANGED <<db, pend>>, IsCmd(cmd'), cmd'.op # "idle", ~cmd'.got
    PROVE  StoreInv'
BY DEF StoreInv

LEMMA ExitKeeps ==
    ASSUME StoreInv, Exit, UNCHANGED db
    PROVE  StoreInv'
BY DEF StoreInv, Exit, Idle, IsCmd

LEMMA IdleState ==
    ASSUME StoreInv, cmd = Idle
    PROVE  pend = <<>>
BY DEF StoreInv, Idle

----------------------------------------------------------------------------
(* The invariant *)

LEMMA StoreInvInitially == StoreInit => StoreInv
<1> SUFFICES ASSUME StoreInit
             PROVE  StoreInv
  OBVIOUS
<1>1. NoCriteria \in CriteriaSet
  BY DEF NoCriteria, CriteriaSet
<1>2. RowsApart(db)
  BY <1>1 DEF StoreInit, RowsApart, IsRow
<1> QED
  BY <1>2 DEF StoreInit, StoreInv, IsCmd, Idle

(* The thread executes the one request, or the command stops waiting.      *)
LEMMA DbRunKeeps == StoreInv /\ DbRun => StoreInv'
<1> SUFFICES ASSUME StoreInv, DbRun
             PROVE  StoreInv'
  OBVIOUS
<1>1. PICK req : pend = <<req>> /\ SafeRequest(req, db)
  BY DEF StoreInv, DbRun
<1>2. pend' = <<>> /\ db' = Executed(db, req)
  BY <1>1 DEF DbRun
<1>3. RowsApart(db')
  BY <1>1, <1>2, ExecutedKeepsApart DEF StoreInv
<1>4. cmd.op # "idle"
  BY <1>1 DEF StoreInv
<1>5. IsCmd(cmd') /\ cmd'.op = cmd.op
  BY DEF DbRun, StoreInv, IsCmd
<1> QED
  BY <1>2, <1>3, <1>4, <1>5 DEF StoreInv

(* ... or the request fails.                                               *)
LEMMA DbFailsKeeps == StoreInv /\ DbFails => StoreInv'
<1> SUFFICES ASSUME StoreInv, DbFails
             PROVE  StoreInv'
  OBVIOUS
<1>1. PICK req : pend = <<req>> /\ SafeRequest(req, db)
  BY DEF StoreInv, DbFails
<1>2. pend' = <<>> /\ db' = db
  BY <1>1 DEF DbFails
<1>3. cmd' = cmd \/ cmd' = [cmd EXCEPT !.step = After(@)]
  BY DEF DbFails
<1>4. cmd.op # "idle"
  BY <1>1 DEF StoreInv
<1>5. IsCmd(cmd') /\ cmd'.op = cmd.op
  BY <1>3 DEF StoreInv, IsCmd
<1> QED
  BY <1>2, <1>4, <1>5 DEF StoreInv

LEMMA WaitTimesOutKeeps == StoreInv /\ WaitTimesOut => StoreInv'
<1> SUFFICES ASSUME StoreInv, WaitTimesOut
             PROVE  StoreInv'
  OBVIOUS
<1>1. cmd.op # "idle"
  BY DEF StoreInv, WaitTimesOut, Waiting, Waits
<1>2. IsCmd(cmd') /\ cmd'.op = cmd.op /\ cmd'.got = cmd.got
  BY DEF WaitTimesOut, StoreInv, IsCmd
<1> QED
  BY <1>1, <1>2 DEF StoreInv, WaitTimesOut

(* create-manifest: the criteria passed the test against every row.        *)
LEMMA StartCreateKeeps ==
    ASSUME StoreInv, NEW name, NEW crit \in CriteriaSet, NEW d \in BOOLEAN,
           StartCreate(name, crit, d)
    PROVE  StoreInv'
<1> DEFINE req == InsertSQL(name, crit)
<1>1. req.op = "insert" /\ req.row.name = name /\ req.row.crit = crit /\ IsRow(req.row)
  BY DEF InsertSQL, IsRow
<1>2. ApartFrom(name, crit, db)
  <2>1. CASE crit = NoCriteria
    BY <2>1 DEF ApartFrom, Exclusive
  <2>2. CASE crit # NoCriteria
    <3>1. ~FindCollidingManifests(crit, FindCollidingCriteria(crit, {}), {})
      BY <2>2 DEF StartCreate
    <3>2. \A r \in db.m : r.crit \in CriteriaSet
      BY DEF StoreInv, RowsApart, IsRow
    <3> QED
      BY <2>2, <3>1, <3>2, CollisionTest DEF ApartFrom
  <2> QED
    BY <2>1, <2>2
<1>3. SafeRequest(req, db)
  BY <1>1, <1>2 DEF SafeRequest
<1>4. /\ Put([Idle EXCEPT !.op = "create", !.name = name, !.flag = d], "insert", req)
      /\ cmd = Idle /\ UNCHANGED db
  BY DEF StartCreate
<1>5. IsCmd([Idle EXCEPT !.op = "create", !.name = name, !.flag = d])
  BY DEF IsCmd, Idle
<1>6. [Idle EXCEPT !.op = "create", !.name = name, !.flag = d].op # "idle"
  BY DEF Idle
<1> HIDE DEF req
<1> QED
  BY <1>3, <1>4, <1>5, <1>6, IdleState, PutKeeps

(* set-criteria without -a: the new criteria passed the test against the   *)
(* rows of the other manifests.                                            *)
LEMMA StartSetCriteriaKeeps ==
    ASSUME StoreInv, NEW name, NEW crit \in CriteriaSet,
           StartSetCriteria(name, crit, FALSE)
    PROVE  StoreInv'
<1> DEFINE own == {r \in db.m : r.name = name /\ r.inst = 0}
           req == [op |-> "update", name |-> name,
                   crit |-> NewCriteria((CHOOSE o \in own : TRUE).crit, crit, FALSE)]
<1>1. crit # NoCriteria
  BY DEF StartSetCriteria
<1>2. ~FindCollidingManifests(crit, FindCollidingCriteria(crit, {name}), {})
  BY DEF StartSetCriteria
<1>3. ApartFrom(name, crit, db)
  <2>1. \A r \in db.m : r.crit \in CriteriaSet
    BY DEF StoreInv, RowsApart, IsRow
  <2>2. \A r \in db.m : r.name # name => r.name \notin {name}
    OBVIOUS
  <2> QED
    BY <1>1, <1>2, <2>1, <2>2, CollisionTest DEF ApartFrom
<1>4. req.crit = crit
  BY DEF NewCriteria, CriteriaSet
<1>5. SafeRequest(req, db)
  BY <1>3, <1>4 DEF SafeRequest
<1>6. /\ Put([Idle EXCEPT !.op = "set", !.name = name], "update", req)
      /\ cmd = Idle /\ UNCHANGED db
  BY DEF StartSetCriteria
<1>7. IsCmd([Idle EXCEPT !.op = "set", !.name = name])
  BY DEF IsCmd, Idle
<1>8. [Idle EXCEPT !.op = "set", !.name = name].op # "idle"
  BY DEF Idle
<1> HIDE DEF req
<1> QED
  BY <1>5, <1>6, <1>7, <1>8, IdleState, PutKeeps

(* Every command begins with a request that cannot add criteria, or none.  *)
LEMMA OtherStartKeeps ==
    ASSUME StoreInv, cmd = Idle, NEW c, IsCmd(c), c.op # "idle", NEW step, NEW req,
           req.op \in OtherRequests, Put(c, step, req), UNCHANGED db
    PROVE  StoreInv'
BY IdleState, PutKeeps DEF SafeRequest

LEMMA StoreInvInductive ==
    StoreInv /\ [ManifestNext \/ ProfileNext]_storeVars /\ Appends = FALSE => StoreInv'
<1> SUFFICES ASSUME StoreInv, [ManifestNext \/ ProfileNext]_storeVars, Appends = FALSE
             PROVE  StoreInv'
  OBVIOUS
<1>1. CASE DbRun \/ DbFails
  BY <1>1, DbRunKeeps, DbFailsKeeps
<1>2. CASE WaitTimesOut
  BY <1>2, WaitTimesOutKeeps
<1>3. CASE \E n \in MNames, crit \in CriteriaSet, d \in BOOLEAN : StartCreate(n, crit, d)
  BY <1>3, StartCreateKeeps
<1>4. CASE \/ FinishCreate \/ FinishDelete \/ FinishSetCriteria
           \/ EndProfiles \/ FinishDeleteProfile
  BY <1>4, ExitKeeps
     DEF FinishCreate, FinishDelete, FinishSetCriteria, EndProfiles, FinishDeleteProfile
<1>5. ASSUME NEW n \in ManifestNames, StartDelete(n)
      PROVE  StoreInv'
  <2> DEFINE c == [Idle EXCEPT !.op = "delete", !.name = n]
             req == [op |-> "delete", name |-> n]
  <2>1. IsCmd(c) /\ c.op # "idle" /\ req.op \in OtherRequests
    BY DEF IsCmd, Idle, OtherRequests
  <2>2. Put(c, "delete", req) /\ cmd = Idle /\ UNCHANGED db
    BY <1>5 DEF StartDelete
  <2> HIDE DEF c, req
  <2> QED
    BY <2>1, <2>2, OtherStartKeeps
<1>6. ASSUME NEW n \in ManifestNames, NEW i \in 0 .. 2, StartDeleteInstance(n, i)
      PROVE  StoreInv'
  <2> DEFINE c == [Idle EXCEPT !.op = "delete_instance", !.name = n]
             req == [op |-> "delete_instance", name |-> n, inst |-> i]
  <2>1. IsCmd(c) /\ c.op # "idle" /\ req.op \in OtherRequests
    BY DEF IsCmd, Idle, OtherRequests
  <2>2. Put(c, "delete", req) /\ cmd = Idle /\ UNCHANGED db
    BY <1>6 DEF StartDeleteInstance
  <2> HIDE DEF c, req
  <2> QED
    BY <2>1, <2>2, OtherStartKeeps
<1>7. ASSUME NEW n \in ManifestNames, SetDefaultManifest(n)
      PROVE  StoreInv'
  BY <1>7 DEF SetDefaultManifest, StoreInv
<1>8. CASE \E n \in ManifestNames, crit \in CriteriaSet,
              append \in (IF Appends THEN BOOLEAN ELSE {FALSE}) :
                StartSetCriteria(n, crit, append)
  BY <1>8, StartSetCriteriaKeeps
<1>9. ASSUME NEW p \in PNames, NEW crit \in PCrits, StartSetProfileCriteria(p, crit)
      PROVE  StoreInv'
  <2> DEFINE c == [Idle EXCEPT !.op = "set", !.name = p]
             req == [op |-> "update_profile", name |-> p, crit |-> crit]
  <2>1. IsCmd(c) /\ c.op # "idle" /\ req.op \in OtherRequests
    BY DEF IsCmd, Idle, OtherRequests
  <2>2. Put(c, "update", req) /\ cmd = Idle /\ UNCHANGED db
    BY <1>9 DEF StartSetProfileCriteria
  <2> HIDE DEF c, req
  <2> QED
    BY <2>1, <2>2, OtherStartKeeps
<1>10. ASSUME NEW names, NEW crit, StartCreateProfiles(names, crit)
       PROVE  StoreInv'
  <2>1. IsCmd(cmd') /\ cmd'.op # "idle" /\ ~cmd'.got
    BY <1>10 DEF StartCreateProfiles, IsCmd, Idle
  <2> QED
    BY <2>1, <1>10, QuietKeeps DEF StartCreateProfiles
<1>11. CASE NextProfile
  <2>1. cmd.op # "idle" /\ IsCmd(cmd) /\ pend = <<>>
    BY <1>11 DEF NextProfile, StoreInv
  <2>2. CASE IsNameInTable(Head(cmd.todo))
    <3>1. IsCmd(cmd') /\ cmd'.op # "idle" /\ UNCHANGED <<db, pend>>
      BY <1>11, <2>1, <2>2 DEF NextProfile, IsCmd
    <3> QED
      BY <2>1, <3>1 DEF StoreInv
  <2>3. CASE ~IsNameInTable(Head(cmd.todo))
    <3>1. PICK f : Put([cmd EXCEPT !.name = Head(cmd.todo), !.file = f,
                                   !.todo = Tail(@)], "pdelete",
                       [op |-> "delete_profile", name |-> Head(cmd.todo),
                        crit |-> cmd.crit])
      BY <1>11, <2>3 DEF NextProfile
    <3> DEFINE c == [cmd EXCEPT !.name = Head(cmd.todo), !.file = f, !.todo = Tail(@)]
               req == [op |-> "delete_profile", name |-> Head(cmd.todo), crit |-> cmd.crit]
    <3>2. IsCmd(c) /\ c.op # "idle" /\ SafeRequest(req, db)
      BY <2>1 DEF IsCmd, SafeRequest, OtherRequests
    <3>3. UNCHANGED db
      BY <1>11 DEF NextProfile
    <3>4. Put(c, "pdelete", req)
      BY <3>1
    <3> HIDE DEF c, req
    <3> QED
      BY <2>1, <3>2, <3>3, <3>4, PutKeeps
  <2> QED
    BY <2>2, <2>3
<1>12. CASE InsertProfile
  <2>1. cmd.op # "idle" /\ IsCmd(cmd) /\ UNCHANGED db
    BY <1>12 DEF InsertProfile, StoreInv
  <2>2. CASE cmd.got
    <3> DEFINE req == [op |-> "insert_profile",
                       row |-> [name |-> cmd.name, crit |-> cmd.crit, file |-> cmd.file]]
    <3>1. Put(cmd, "pinsert", req)
      BY <1>12, <2>2 DEF InsertProfile
    <3>2. SafeRequest(req, db)
      BY DEF SafeRequest, OtherRequests
    <3>3. pend = <<>>
      BY <2>2 DEF StoreInv
    <3> HIDE DEF req
    <3> QED
      BY <2>1, <3>1, <3>2, <3>3, PutKeeps
  <2>3. CASE ~cmd.got
    <3>1. IsCmd(cmd') /\ cmd'.op = cmd.op /\ cmd'.got = cmd.got /\ UNCHANGED pend
      BY <1>12, <2>1, <2>3 DEF InsertProfile, IsCmd
    <3> QED
      BY <2>1, <2>3, <3>1 DEF StoreInv
  <2> QED
    BY <2>2, <2>3
<1>13. CASE ProfileAdded
  <2>1. cmd.op # "idle" /\ UNCHANGED <<db, pend>>
    BY <1>13 DEF ProfileAdded, StoreInv
  <2>2. IsCmd(cmd') /\ cmd'.op = cmd.op /\ cmd'.got = cmd.got
    BY <1>13 DEF ProfileAdded, StoreInv, IsCmd
  <2> QED
    BY <2>1, <2>2 DEF StoreInv
<1>14. ASSUME NEW row \in db.p, StartDeleteProfile(row)
       PROVE  StoreInv'
  <2> DEFINE c == [Idle EXCEPT !.op = "delete_profile", !.file = row.file]
             req == [op |-> "delete_row", row |-> row]
  <2>1. IsCmd(c) /\ c.op # "idle" /\ req.op \in OtherRequests
    BY DEF IsCmd, Idle, OtherRequests
  <2>2. Put(c, "prow", req) /\ cmd = Idle /\ UNCHANGED db
    BY <1>14 DEF StartDeleteProfile
  <2> HIDE DEF c, req
  <2> QED
    BY <2>1, <2>2, OtherStartKeeps
<1>15. CASE UNCHANGED storeVars
  BY <1>15 DEF storeVars, StoreInv
<1> QED
  BY <1>1, <1>2, <1>3, <1>4, <1>5, <1>6, <1>7, <1>8, <1>9, <1>10, <1>11, <1>12,
     <1>13, <1>14, <1>15 DEF ManifestNext, ProfileNext

(* Where criteria are set but not appended, no client fits two manifests   *)
(* of one weight (publish_manifest.py, find_colliding_manifests), whichever *)
(* commands ran and whichever answers of the database thread were late.    *)
THEOREM OneManifestEachHolds ==
    ASSUME Appends = FALSE
    PROVE  StoreSpec => []OneManifestEach
<1>1. StoreInv => OneManifestEach
  BY ApartIsOne DEF StoreInv
<1> QED
  BY <1>1, StoreInvInitially, StoreInvInductive, PTL DEF StoreSpec
----------------------------------------------------------------------------
(* What is on disk agrees with the tables                                   *)

ProfileFiles(d) == {r.file : r \in d.p}
NamesOf(d) == {r.name : r \in d.m}
IsManifestRow(r) == r = [name |-> r.name, inst |-> r.inst, crit |-> r.crit]
IsProfileRow(r) == r = [name |-> r.name, crit |-> r.crit, file |-> r.file]
Tables(d) ==
    /\ d = [m |-> d.m, p |-> d.p]
    /\ \A r \in d.m : IsManifestRow(r)
    /\ \A r \in d.p : IsProfileRow(r)

(* No two profiles have one file, but for the files in "except".           *)
Unshared(d, except) == \A r, s \in d.p : r.file = s.file => r = s \/ r.file \in except

(* The request under way is the one the command waits for, or one it has   *)
(* given up: that is about a name or file in "lost", or changes nothing.   *)
Asked(req) ==
    /\ cmd.step = "insert" =>
            /\ cmd.op # "delete_instance"
            /\ req.op = "insert" /\ IsManifestRow(req.row) /\ req.row.name = cmd.name
    /\ cmd.step = "delete" =>
            req.op = cmd.op /\ req.op \in {"delete", "delete_instance"} /\ req.name = cmd.name
    /\ cmd.step = "update" => req.op \in {"update", "update_profile"}
    /\ cmd.step = "pdelete" => req.op = "delete_profile" /\ ~IsNameInTable(req.name)
    /\ cmd.step = "pinsert" =>
            req.op = "insert_profile" /\ IsProfileRow(req.row) /\ req.row.file = cmd.file
    /\ cmd.step = "prow" =>
            req.op = "delete_row" /\ req.row \in db.p /\ req.row.file = cmd.file
Late(req) ==
    \/ req.op = "insert" /\ IsManifestRow(req.row) /\ req.row.name \in lost.m
    \/ req.op \in {"delete", "delete_instance"} /\ req.name \in lost.m
    \/ req.op \in {"update", "update_profile"}
    \/ req.op = "delete_profile" /\ ~IsNameInTable(req.name)
    \/ req.op = "insert_profile" /\ IsProfileRow(req.row) /\ req.row.file \in lost.p
    \/ req.op = "delete_row" /\ req.row.file \in lost.p

(* What a command has done in the table and not yet on disk, or the other  *)
(* way round, with its own name or file.                                   *)
NameHalfway ==
    /\ cmd.step = "after_insert" => cmd.name \in ManNames
    /\ cmd.step = "after_delete" =>
            /\ pend = <<>>
            /\ cmd.op = "delete" => cmd.name \notin ManNames
            /\ cmd.name \in ManNames => cmd.name \in mfiles
NamesAgree ==
    \A n : n \notin lost.m =>
        IF cmd.step \in {"after_insert", "after_delete"} /\ n = cmd.name
        THEN NameHalfway ELSE n \in ManNames <=> n \in mfiles

Copied == {"pdelete", "after_pdelete", "pinsert"}
Halfway == Copied \cup {"after_pinsert", "after_prow"}
FileHalfway ==
    /\ cmd.step \in Copied => cmd.file \in pfiles /\ cmd.file \notin ProfileFiles(db)
    /\ cmd.step = "after_pinsert" =>
            /\ cmd.file \in pfiles
            /\ IF cmd.got THEN cmd.file \in ProfileFiles(db)
               ELSE cmd.file \notin ProfileFiles(db)
    /\ cmd.step = "after_prow" =>
            IF cmd.got THEN cmd.file \notin ProfileFiles(db)
            ELSE cmd.file \in pfiles <=> cmd.file \in ProfileFiles(db)
FilesAgree ==
    \A f : f \notin lost.p =>
        IF cmd.step \in Halfway /\ f = cmd.file
        THEN FileHalfway ELSE f \in pfiles <=> f \in ProfileFiles(db)

(* The invariant: disk and tables differ by what the running command is    *)
(* about, and in the names and files whose request is not known to have    *)
(* been executed.                                                          *)
AgreeInv ==
    /\ IsCmd(cmd) /\ lost = [m |-> lost.m, p |-> lost.p]
    /\ Tables(db) /\ Unshared(db, lost.p)
    /\ dflt \in mfiles
    /\ cmd.step \in {"delete", "after_delete"} => cmd.name # dflt
    /\ NamesAgree /\ FilesAgree
    /\ pend = <<>> \/ \E req : pend = <<req>> /\ (IF Waiting THEN Asked(req) ELSE Late(req))
    /\ cmd.got \/ cmd.step = "" => pend = <<>>

(* The effect of each request on the names and the files of the tables.    *)
LEMMA ManifestRequest ==
    ASSUME NEW d, Tables(d), NEW req,
           \/ req.op \in {"delete", "delete_instance", "update"}
           \/ req.op = "insert" /\ IsManifestRow(req.row)
    PROVE  /\ Tables(Executed(d, req)) /\ Executed(d, req).p = d.p
           /\ req.op = "insert" => NamesOf(Executed(d, req)) = NamesOf(d) \cup {req.row.name}
           /\ req.op = "delete" => NamesOf(Executed(d, req)) = NamesOf(d) \ {req.name}
           /\ req.op = "delete_instance" =>
                    /\ NamesOf(d) \ {req.name} \subseteq NamesOf(Executed(d, req))
                    /\ NamesOf(Executed(d, req)) \subseteq NamesOf(d)
           /\ req.op = "update" => NamesOf(Executed(d, req)) = NamesOf(d)
<1>. DEFINE e == Executed(d, req)
            Moved(r) == IF r.name = req.name /\ r.inst > req.inst
                        THEN [r EXCEPT !.inst = @ - 1] ELSE r
            kept == {s \in d.m : ~(s.name = req.name /\ s.inst = req.inst)}
            Set(r) == IF r.name = req.name THEN [r EXCEPT !.crit = req.crit] ELSE r
<1>1. e = [d EXCEPT !.m = CASE req.op = "insert" -> d.m \cup {req.row}
                            [] req.op = "delete" -> {r \in d.m : r.name # req.name}
                            [] req.op = "delete_instance" -> {Moved(r) : r \in kept}
                            [] req.op = "update" -> {Set(r) : r \in d.m}]
  <2>1. CASE req.op = "insert"
    BY <2>1 DEF Executed
  <2>2. CASE req.op = "delete"
    BY <2>2 DEF Executed
  <2>3. CASE req.op = "delete_instance"
    BY <2>3 DEF Executed
  <2>4. CASE req.op = "update"
    BY <2>4 DEF Executed
  <2>. QED
    BY <2>1, <2>2, <2>3, <2>4
<1>2. ASSUME NEW r \in d.m
      PROVE  /\ IsManifestRow(Moved(r)) /\ Moved(r).name = r.name
             /\ IsManifestRow(Set(r)) /\ Set(r).name = r.name
  <2>1. IsManifestRow(r)
    BY DEF Tables
  <2>2. CASE r.name = req.name
    <3>1. PICK n, i, c : r = [name |-> n, inst |-> i, crit |-> c]
      BY <2>1 DEF IsManifestRow
    <3>2. Moved(r) = r \/ Moved(r) = [name |-> n, inst |-> i - 1, crit |-> c]
      BY <3>1
    <3>3. Set(r) = [name |-> n, inst |-> i, crit |-> req.crit]
      BY <2>2, <3>1
    <3>. QED
      BY <3>1, <3>2, <3>3 DEF IsManifestRow
  <2>3. CASE r.name # req.name
    BY <2>1, <2>3
  <2>. QED
    BY <2>2, <2>3
<1>. HIDE DEF Moved, Set, e
<1>3. e.p = d.p /\ e = [m |-> e.m, p |-> e.p]
  BY <1>1 DEF Tables
<1>4. CASE req.op = "insert"
  <2>1. e.m = d.m \cup {req.row}
    BY <1>1, <1>4 DEF Tables
  <2>. QED
    BY <1>3, <1>4, <2>1 DEF Tables, e, NamesOf
<1>5. CASE req.op = "delete"
  <2>1. e.m = {r \in d.m : r.name # req.name}
    BY <1>1, <1>5 DEF Tables
  <2>. QED
    BY <1>3, <1>5, <2>1 DEF Tables, e, NamesOf
<1>6. CASE req.op = "delete_instance"
  <2>1. e.m = {Moved(r) : r \in kept}
    BY <1>1, <1>6 DEF Tables
  <2>2. \A r \in kept : IsManifestRow(Moved(r)) /\ Moved(r).name = r.name /\ r \in d.m
    BY <1>2
  <2>3. \A r \in d.m : r.name # req.name => r \in kept
    OBVIOUS
  <2>. HIDE DEF kept
  <2>4. \A r \in e.m : IsManifestRow(r)
    BY <2>1, <2>2
  <2>5. Tables(e)
    BY <1>3, <2>4 DEF Tables
  <2>6. NamesOf(e) \subseteq NamesOf(d)
    BY <2>1, <2>2 DEF NamesOf
  <2>7. NamesOf(d) \ {req.name} \subseteq NamesOf(e)
    BY <2>1, <2>2, <2>3 DEF NamesOf
  <2>. QED
    BY <1>3, <1>6, <2>5, <2>6, <2>7 DEF e
<1>7. CASE req.op = "update"
  <2>1. e.m = {Set(r) : r \in d.m}
    BY <1>1, <1>7 DEF Tables
  <2>2. \A r \in e.m : IsManifestRow(r)
    BY <1>2, <2>1
  <2>3. Tables(e)
    BY <1>3, <2>2 DEF Tables
  <2>4. NamesOf(e) = NamesOf(d)
    BY ZenonT(120), <1>2, <2>1 DEF NamesOf
  <2>. QED
    BY <1>3, <1>7, <2>3, <2>4 DEF e
<1>. QED
  BY <1>4, <1>5, <1>6, <1>7

LEMMA ProfileRequest ==
    ASSUME NEW d, Tables(d), NEW req, NEW except, Unshared(d, except)
    PROVE  LET e == Executed(d, req)
           IN  /\ req.op = "update_profile" =>
                    /\ Tables(e) /\ Unshared(e, except) /\ e.m = d.m
                    /\ ProfileFiles(e) = ProfileFiles(d)
               /\ req.op = "delete_profile" /\ (\A r \in d.p : r.name # req.name) => e = d
               /\ /\ req.op = "insert_profile" /\ IsProfileRow(req.row)
                  /\ req.row.file \notin ProfileFiles(d) \/ req.row.file \in except
                  => /\ Tables(e) /\ Unshared(e, except) /\ e.m = d.m
                     /\ ProfileFiles(e) = ProfileFiles(d) \cup {req.row.file}
               /\ req.op = "delete_row" =>
                    /\ Tables(e) /\ Unshared(e, except) /\ e.m = d.m
                    /\ ProfileFiles(e) \subseteq ProfileFiles(d)
                    /\ ProfileFiles(d) \subseteq ProfileFiles(e) \cup {req.row.file}
                    /\ req.row \in d.p /\ req.row.file \notin except
                       => req.row.file \notin ProfileFiles(e)
<1>. DEFINE e == Executed(d, req)
<1>1. ASSUME req.op = "update_profile"
      PROVE  /\ Tables(e) /\ Unshared(e, except) /\ e.m = d.m
             /\ ProfileFiles(e) = ProfileFiles(d)
  <2>. DEFINE Set(r) == IF r.name = req.name THEN [r EXCEPT !.crit = req.crit] ELSE r
  <2>1. e = [d EXCEPT !.p = {Set(r) : r \in @}]
    BY <1>1 DEF Executed
  <2>2. e = [m |-> d.m, p |-> {Set(r) : r \in d.p}]
    BY <2>1 DEF Tables
  <2>3. ASSUME NEW r \in d.p
        PROVE  IsProfileRow(Set(r)) /\ Set(r).file = r.file
    <3>1. IsProfileRow(r)
      BY DEF Tables
    <3>2. [r EXCEPT !.crit = req.crit] = [name |-> r.name, crit |-> req.crit, file |-> r.file]
      BY <3>1 DEF IsProfileRow
    <3>. QED
      BY <3>1, <3>2 DEF IsProfileRow
  <2>. HIDE DEF Set, e
  <2>4. \A r \in e.p : IsProfileRow(r)
    BY <2>2, <2>3
  <2>5. ASSUME NEW r \in e.p, NEW s \in e.p, r.file = s.file
        PROVE  r = s \/ r.file \in except
    <3>1. PICK q \in d.p : r = Set(q)
      BY <2>2
    <3>2. PICK t \in d.p : s = Set(t)
      BY <2>2
    <3>3. q = t \/ q.file \in except
      BY <2>3, <2>5, <3>1, <3>2 DEF Unshared
    <3>. QED
      BY <2>3, <3>1, <3>2, <3>3
  <2>6. ProfileFiles(e) = ProfileFiles(d)
    BY <2>2, <2>3 DEF ProfileFiles
  <2>7. Tables(e) /\ Unshared(e, except) /\ e.m = d.m
    BY <2>2, <2>4, <2>5 DEF Tables, Unshared
  <2>. QED
    BY <2>6, <2>7
<1>2. ASSUME req.op = "delete_profile", \A r \in d.p : r.name # req.name
      PROVE  e = d
  <2>1. e = [d EXCEPT !.p = {r \in @ : ~(r.name = req.name /\ r.crit = req.crit)}]
    BY <1>2 DEF Executed
  <2>2. {r \in d.p : ~(r.name = req.name /\ r.crit = req.crit)} = d.p
    BY <1>2
  <2>. HIDE DEF e
  <2>. QED
    BY <2>1, <2>2 DEF Tables
<1>3. ASSUME req.op = "insert_profile", IsProfileRow(req.row),
             req.row.file \notin ProfileFiles(d) \/ req.row.file \in except
      PROVE  /\ Tables(e) /\ Unshared(e, except) /\ e.m = d.m
             /\ ProfileFiles(e) = ProfileFiles(d) \cup {req.row.file}
  <2>1. e = [d EXCEPT !.p = @ \cup {req.row}]
    BY <1>3 DEF Executed
  <2>2. e = [m |-> d.m, p |-> d.p \cup {req.row}]
    BY <2>1 DEF Tables
  <2>. HIDE DEF e
  <2>3. ProfileFiles(e) = ProfileFiles(d) \cup {req.row.file}
    BY <2>2 DEF ProfileFiles
  <2>4. ASSUME NEW r \in e.p, NEW s \in e.p, r.file = s.file
        PROVE  r = s \/ r.file \in except
    <3>1. /\ r \in d.p \/ r = req.row
          /\ s \in d.p \/ s = req.row
      BY <2>2
    <3>2. req.row.file \in except \/ \A q \in d.p : q.file # req.row.file
      BY <1>3 DEF ProfileFiles
    <3>. QED
      BY <2>4, <3>1, <3>2 DEF Unshared
  <2>5. Tables(e) /\ Unshared(e, except)
    BY <1>3, <2>2, <2>4 DEF Tables, Unshared
  <2>. QED
    BY <2>2, <2>3, <2>5
<1>4. ASSUME req.op = "delete_row"
      PROVE  /\ Tables(e) /\ Unshared(e, except) /\ e.m = d.m
             /\ ProfileFiles(e) \subseteq ProfileFiles(d)
             /\ ProfileFiles(d) \subseteq ProfileFiles(e) \cup {req.row.file}
             /\ req.row \in d.p /\ req.row.file \notin except
                => req.row.file \notin ProfileFiles(e)
  <2>1. e = [d EXCEPT !.p = @ \ {req.row}]
    BY <1>4 DEF Executed
  <2>2. e = [m |-> d.m, p |-> d.p \ {req.row}]
    BY <2>1 DEF Tables
  <2>. HIDE DEF e
  <2>3. Tables(e) /\ Unshared(e, except) /\ e.m = d.m
    BY <2>2 DEF Tables, Unshared
  <2>4. /\ ProfileFiles(e) \subseteq ProfileFiles(d)
        /\ ProfileFiles(d) \subseteq ProfileFiles(e) \cup {req.row.file}
    BY <2>2 DEF ProfileFiles
  <2>5. ASSUME req.row \in d.p, req.row.file \notin except
        PROVE  req.row.file \notin ProfileFiles(e)
    BY <2>2, <2>5 DEF ProfileFiles, Unshared
  <2>. QED
    BY <2>3, <2>4, <2>5
<1>. QED
  BY <1>1, <1>2, <1>3, <1>4

(* A request that was given up touches nothing outside "lost".             *)
LEMMA LateRequest ==
    ASSUME Tables(db), Unshared(db, lost.p), NEW req, Late(req)
    PROVE  LET e == Executed(db, req)
           IN  /\ Tables(e) /\ Unshared(e, lost.p)
               /\ \A n : n \notin lost.m => (n \in NamesOf(e) <=> n \in NamesOf(db))
               /\ \A f : f \notin lost.p => (f \in ProfileFiles(e) <=> f \in ProfileFiles(db))
<1>. DEFINE e == Executed(db, req)
<1>1. CASE \/ req.op = "insert" /\ IsManifestRow(req.row) /\ req.row.name \in lost.m
           \/ req.op \in {"delete", "delete_instance"} /\ req.name \in lost.m
           \/ req.op = "update"
  <2>1. /\ Tables(e) /\ e.p = db.p
        /\ req.op = "insert" => NamesOf(e) = NamesOf(db) \cup {req.row.name}
        /\ req.op = "delete" => NamesOf(e) = NamesOf(db) \ {req.name}
        /\ req.op = "delete_instance" =>
              NamesOf(db) \ {req.name} \subseteq NamesOf(e) /\ NamesOf(e) \subseteq NamesOf(db)
        /\ req.op = "update" => NamesOf(e) = NamesOf(db)
    BY <1>1, ManifestRequest
  <2>. HIDE DEF e
  <2>2. \A n : n \notin lost.m => (n \in NamesOf(e) <=> n \in NamesOf(db))
    BY <1>1, <2>1
  <2>3. Unshared(e, lost.p) /\ ProfileFiles(e) = ProfileFiles(db)
    BY <2>1 DEF Unshared, ProfileFiles
  <2>4. QED
    BY <2>1, <2>2, <2>3 DEF e
<1>2. CASE \/ req.op = "update_profile"
           \/ req.op = "delete_profile" /\ ~IsNameInTable(req.name)
           \/ req.op = "insert_profile" /\ IsProfileRow(req.row) /\ req.row.file \in lost.p
           \/ req.op = "delete_row" /\ req.row.file \in lost.p
  <2>1. CASE req.op = "update_profile"
    BY <2>1, ProfileRequest DEF NamesOf
  <2>2. CASE req.op = "delete_profile" /\ ~IsNameInTable(req.name)
    <3>1. \A r \in db.p : r.name # req.name
      BY <2>2 DEF IsNameInTable
    <3>2. e = db
      BY <2>2, <3>1, ProfileRequest
    <3>. QED
      BY <3>2
  <2>3. CASE req.op = "insert_profile" /\ IsProfileRow(req.row) /\ req.row.file \in lost.p
    <3>1. /\ Tables(e) /\ Unshared(e, lost.p) /\ e.m = db.m
          /\ ProfileFiles(e) = ProfileFiles(db) \cup {req.row.file}
      BY <2>3, ProfileRequest
    <3>. QED
      BY <2>3, <3>1 DEF NamesOf
  <2>4. CASE req.op = "delete_row" /\ req.row.file \in lost.p
    <3>1. /\ Tables(e) /\ Unshared(e, lost.p) /\ e.m = db.m
          /\ ProfileFiles(e) \subseteq ProfileFiles(db)
          /\ ProfileFiles(db) \subseteq ProfileFiles(e) \cup {req.row.file}
      BY <2>4, ProfileRequest
    <3>2. NamesOf(e) = NamesOf(db)
      BY <3>1 DEF NamesOf
    <3>. HIDE DEF e
    <3>3. \A f : f \notin lost.p => (f \in ProfileFiles(e) <=> f \in ProfileFiles(db))
      BY <2>4, <3>1
    <3>. QED
      BY <3>1, <3>2, <3>3 DEF e
  <2>. QED
    BY <1>2, <2>1, <2>2, <2>3, <2>4
<1>. QED
  BY <1>1, <1>2 DEF Late

(* The thread runs the request; disk and tables then differ by what the    *)
(* command has still to do.                                                *)
LEMMA DbRunAgrees ==
    ASSUME AgreeInv, DbRun
    PROVE  AgreeInv'
<1>1. PICK req : pend = <<req>> /\ (IF Waiting THEN Asked(req) ELSE Late(req))
  BY DEF AgreeInv, DbRun
<1>2. /\ db' = Executed(db, req) /\ pend' = <<>>
      /\ UNCHANGED <<mfiles, dflt, pfiles, lost>>
      /\ ManNames = NamesOf(db) /\ ManNames' = NamesOf(db')
  BY <1>1 DEF DbRun, ManNames, NamesOf
<1>3. IsCmd(cmd) /\ Tables(db) /\ Unshared(db, lost.p) /\ NamesAgree /\ FilesAgree
  BY DEF AgreeInv
<1>4. CASE ~Waiting
  <2>1. cmd' = cmd
    BY <1>1, <1>4 DEF DbRun
  <2>2. /\ Tables(db') /\ Unshared(db', lost.p)
        /\ \A n : n \notin lost.m => (n \in ManNames' <=> n \in ManNames)
        /\ \A f : f \notin lost.p => (f \in ProfileFiles(db') <=> f \in ProfileFiles(db))
    BY <1>1, <1>2, <1>3, <1>4, LateRequest
  <2>3. NamesAgree'
    BY <1>2, <1>3, <2>1, <2>2 DEF NamesAgree, NameHalfway
  <2>4. FilesAgree'
    BY <1>2, <1>3, <2>1, <2>2 DEF FilesAgree, FileHalfway
  <2>. QED
    BY <1>2, <2>1, <2>2, <2>3, <2>4 DEF AgreeInv
<1>5. CASE Waiting
  <2>1. cmd' = [cmd EXCEPT !.step = After(@), !.got = TRUE]
    BY <1>1, <1>5 DEF DbRun
  <2>2. /\ IsCmd(cmd') /\ cmd'.step = After(cmd.step) /\ cmd'.got = TRUE
        /\ cmd'.op = cmd.op /\ cmd'.name = cmd.name /\ cmd'.file = cmd.file
    BY <1>3, <2>1 DEF IsCmd
  <2>3. cmd.step \in Waits /\ Asked(req)
    BY <1>1, <1>5 DEF Waiting
  <2>4. /\ cmd'.step \in {"delete", "after_delete"} => cmd.step = "delete"
        /\ cmd'.step \notin Waits /\ cmd'.step \in {After(s) : s \in Waits}
    BY <2>2, <2>3 DEF Waits, After
  <2>5. /\ \A n : n \notin lost.m => (n \in ManNames <=> n \in mfiles)
        /\ cmd.step \notin Halfway =>
              \A f : f \notin lost.p => (f \in pfiles <=> f \in ProfileFiles(db))
    BY <1>3, <2>3 DEF NamesAgree, FilesAgree, Waits
  <2>6. ASSUME cmd.step \in {"insert", "delete"}
        PROVE  Tables(db') /\ Unshared(db', lost.p) /\ NamesAgree' /\ FilesAgree'
    <3>1. Tables(db') /\ db'.p = db.p
      BY <1>2, <1>3, <2>3, <2>6, ManifestRequest DEF Asked
    <3>2. Unshared(db', lost.p) /\ ProfileFiles(db') = ProfileFiles(db)
      BY <1>3, <3>1 DEF Unshared, ProfileFiles
    <3>3. FilesAgree'
      BY <1>2, <2>2, <2>5, <2>6, <3>2 DEF FilesAgree, Halfway, Copied, After
    <3>4. CASE cmd.step = "insert"
      <4>1. cmd'.step = "after_insert" /\ ManNames' = ManNames \cup {cmd.name}
        BY <1>2, <1>3, <2>2, <2>3, <3>4, ManifestRequest DEF Asked, After
      <4>. QED
        BY <1>2, <2>2, <2>5, <3>1, <3>2, <3>3, <4>1 DEF NamesAgree, NameHalfway
    <3>5. CASE cmd.step = "delete"
      <4>1. /\ cmd'.step = "after_delete"
            /\ req.op = cmd.op /\ req.name = cmd.name /\ req.op \in {"delete", "delete_instance"}
        BY <2>2, <2>3, <3>5 DEF Asked, After
      <4>2. /\ cmd.op = "delete" => ManNames' = ManNames \ {cmd.name}
            /\ cmd.op = "delete_instance" =>
                  ManNames \ {cmd.name} \subseteq ManNames' /\ ManNames' \subseteq ManNames
        BY <1>2, <1>3, <4>1, ManifestRequest
      <4>. QED
        BY <1>2, <2>2, <2>5, <3>1, <3>2, <3>3, <4>1, <4>2 DEF NamesAgree, NameHalfway
    <3>. QED
      BY <2>6, <3>4, <3>5
  <2>7. ASSUME cmd.step \notin {"insert", "delete"},
               Tables(db'), Unshared(db', lost.p), NamesOf(db') = NamesOf(db), FilesAgree'
        PROVE  Tables(db') /\ Unshared(db', lost.p) /\ NamesAgree' /\ FilesAgree'
    <3>1. cmd'.step \notin {"after_insert", "after_delete"}
      BY <2>2, <2>3, <2>7 DEF Waits, After
    <3>. QED
      BY <1>2, <2>5, <2>7, <3>1 DEF NamesAgree
  <2>8. ASSUME cmd.step = "update"
        PROVE  Tables(db') /\ Unshared(db', lost.p) /\ NamesAgree' /\ FilesAgree'
    <3>1. cmd'.step = "after_update" /\ req.op \in {"update", "update_profile"}
      BY <2>2, <2>3, <2>8 DEF After, Asked
    <3>2. /\ Tables(db') /\ Unshared(db', lost.p) /\ ProfileFiles(db') = ProfileFiles(db)
          /\ NamesOf(db') = NamesOf(db)
      <4>1. CASE req.op = "update"
        BY <1>2, <1>3, <4>1, ManifestRequest DEF ProfileFiles, Unshared
      <4>2. CASE req.op = "update_profile"
        BY <1>2, <1>3, <4>2, ProfileRequest DEF NamesOf
      <4>. QED
        BY <3>1, <4>1, <4>2
    <3>3. FilesAgree'
      BY <1>2, <2>5, <2>8, <3>1, <3>2 DEF FilesAgree, Halfway, Copied
    <3>. QED
      BY <2>7, <2>8, <3>2, <3>3
  <2>9. ASSUME cmd.step = "pdelete"
        PROVE  Tables(db') /\ Unshared(db', lost.p) /\ NamesAgree' /\ FilesAgree'
    <3>1. cmd'.step = "after_pdelete" /\ req.op = "delete_profile" /\ ~IsNameInTable(req.name)
      BY <2>2, <2>3, <2>9 DEF After, Asked
    <3>2. \A r \in db.p : r.name # req.name
      BY <3>1 DEF IsNameInTable
    <3>3. db' = db
      BY ZenonT(120), <1>2, <1>3, <3>1, <3>2, ProfileRequest
    <3>4. FilesAgree'
      BY <1>2, <1>3, <2>2, <2>9, <3>1, <3>3 DEF FilesAgree, FileHalfway, Halfway, Copied
    <3>. QED
      BY <1>3, <2>7, <2>9, <3>3, <3>4
  <2>10. ASSUME cmd.step = "pinsert"
         PROVE  Tables(db') /\ Unshared(db', lost.p) /\ NamesAgree' /\ FilesAgree'
    <3>1. /\ cmd'.step = "after_pinsert" /\ req.op = "insert_profile"
          /\ IsProfileRow(req.row) /\ req.row.file = cmd.file
      BY <2>2, <2>3, <2>10 DEF After, Asked
    <3>2. /\ cmd.file \notin lost.p => cmd.file \in pfiles /\ cmd.file \notin ProfileFiles(db)
          /\ \A f : f \notin lost.p /\ f # cmd.file => (f \in pfiles <=> f \in ProfileFiles(db))
      BY <1>3, <2>10 DEF FilesAgree, FileHalfway, Halfway, Copied
    <3>3. /\ Tables(db') /\ Unshared(db', lost.p) /\ db'.m = db.m
          /\ ProfileFiles(db') = ProfileFiles(db) \cup {cmd.file}
      BY ZenonT(120), <1>2, <1>3, <3>1, <3>2, ProfileRequest
    <3>4. FilesAgree'
      BY <1>2, <2>2, <3>1, <3>2, <3>3 DEF FilesAgree, FileHalfway, Halfway, Copied
    <3>. QED
      BY <2>7, <2>10, <3>3, <3>4 DEF NamesOf
  <2>11. ASSUME cmd.step = "prow"
         PROVE  Tables(db') /\ Unshared(db', lost.p) /\ NamesAgree' /\ FilesAgree'
    <3>1. /\ cmd'.step = "after_prow" /\ req.op = "delete_row"
          /\ req.row \in db.p /\ req.row.file = cmd.file
      BY <2>2, <2>3, <2>11 DEF After, Asked
    <3>2. \A f : f \notin lost.p => (f \in pfiles <=> f \in ProfileFiles(db))
      BY <2>5, <2>11 DEF Halfway, Copied
    <3>3. /\ Tables(db') /\ Unshared(db', lost.p) /\ db'.m = db.m
          /\ ProfileFiles(db') \subseteq ProfileFiles(db)
          /\ ProfileFiles(db) \subseteq ProfileFiles(db') \cup {cmd.file}
          /\ cmd.file \notin lost.p => cmd.file \notin ProfileFiles(db')
      BY <1>2, <1>3, <3>1, ProfileRequest
    <3>4. FilesAgree'
      BY <1>2, <2>2, <3>1, <3>2, <3>3 DEF FilesAgree, FileHalfway, Halfway, Copied
    <3>. QED
      BY <2>7, <2>11, <3>3, <3>4 DEF NamesOf
  <2>12. Tables(db') /\ Unshared(db', lost.p) /\ NamesAgree' /\ FilesAgree'
    BY <2>3, <2>6, <2>8, <2>9, <2>10, <2>11 DEF Waits
  <2>. QED
    BY <1>2, <2>2, <2>4, <2>12 DEF AgreeInv
<1>. QED
  BY <1>4, <1>5

(* What "lost" gains when the command that waits goes on without an answer *)
LEMMA ForfeitGrows ==
    ASSUME lost = [m |-> lost.m, p |-> lost.p], NEW steps, Forfeit(steps)
    PROVE  /\ lost' = [m |-> lost'.m, p |-> lost'.p]
           /\ lost.m \subseteq lost'.m /\ lost.p \subseteq lost'.p
           /\ cmd.step \in steps \cap {"insert", "delete"} => cmd.name \in lost'.m
           /\ cmd.step \in steps \cap {"pinsert", "prow"} => cmd.file \in lost'.p
<1>1. CASE cmd.step \in steps \cap {"insert", "delete"}
  <2>1. lost' = [lost EXCEPT !.m = @ \cup {cmd.name}]
    BY <1>1 DEF Forfeit
  <2>2. lost' = [m |-> lost.m \cup {cmd.name}, p |-> lost.p]
    BY <2>1
  <2>. QED
    BY <1>1, <2>2
<1>2. CASE cmd.step \in steps \cap {"pinsert", "prow"}
  <2>1. lost' = [lost EXCEPT !.p = @ \cup {cmd.file}]
    BY <1>2 DEF Forfeit
  <2>2. lost' = [m |-> lost.m, p |-> lost.p \cup {cmd.file}]
    BY <2>1
  <2>. QED
    BY <1>2, <2>2
<1>3. CASE cmd.step \notin steps \cap {"insert", "delete", "pinsert", "prow"}
  <2>1. lost' = lost
    BY <1>3 DEF Forfeit
  <2>. QED
    BY <1>3, <2>1
<1>. QED
  BY <1>1, <1>2, <1>3

(* The request is late, or it failed and nothing of it will be executed.   *)
LEMMA NoAnswerAgrees ==
    ASSUME AgreeInv, Waiting, ~cmd.got, NEW steps, Forfeit(steps),
           cmd' = [cmd EXCEPT !.step = After(@)],
           UNCHANGED <<db, mfiles, dflt, pfiles>>,
           \/ pend' = pend /\ steps = Waits
           \/ /\ pend # <<>> /\ pend' = <<>>
              /\ steps = IF cmd.op = "delete_instance" THEN {} ELSE {"insert", "delete"}
    PROVE  AgreeInv'
<1>1. /\ IsCmd(cmd') /\ cmd'.step = After(cmd.step) /\ ~cmd'.got
      /\ cmd'.op = cmd.op /\ cmd'.name = cmd.name /\ cmd'.file = cmd.file
  BY DEF AgreeInv, IsCmd
<1>2. /\ lost' = [m |-> lost'.m, p |-> lost'.p]
      /\ lost.m \subseteq lost'.m /\ lost.p \subseteq lost'.p
      /\ cmd.step \in steps \cap {"insert", "delete"} => cmd.name \in lost'.m
      /\ cmd.step \in steps \cap {"pinsert", "prow"} => cmd.file \in lost'.p
  BY ForfeitGrows DEF AgreeInv
<1>3. cmd.step \in Waits
  BY DEF Waiting
<1>4. /\ cmd'.step \in {"delete", "after_delete"} => cmd.step = "delete"
      /\ cmd'.step \notin Waits /\ cmd'.step # ""
      /\ cmd'.step = "after_insert" => cmd.step = "insert"
      /\ cmd'.step \in {"pdelete", "pinsert", "after_pdelete"} => cmd.step = "pdelete"
      /\ cmd'.step = "after_pinsert" => cmd.step = "pinsert"
      /\ cmd'.step = "after_prow" => cmd.step = "prow"
  <2>1. \/ cmd.step = "insert" /\ cmd'.step = "after_insert"
        \/ cmd.step = "delete" /\ cmd'.step = "after_delete"
        \/ cmd.step = "update" /\ cmd'.step = "after_update"
        \/ cmd.step = "pdelete" /\ cmd'.step = "after_pdelete"
        \/ cmd.step = "pinsert" /\ cmd'.step = "after_pinsert"
        \/ cmd.step = "prow" /\ cmd'.step = "after_prow"
    BY <1>1, <1>3 DEF Waits, After
  <2>. QED
    BY <2>1 DEF Waits
<1>5. Unshared(db', lost'.p) /\ Tables(db')
  BY <1>2 DEF AgreeInv, Unshared
<1>6. pend = <<>> \/ \E req : pend = <<req>> /\ Asked(req)
  BY DEF AgreeInv
<1>7. ASSUME cmd.step = "insert", pend # <<>>
      PROVE  cmd.op # "delete_instance"
  BY <1>6, <1>7 DEF Asked
<1>8. cmd.step = "insert" => cmd.name \in lost'.m
  BY <1>2, <1>3, <1>7
<1>9. cmd.step = "delete" =>
        cmd.name \in lost'.m \/ (pend' = <<>> /\ cmd.op = "delete_instance")
  BY <1>2, <1>3 DEF Waits
<1>10. NamesAgree'
  <2>1. \A n : n \notin lost'.m => (n \in ManNames' <=> n \in mfiles')
    BY <1>2, <1>3 DEF AgreeInv, NamesAgree, Waits, ManNames
  <2>. QED
    BY <1>1, <1>4, <1>8, <1>9, <2>1 DEF NamesAgree, NameHalfway
<1>11. FilesAgree'
  <2>1. SUFFICES ASSUME NEW f, f \notin lost'.p
                 PROVE  IF cmd'.step \in Halfway /\ f = cmd'.file
                        THEN FileHalfway' ELSE f \in pfiles' <=> f \in ProfileFiles(db')
    BY DEF FilesAgree
  <2>2. IF cmd.step \in Halfway /\ f = cmd.file
        THEN FileHalfway ELSE f \in pfiles <=> f \in ProfileFiles(db)
    BY <1>2, <2>1 DEF AgreeInv, FilesAgree
  <2>3. CASE f = cmd.file
    <3>1. CASE cmd.step = "pdelete"
      BY <1>1, <2>2, <2>3, <3>1 DEF FileHalfway, Halfway, Copied, After
    <3>2. CASE cmd.step = "pinsert"
      BY <1>1, <2>2, <2>3, <3>2 DEF FileHalfway, Halfway, Copied, After
    <3>3. CASE cmd.step = "prow"
      BY <1>1, <2>2, <2>3, <3>3 DEF FileHalfway, Halfway, Copied, After
    <3>4. CASE cmd.step \in {"insert", "delete", "update"}
      BY <1>1, <2>2, <2>3, <3>4 DEF Halfway, Copied, After
    <3>. QED
      BY <1>3, <3>1, <3>2, <3>3, <3>4 DEF Waits
  <2>4. CASE f # cmd.file
    BY <1>1, <2>2, <2>4
  <2>. QED
    BY <2>3, <2>4
<1>12. pend' = <<>> \/ \E req : pend' = <<req>> /\ Late(req)'
  <2>1. SUFFICES ASSUME pend' = pend, steps = Waits, NEW req, pend = <<req>>, Asked(req)
                 PROVE  Late(req)'
    BY <1>6
  <2>2. IsNameInTable(req.name)' <=> IsNameInTable(req.name)
    BY DEF IsNameInTable
  <2>. QED
    BY <1>2, <1>3, <2>1, <2>2 DEF Asked, Late, Waits
<1>13. ~Waiting'
  BY <1>4 DEF Waiting
<1>. QED
  BY <1>1, <1>2, <1>4, <1>5, <1>10, <1>11, <1>12, <1>13 DEF AgreeInv

LEMMA DbFailsAgrees ==
    ASSUME AgreeInv, DbFails
    PROVE  AgreeInv'
<1>1. PICK req : pend = <<req>>
  <2>1. pend = <<>> \/ \E req : pend = <<req>> /\ (IF Waiting THEN Asked(req) ELSE Late(req))
    BY DEF AgreeInv
  <2>. QED
    BY <2>1 DEF DbFails
<1>2. /\ pend # <<>> /\ pend' = <<>> /\ Len(pend) = 1 /\ UNCHANGED <<db, mfiles, dflt, pfiles>>
  BY <1>1 DEF DbFails
<1>3. CASE Waiting
  <2>1. ~cmd.got
    BY <1>2 DEF AgreeInv
  <2>. QED
    BY <1>2, <1>3, <2>1, NoAnswerAgrees DEF DbFails
<1>4. CASE ~Waiting
  <2>1. UNCHANGED <<cmd, lost>>
    BY <1>2, <1>4 DEF DbFails
  <2>2. NamesAgree' /\ FilesAgree'
    BY <1>2, <2>1 DEF AgreeInv, NamesAgree, NameHalfway, FilesAgree, FileHalfway, ManNames
  <2>. QED
    BY <1>2, <2>1, <2>2 DEF AgreeInv
<1>. QED
  BY <1>3, <1>4

(* A command asks for something ...                                        *)
LEMMA PutShape ==
    ASSUME NEW c, IsCmd(c), NEW step, NEW req, Put(c, step, req)
    PROVE  /\ IsCmd(cmd') /\ cmd'.step = step /\ ~cmd'.got
           /\ cmd'.op = c.op /\ cmd'.name = c.name /\ cmd'.file = c.file
           /\ pend = <<>> => pend' = <<req>>
<1>1. cmd' = [c EXCEPT !.step = step, !.got = FALSE] /\ pend' = Append(pend, req)
  BY DEF Put
<1>2. /\ IsCmd(cmd') /\ cmd'.step = step /\ ~cmd'.got
      /\ cmd'.op = c.op /\ cmd'.name = c.name /\ cmd'.file = c.file
  BY <1>1 DEF IsCmd
<1>3. ASSUME pend = <<>>
      PROVE  pend' = <<req>>
  BY <1>1, <1>3
<1>. QED
  BY <1>2, <1>3

LEMMA PutAgrees ==
    ASSUME AgreeInv, pend = <<>>, cmd.step \notin {"after_insert", "after_delete"},
           NEW c, IsCmd(c), NEW step \in Waits, NEW req, Put(c, step, req),
           UNCHANGED <<db, mfiles, dflt, lost>>, FilesAgree', Asked(req)',
           step # "delete" \/ c.name # dflt
    PROVE  AgreeInv'
<1>1. /\ IsCmd(cmd') /\ cmd'.step = step /\ cmd'.name = c.name /\ ~cmd'.got
      /\ pend' = <<req>>
  BY PutShape
<1>2. step \notin {"after_insert", "after_delete", ""}
  BY DEF Waits
<1>3. NamesAgree'
  BY <1>1, <1>2 DEF AgreeInv, NamesAgree, ManNames
<1>4. Waiting'
  BY <1>1 DEF Waiting
<1>. QED
  BY <1>1, <1>2, <1>3, <1>4 DEF AgreeInv

(* ... goes on without asking, or ends.                                    *)
LEMMA ExitAgrees ==
    ASSUME AgreeInv, Exit, UNCHANGED db, dflt' \in mfiles',
           lost' = [m |-> lost'.m, p |-> lost'.p], lost.p \subseteq lost'.p,
           \A n : n \notin lost'.m => (n \in ManNames <=> n \in mfiles'),
           \A f : f \notin lost'.p => (f \in pfiles' <=> f \in ProfileFiles(db))
    PROVE  AgreeInv'
<1>1. cmd' = Idle /\ pend' = <<>> /\ cmd'.step = "" /\ IsCmd(cmd')
  BY DEF Exit, Idle, IsCmd
<1>2. NamesAgree' /\ FilesAgree'
  BY <1>1 DEF NamesAgree, FilesAgree, Halfway, Copied, ManNames
<1>3. Tables(db') /\ Unshared(db', lost'.p)
  BY DEF AgreeInv, Unshared
<1>. QED
  BY <1>1, <1>2, <1>3 DEF AgreeInv

(* Outside the steps halfway through a command everything agrees.          *)
LEMMA NamesSettled ==
    ASSUME AgreeInv, cmd.step \notin {"after_insert", "after_delete"}
    PROVE  \A n : n \notin lost.m => (n \in ManNames <=> n \in mfiles)
BY DEF AgreeInv, NamesAgree

LEMMA FilesSettled ==
    ASSUME AgreeInv, cmd.step \notin Halfway
    PROVE  \A f : f \notin lost.p => (f \in pfiles <=> f \in ProfileFiles(db))
BY DEF AgreeInv, FilesAgree

LEMMA IdleAgrees ==
    ASSUME AgreeInv, cmd = Idle
    PROVE  /\ pend = <<>> /\ cmd.step = ""
           /\ \A n : n \notin lost.m => (n \in ManNames <=> n \in mfiles)
           /\ \A f : f \notin lost.p => (f \in pfiles <=> f \in ProfileFiles(db))
<1>1. cmd.step = ""
  BY DEF Idle
<1>. QED
  BY <1>1, NamesSettled, FilesSettled DEF AgreeInv, Halfway, Copied

LEMMA StartAgrees ==
    ASSUME AgreeInv, cmd = Idle, NEW c, IsCmd(c),
           NEW step \in {"insert", "delete", "update", "prow"},
           NEW req, Put(c, step, req), UNCHANGED <<db, mfiles, dflt, pfiles, lost>>,
           step # "delete" \/ c.name # dflt, Asked(req)'
    PROVE  AgreeInv'
<1>1. cmd'.step = step /\ step \in Waits
  BY PutShape DEF Waits
<1>2. FilesAgree'
  BY <1>1, IdleAgrees DEF FilesAgree, Halfway, Copied
<1>. QED
  BY <1>1, <1>2, IdleAgrees, PutAgrees

LEMMA ManifestStepAgrees ==
    ASSUME AgreeInv, ManifestNext
    PROVE  AgreeInv'
<1>1. CASE DbRun
  BY <1>1, DbRunAgrees
<1>2. CASE DbFails
  BY <1>2, DbFailsAgrees
<1>3. CASE WaitTimesOut
  BY <1>3, NoAnswerAgrees DEF WaitTimesOut
<1>4. ASSUME NEW n \in MNames, NEW crit \in CriteriaSet, NEW d \in BOOLEAN,
             StartCreate(n, crit, d)
      PROVE  AgreeInv'
  <2>. DEFINE c == [Idle EXCEPT !.op = "create", !.name = n, !.flag = d]
  <2>. PICK req : req = InsertSQL(n, crit)
    OBVIOUS
  <2>1. IsCmd(c) /\ c.name = n /\ c.op = "create"
    BY DEF IsCmd, Idle
  <2>2. req.op = "insert" /\ req.row.name = n /\ IsManifestRow(req.row)
    BY DEF InsertSQL, IsManifestRow
  <2>3. Put(c, "insert", req) /\ cmd = Idle /\ UNCHANGED <<db, mfiles, dflt, pfiles, lost>>
    BY <1>4 DEF StartCreate
  <2>. HIDE DEF c
  <2>4. cmd'.step = "insert" /\ cmd'.name = n /\ cmd'.op = "create"
    BY <2>1, <2>3, PutShape
  <2>5. Asked(req)'
    BY <2>2, <2>4 DEF Asked
  <2>. QED
    BY <2>1, <2>3, <2>5, StartAgrees
<1>5. CASE FinishCreate
  <2>1. /\ cmd.step = "after_insert" /\ mfiles' = mfiles \cup {cmd.name} /\ Exit
        /\ dflt' \in {cmd.name, dflt} /\ UNCHANGED <<db, pfiles, lost>>
    BY <1>5 DEF FinishCreate
  <2>2. \A n : n \notin lost.m => (n \in ManNames <=> n \in mfiles')
    BY <2>1 DEF AgreeInv, NamesAgree, NameHalfway
  <2>3. \A f : f \notin lost.p => (f \in pfiles' <=> f \in ProfileFiles(db))
    BY <2>1, FilesSettled DEF Halfway, Copied
  <2>. QED
    BY <2>1, <2>2, <2>3, ExitAgrees DEF AgreeInv
<1>6. ASSUME NEW n \in ManifestNames, StartDelete(n)
      PROVE  AgreeInv'
  <2>. DEFINE c == [Idle EXCEPT !.op = "delete", !.name = n]
              req == [op |-> "delete", name |-> n]
  <2>1. IsCmd(c) /\ c.name = n /\ c.op = "delete" /\ req.op = "delete" /\ req.name = n
    BY DEF IsCmd, Idle
  <2>2. /\ Put(c, "delete", req) /\ cmd = Idle /\ n # dflt
        /\ UNCHANGED <<db, mfiles, dflt, pfiles, lost>>
    BY <1>6 DEF StartDelete, DeleteAllowed
  <2>. HIDE DEF c, req
  <2>3. Asked(req)'
    BY <2>1, <2>2, PutShape DEF Asked
  <2>. QED
    BY <2>1, <2>2, <2>3, StartAgrees
<1>7. ASSUME NEW n \in ManifestNames, NEW i \in 0 .. 2, StartDeleteInstance(n, i)
      PROVE  AgreeInv'
  <2>. DEFINE c == [Idle EXCEPT !.op = "delete_instance", !.name = n]
              req == [op |-> "delete_instance", name |-> n, inst |-> i]
  <2>1. /\ IsCmd(c) /\ c.name = n /\ c.op = "delete_instance"
        /\ req.op = "delete_instance" /\ req.name = n
    BY DEF IsCmd, Idle
  <2>2. /\ Put(c, "delete", req) /\ cmd = Idle /\ n # dflt
        /\ UNCHANGED <<db, mfiles, dflt, pfiles, lost>>
    BY <1>7 DEF StartDeleteInstance, DeleteAllowed
  <2>. HIDE DEF c, req
  <2>3. cmd'.step = "delete" /\ cmd'.name = n /\ cmd'.op = "delete_instance"
    BY <2>1, <2>2, PutShape
  <2>4. Asked(req)'
    BY <2>1, <2>3 DEF Asked
  <2>. QED
    BY <2>1, <2>2, <2>4, StartAgrees
<1>8. CASE FinishDelete
  <2>1. cmd.step = "after_delete" /\ Exit /\ UNCHANGED <<db, dflt, pfiles>>
    BY <1>8 DEF FinishDelete
  <2>2. mfiles' \in {mfiles, mfiles \ {cmd.name}} /\ dflt' \in mfiles'
    BY <1>8, <2>1 DEF FinishDelete, AgreeInv
  <2>3. \A f : f \notin lost.p => (f \in pfiles' <=> f \in ProfileFiles(db))
    BY <2>1, FilesSettled DEF Halfway, Copied
  <2>4. \A n : n \notin lost.m =>
            IF n = cmd.name THEN NameHalfway ELSE n \in ManNames <=> n \in mfiles
    BY <2>1 DEF AgreeInv, NamesAgree
  <2>5. CASE /\ mfiles' = IF cmd.op = "delete" \/ pend # <<>> \/ cmd.name \notin ManNames
                          THEN mfiles \ {cmd.name} ELSE mfiles
             /\ UNCHANGED lost
    <3>1. \A n : n \notin lost.m => (n \in ManNames <=> n \in mfiles')
      BY <2>1, <2>4, <2>5 DEF NameHalfway
    <3>. QED
      BY <2>1, <2>2, <2>3, <2>5, <3>1, ExitAgrees DEF AgreeInv
  <2>6. CASE mfiles' = mfiles \ {cmd.name} /\ lost' = [lost EXCEPT !.m = @ \cup {cmd.name}]
    <3>1. lost' = [m |-> lost.m \cup {cmd.name}, p |-> lost.p]
      BY <2>6 DEF AgreeInv
    <3>2. lost' = [m |-> lost'.m, p |-> lost'.p] /\ lost'.p = lost.p
      BY <3>1
    <3>3. \A n : n \notin lost'.m => (n \in ManNames <=> n \in mfiles')
      BY <2>4, <2>6, <3>1
    <3>. QED
      BY <2>1, <2>2, <2>3, <3>2, <3>3, ExitAgrees
  <2>. QED
    BY <1>8, <2>5, <2>6 DEF FinishDelete
<1>9. ASSUME NEW n, NEW crit, NEW append, StartSetCriteria(n, crit, append)
      PROVE  AgreeInv'
  <2>. DEFINE own == {r \in db.m : r.name = n /\ r.inst = 0}
              c == [Idle EXCEPT !.op = "set", !.name = n]
  <2>. PICK req : req = [op |-> "update", name |-> n,
                         crit |-> NewCriteria((CHOOSE o \in own : TRUE).crit, crit, append)]
    OBVIOUS
  <2>1. IsCmd(c) /\ req.op = "update"
    BY DEF IsCmd, Idle
  <2>2. Put(c, "update", req) /\ cmd = Idle /\ UNCHANGED <<db, mfiles, dflt, pfiles, lost>>
    BY <1>9 DEF StartSetCriteria
  <2>. HIDE DEF c
  <2>3. cmd'.step = "update"
    BY <2>1, <2>2, PutShape
  <2>4. Asked(req)'
    BY <2>1, <2>3 DEF Asked
  <2>. QED
    BY <2>1, <2>2, <2>4, StartAgrees
<1>10. CASE FinishSetCriteria
  <2>1. cmd.step = "after_update" /\ Exit /\ UNCHANGED <<db, mfiles, dflt, pfiles, lost>>
    BY <1>10 DEF FinishSetCriteria
  <2>2. cmd.step \notin Halfway
    BY <2>1 DEF Halfway, Copied
  <2>. QED
    BY <2>1, <2>2, NamesSettled, FilesSettled, ExitAgrees DEF AgreeInv
<1>11. ASSUME NEW n \in ManifestNames, SetDefaultManifest(n)
       PROVE  AgreeInv'
  <2>1. /\ cmd = Idle /\ dflt' \in mfiles
        /\ UNCHANGED <<db, mfiles, pfiles, cmd, pend, lost>>
    BY <1>11 DEF SetDefaultManifest
  <2>2. cmd.step = "" /\ pend = <<>>
    BY <2>1, IdleAgrees
  <2>3. NamesAgree' /\ FilesAgree'
    BY <2>1 DEF AgreeInv, NamesAgree, NameHalfway, FilesAgree, FileHalfway, ManNames
  <2>. QED
    BY <2>1, <2>2, <2>3 DEF AgreeInv
<1>. QED
  BY <1>1, <1>2, <1>3, <1>4, <1>5, <1>6, <1>7, <1>8, <1>9, <1>10, <1>11 DEF ManifestNext

LEMMA ProfileStepAgrees ==
    ASSUME AgreeInv, ProfileNext
    PROVE  AgreeInv'
<1>1. ASSUME DbRun \/ DbFails \/ WaitTimesOut \/ FinishSetCriteria
      PROVE  AgreeInv'
  BY <1>1, ManifestStepAgrees DEF ManifestNext
<1>2. ASSUME NEW p \in PNames, NEW crit \in PCrits, StartSetProfileCriteria(p, crit)
      PROVE  AgreeInv'
  <2>. DEFINE c == [Idle EXCEPT !.op = "set", !.name = p]
              req == [op |-> "update_profile", name |-> p, crit |-> crit]
  <2>1. IsCmd(c) /\ req.op = "update_profile"
    BY DEF IsCmd, Idle
  <2>2. Put(c, "update", req) /\ cmd = Idle /\ UNCHANGED <<db, mfiles, dflt, pfiles, lost>>
    BY <1>2 DEF StartSetProfileCriteria
  <2>. HIDE DEF c, req
  <2>3. cmd'.step = "update"
    BY <2>1, <2>2, PutShape
  <2>4. Asked(req)'
    BY <2>1, <2>3 DEF Asked
  <2>. QED
    BY <2>1, <2>2, <2>4, StartAgrees
<1>3. ASSUME NEW names, NEW crit, StartCreateProfiles(names, crit)
      PROVE  AgreeInv'
  <2>1. /\ cmd = Idle /\ cmd'.step = "next" /\ IsCmd(cmd')
        /\ UNCHANGED <<db, mfiles, dflt, pfiles, pend, lost>>
    BY <1>3 DEF StartCreateProfiles, IsCmd, Idle
  <2>2. NamesAgree' /\ FilesAgree' /\ pend' = <<>>
    BY <2>1, IdleAgrees DEF NamesAgree, FilesAgree, Halfway, Copied, ManNames
  <2>. QED
    BY <2>1, <2>2 DEF AgreeInv
<1>4. CASE NextProfile
  <2>1. /\ cmd.step = "next" /\ pend = <<>> /\ IsCmd(cmd)
        /\ UNCHANGED <<db, mfiles, dflt, lost>>
    BY <1>4 DEF NextProfile, AgreeInv
  <2>2. /\ \A n : n \notin lost.m => (n \in ManNames <=> n \in mfiles)
        /\ \A f : f \notin lost.p => (f \in pfiles <=> f \in ProfileFiles(db))
    BY <2>1, NamesSettled, FilesSettled DEF Halfway, Copied
  <2>3. CASE IsNameInTable(Head(cmd.todo))
    <3>1. cmd'.step = "next" /\ IsCmd(cmd') /\ UNCHANGED <<pfiles, pend>>
      BY <1>4, <2>1, <2>3 DEF NextProfile, IsCmd
    <3>2. NamesAgree' /\ FilesAgree'
      BY <2>1, <2>2, <3>1 DEF NamesAgree, FilesAgree, Halfway, Copied, ManNames
    <3>. QED
      BY <2>1, <3>1, <3>2 DEF AgreeInv
  <2>4. CASE ~IsNameInTable(Head(cmd.todo))
    <3>. DEFINE f == CHOOSE g \in FreeFile : \A h \in FreeFile : g <= h
    <3>1. /\ FreeFile # {} /\ pfiles' = pfiles \cup {f}
          /\ Put([cmd EXCEPT !.name = Head(cmd.todo), !.file = f, !.todo = Tail(@)], "pdelete",
                 [op |-> "delete_profile", name |-> Head(cmd.todo), crit |-> cmd.crit])
      BY <1>4, <2>4 DEF NextProfile
    <3>2. f \in FreeFile
      <4>1. FreeFile \subseteq Nat
        BY DEF FreeFile
      <4>2. \E x \in FreeFile : \A y \in FreeFile : x <= y
        BY <3>1, <4>1, LeastNat
      <4>. QED
        BY <4>2
    <3>3. f \notin pfiles
      BY <3>2 DEF FreeFile
    <3>. HIDE DEF f
    <3>. PICK n, c, req :
            /\ n = Head(cmd.todo)
            /\ c = [cmd EXCEPT !.name = Head(cmd.todo), !.file = f, !.todo = Tail(@)]
            /\ req = [op |-> "delete_profile", name |-> Head(cmd.todo), crit |-> cmd.crit]
      OBVIOUS
    <3>4. Put(c, "pdelete", req)
      BY <3>1
    <3>5. IsCmd(c) /\ c.name = n /\ c.file = f /\ req.op = "delete_profile" /\ req.name = n
      BY <2>1 DEF IsCmd
    <3>6. cmd'.step = "pdelete" /\ cmd'.name = n /\ cmd'.file = f
      BY <3>4, <3>5, PutShape
    <3>7. Asked(req)'
      <4>1. ~IsNameInTable(req.name)'
        BY <2>1, <2>4, <3>5 DEF IsNameInTable
      <4>. QED
        BY <3>5, <3>6, <4>1 DEF Asked
    <3>8. FilesAgree'
      BY <2>1, <2>2, <3>1, <3>3, <3>6 DEF FilesAgree, FileHalfway, Halfway, Copied
    <3>. QED
      BY <2>1, <3>4, <3>5, <3>7, <3>8, PutAgrees DEF Waits
  <2>. QED
    BY <2>3, <2>4
<1>5. CASE InsertProfile
  <2>1. /\ cmd.step = "after_pdelete" /\ IsCmd(cmd) /\ UNCHANGED <<db, mfiles, dflt, lost>>
    BY <1>5 DEF InsertProfile, AgreeInv
  <2>2. /\ cmd.file \notin lost.p => cmd.file \in pfiles /\ cmd.file \notin ProfileFiles(db)
        /\ \A f : f \notin lost.p /\ f # cmd.file => (f \in pfiles <=> f \in ProfileFiles(db))
    BY <2>1 DEF AgreeInv, FilesAgree, FileHalfway, Halfway, Copied
  <2>3. CASE cmd.got
    <3>. PICK f, req :
            /\ f = cmd.file
            /\ req = [op |-> "insert_profile",
                      row |-> [name |-> cmd.name, crit |-> cmd.crit, file |-> cmd.file]]
      OBVIOUS
    <3>1. Put(cmd, "pinsert", req) /\ UNCHANGED pfiles
      BY <1>5, <2>3 DEF InsertProfile
    <3>2. req.op = "insert_profile" /\ req.row.file = f /\ IsProfileRow(req.row)
      BY DEF IsProfileRow
    <3>3. cmd'.step = "pinsert" /\ cmd'.file = f
      BY <2>1, <3>1, PutShape
    <3>4. Asked(req)'
      BY <3>2, <3>3 DEF Asked
    <3>5. FilesAgree'
      BY <2>1, <2>2, <3>1, <3>3 DEF FilesAgree, FileHalfway, Halfway, Copied
    <3>6. pend = <<>>
      BY <2>3 DEF AgreeInv
    <3>. QED
      BY <2>1, <3>1, <3>4, <3>5, <3>6, PutAgrees DEF Waits
  <2>4. CASE ~cmd.got
    <3>1. /\ cmd' = [cmd EXCEPT !.step = "next"] /\ pfiles' = pfiles \ {cmd.file}
          /\ UNCHANGED pend
      BY <1>5, <2>4 DEF InsertProfile
    <3>2. IsCmd(cmd') /\ cmd'.step = "next" /\ ~cmd'.got
      BY <2>1, <2>4, <3>1 DEF IsCmd
    <3>3. FilesAgree'
      BY <2>1, <2>2, <3>1, <3>2 DEF FilesAgree, Halfway, Copied
    <3>4. NamesAgree'
      BY <2>1, <3>2, NamesSettled DEF NamesAgree, ManNames
    <3>5. pend = <<>> \/ \E req : pend = <<req>> /\ Late(req)'
      BY <2>1 DEF AgreeInv, Waiting, Waits, Late, IsNameInTable
    <3>6. ~Waiting'
      BY <3>2 DEF Waiting, Waits
    <3>. QED
      BY <2>1, <3>1, <3>2, <3>3, <3>4, <3>5, <3>6 DEF AgreeInv
  <2>. QED
    BY <2>3, <2>4
<1>6. CASE ProfileAdded
  <2>1. /\ cmd.step = "after_pinsert" /\ IsCmd(cmd) /\ UNCHANGED <<db, mfiles, dflt, pend, lost>>
        /\ cmd' = [cmd EXCEPT !.step = "next"]
        /\ pfiles' = IF cmd.got THEN pfiles ELSE pfiles \ {cmd.file}
    BY <1>6 DEF ProfileAdded, AgreeInv
  <2>2. IsCmd(cmd') /\ cmd'.step = "next" /\ cmd'.got = cmd.got
    BY <2>1 DEF IsCmd
  <2>3. /\ cmd.file \notin lost.p =>
              /\ cmd.file \in pfiles
              /\ IF cmd.got THEN cmd.file \in ProfileFiles(db)
                 ELSE cmd.file \notin ProfileFiles(db)
        /\ \A f : f \notin lost.p /\ f # cmd.file => (f \in pfiles <=> f \in ProfileFiles(db))
    BY <2>1 DEF AgreeInv, FilesAgree, FileHalfway, Halfway, Copied
  <2>4. FilesAgree'
    BY <2>1, <2>2, <2>3 DEF FilesAgree, Halfway, Copied
  <2>5. NamesAgree'
    BY <2>1, <2>2, NamesSettled DEF NamesAgree, ManNames
  <2>6. pend = <<>> \/ \E req : pend = <<req>> /\ Late(req)'
    BY <2>1 DEF AgreeInv, Waiting, Waits, Late, IsNameInTable
  <2>7. ~Waiting'
    BY <2>2 DEF Waiting, Waits
  <2>. QED
    BY <2>1, <2>2, <2>4, <2>5, <2>6, <2>7 DEF AgreeInv
<1>7. CASE EndProfiles
  <2>1. cmd.step = "next" /\ Exit /\ UNCHANGED <<db, mfiles, dflt, pfiles, lost>>
    BY <1>7 DEF EndProfiles
  <2>2. cmd.step \notin Halfway
    BY <2>1 DEF Halfway, Copied
  <2>. QED
    BY <2>1, <2>2, NamesSettled, FilesSettled, ExitAgrees DEF AgreeInv
<1>8. ASSUME NEW row \in db.p, StartDeleteProfile(row)
      PROVE  AgreeInv'
  <2>. DEFINE c == [Idle EXCEPT !.op = "delete_profile", !.file = row.file]
              req == [op |-> "delete_row", row |-> row]
  <2>1. IsCmd(c) /\ c.file = row.file /\ req.op = "delete_row" /\ req.row = row
    BY DEF IsCmd, Idle
  <2>2. Put(c, "prow", req) /\ cmd = Idle /\ UNCHANGED <<db, mfiles, dflt, pfiles, lost>>
    BY <1>8 DEF StartDeleteProfile
  <2>. HIDE DEF c, req
  <2>3. cmd'.step = "prow" /\ cmd'.file = row.file
    BY <2>1, <2>2, PutShape
  <2>4. Asked(req)'
    BY <2>1, <2>2, <2>3 DEF Asked
  <2>. QED
    BY <2>1, <2>2, <2>4, StartAgrees
<1>9. CASE FinishDeleteProfile
  <2>1. /\ cmd.step = "after_prow" /\ Exit /\ UNCHANGED <<db, mfiles, dflt, lost>>
        /\ pfiles' = IF cmd.got THEN pfiles \ {cmd.file} ELSE pfiles
    BY <1>9 DEF FinishDeleteProfile
  <2>2. /\ cmd.file \notin lost.p =>
              IF cmd.got THEN cmd.file \notin ProfileFiles(db)
              ELSE cmd.file \in pfiles <=> cmd.file \in ProfileFiles(db)
        /\ \A f : f \notin lost.p /\ f # cmd.file => (f \in pfiles <=> f \in ProfileFiles(db))
    BY <2>1 DEF AgreeInv, FilesAgree, FileHalfway, Halfway, Copied
  <2>3. \A f : f \notin lost.p => (f \in pfiles' <=> f \in ProfileFiles(db))
    BY <2>1, <2>2
  <2>. QED
    BY <2>1, <2>3, NamesSettled, ExitAgrees DEF AgreeInv
<1>. QED
  BY <1>1, <1>2, <1>3, <1>4, <1>5, <1>6, <1>7, <1>8, <1>9 DEF ProfileNext

LEMMA AgreeInvInitially == StoreInit => AgreeInv
<1>. SUFFICES ASSUME StoreInit
              PROVE  AgreeInv
  OBVIOUS
<1>. DEFINE first == [name |-> Original, inst |-> 0, crit |-> NoCriteria]
<1>1. db = [m |-> {first}, p |-> {}] /\ mfiles = {Original} /\ dflt = Original /\ pfiles = {}
  BY DEF StoreInit
<1>2. IsCmd(cmd) /\ cmd.step = "" /\ pend = <<>> /\ lost = [m |-> {}, p |-> {}]
  BY DEF StoreInit, Idle, IsCmd
<1>3. IsManifestRow(first) /\ first.name = Original
  BY DEF IsManifestRow
<1>. HIDE DEF first
<1>4. db.m = {first} /\ db.p = {} /\ db = [m |-> db.m, p |-> db.p]
  BY <1>1
<1>5. Tables(db) /\ Unshared(db, lost.p)
  BY <1>3, <1>4 DEF Tables, Unshared
<1>6. NamesAgree
  BY <1>1, <1>2, <1>3, <1>4 DEF ManNames, NamesAgree
<1>7. FilesAgree
  BY <1>1, <1>2, <1>4 DEF ProfileFiles, FilesAgree, Halfway, Copied
<1>8. lost = [m |-> lost.m, p |-> lost.p]
  BY <1>2
<1>. QED
  BY <1>1, <1>2, <1>5, <1>6, <1>7, <1>8 DEF AgreeInv

LEMMA AgreeInvInductive == AgreeInv /\ [ManifestNext \/ ProfileNext]_storeVars => AgreeInv'
<1>. SUFFICES ASSUME AgreeInv, UNCHANGED storeVars
              PROVE  AgreeInv'
  BY ManifestStepAgrees, ProfileStepAgrees
<1>1. NamesAgree' /\ FilesAgree'
  BY DEF storeVars, AgreeInv, NamesAgree, NameHalfway, FilesAgree, FileHalfway, ManNames
<1>2. pend' = <<>> \/ \E req : pend' = <<req>> /\ (IF Waiting THEN Asked(req) ELSE Late(req))'
  <2>1. pend' = pend /\ cmd' = cmd /\ db' = db /\ lost' = lost
    BY DEF storeVars
  <2>2. pend = <<>> \/ \E req : pend = <<req>> /\ (IF Waiting THEN Asked(req) ELSE Late(req))
    BY DEF AgreeInv
  <2>3. Waiting' <=> Waiting
    BY <2>1 DEF Waiting
  <2>4. ASSUME NEW req
        PROVE  (Asked(req)' <=> Asked(req)) /\ (Late(req)' <=> Late(req))
    BY <2>1 DEF Asked, Late, IsNameInTable
  <2>. QED
    BY <2>1, <2>2, <2>3, <2>4
<1>. QED
  BY <1>1, <1>2 DEF storeVars, AgreeInv

LEMMA InvAgrees == AgreeInv => StoreAgrees
<1>. SUFFICES ASSUME AgreeInv, cmd = Idle
              PROVE  /\ ManNames \ lost.m = mfiles \ lost.m
                     /\ pfiles \ lost.p = {r.file : r \in db.p} \ lost.p
                     /\ \A r, s \in db.p : r.file = s.file => r = s \/ r.file \in lost.p
  BY DEF AgreeInv, StoreAgrees
<1>1. ManNames \ lost.m = mfiles \ lost.m
  BY IdleAgrees
<1>2. pfiles \ lost.p = ProfileFiles(db) \ lost.p
  BY IdleAgrees
<1>. QED
  BY <1>1, <1>2 DEF AgreeInv, Unshared, ProfileFiles

(* Between commands the tables and the files of the manifests and profiles *)
(* agree, but for the names and files whose request failed without notice  *)
(* or was given up, and the default manifest is always there               *)
(* (publish_manifest.py, delete_manifest.py, create_profile.py,            *)
(* delete_profile.py).                                                     *)
THEOREM StoreAgreesHolds == StoreSpec => []StoreAgrees
BY AgreeInvInitially, AgreeInvInductive, InvAgrees, PTL DEF StoreSpec

-----------------------------------------------------------------------------
(***************************************************************************)
(* AimdnsDaemon, for any number of services, ports and processes, whatever *)
(* errors, crashes, commands and methods come at whatever time.            *)
(***************************************************************************)

Stages == {"unborn", "start", "store", "register", "arm", "loop", "gone"}
Statuses == {"absent", "on", "off"}
AnyPort == MdnsPorts \cup {0}
Records == [name : MdnsServices, port : AnyPort]
Configured == [status : Statuses, port : AnyPort]
Processes == [pc : Stages, sdrefs : SUBSET Records, known : SUBSET MdnsServices]

AimdnsTypeOK ==
    /\ conf \in [MdnsServices -> Configured]
    /\ proc \in [Pids -> Processes]
    /\ pidfile \in Pids \cup {0}
    /\ hup \subseteq Pids
    /\ smf \in {"online", "disabled"}
    /\ unseen \subseteq MdnsServices
    /\ ended \in {"no", "killed", "error"}
    /\ crossed \in BOOLEAN

\* There is one daemon at most; the pid file names it from the moment it has
\* stored its pid; when there is none although the server is online, one was
\* killed or ended with an error, and in that case left no pid file.
Daemons ==
    ~crossed =>
        /\ \A p, q \in Pids : Alive(p) /\ Alive(q) => p = q
        /\ \A p \in Pids : proc[p].pc \in {"register", "arm", "loop"} => pidfile = p
        /\ smf = "online" /\ ended = "no" /\ Unborn # {} => \E p \in Pids : Alive(p)
        /\ ended = "error" /\ (\A p \in Pids : ~Alive(p)) => pidfile = 0

\* What the daemon of the pid file advertises, once it has registered: its
\* records are of services it remembers, and out of date only for services that
\* it has not found off since they were; what it lacks a signal will bring.
Advertised ==
    \A p \in Pids : p = pidfile /\ proc[p].pc \in {"arm", "loop"} =>
        /\ \A r \in proc[p].sdrefs :
              /\ r.name \in proc[p].known
              /\ r.name \in unseen \/ (conf[r.name].status = "on" /\ r.port = conf[r.name].port)
        /\ \A s \in MdnsServices :
              conf[s].status = "on" => p \in hup \/ \E r \in proc[p].sdrefs : r.name = s

\* The inductive invariant.
AimdnsInv == AimdnsTypeOK /\ Daemons /\ Advertised

--------------------------------------------------------------------------------
(* What is registered                                                       *)

LEMMA AimdnsInitial == ASSUME AimdnsInit PROVE AimdnsInv
BY AimdnsAssumption
   DEF AimdnsInit, AimdnsInv, AimdnsTypeOK, Daemons, Advertised, NoFile, Configured, Processes,
       NotStarted, Stages, Statuses, AnyPort, Alive

\* What registering a set of services leaves behind.
LEMMA RegisteredServices ==
    ASSUME AimdnsTypeOK, NEW new \in SUBSET MdnsServices,
           NEW r
    PROVE  r \in UNION {RegisterAService(s) : s \in new} <=>
               \E s \in new : /\ conf[s].status = "on"
                              /\ r = [name |-> s, port |-> conf[s].port]
BY DEF RegisterAService

LEMMA RegisteredType ==
    ASSUME AimdnsTypeOK, NEW new \in SUBSET MdnsServices
    PROVE  UNION {RegisterAService(s) : s \in new} \subseteq Records
<1>1. \A s \in new : [name |-> s, port |-> conf[s].port] \in Records
  BY DEF AimdnsTypeOK, Records, Configured
<1>2. QED
  BY <1>1 DEF RegisterAService

\* What register_all() has registered is what is enabled, at its port.
LEMMA RegisterAllRegisters ==
    ASSUME AimdnsTypeOK, NEW p \in Pids, RegisterAll(p)
    PROVE  /\ proc'[p] \in Processes /\ proc'[p].pc = "arm"
           /\ \A q \in Pids : q # p => proc'[q] = proc[q]
           /\ \A r \in proc'[p].sdrefs :
                 /\ r.name \in proc'[p].known
                 /\ conf[r.name].status = "on" /\ r.port = conf[r.name].port
           /\ \A s \in MdnsServices :
                 conf[s].status = "on" => \E r \in proc'[p].sdrefs : r.name = s
<1> DEFINE refs == UNION {RegisterAService(s) : s \in ServiceNames}
<1>1. proc' = [proc EXCEPT ![p] =
                    [pc |-> "arm", known |-> ServiceNames, sdrefs |-> refs]]
  BY DEF RegisterAll
<1>2. ServiceNames \in SUBSET MdnsServices
  BY DEF ServiceNames
<1>3. /\ refs \subseteq Records
      /\ \A r : r \in refs <=>
            \E s \in ServiceNames : conf[s].status = "on"
                                    /\ r = [name |-> s, port |-> conf[s].port]
  BY <1>2, RegisteredServices, RegisteredType
<1> HIDE DEF refs
<1>4. /\ proc'[p] = [pc |-> "arm", known |-> ServiceNames, sdrefs |-> refs]
      /\ \A q \in Pids : q # p => proc'[q] = proc[q]
  BY <1>1 DEF AimdnsTypeOK
<1>5. \A s \in MdnsServices : conf[s].status = "on" => s \in ServiceNames
  BY DEF ServiceNames
<1>6. ASSUME NEW s \in MdnsServices, conf[s].status = "on"
      PROVE  \E r \in refs : r.name = s
  <2>1. [name |-> s, port |-> conf[s].port] \in refs
    BY <1>3, <1>5, <1>6
  <2>2. QED
    BY <2>1
<1>7. \A r \in refs : /\ r.name \in ServiceNames /\ conf[r.name].status = "on"
                      /\ r.port = conf[r.name].port
  BY <1>3
<1>8. proc'[p] \in Processes
  BY <1>2, <1>3, <1>4 DEF Processes, Stages
<1>9. QED
  BY <1>4, <1>6, <1>7, <1>8

\* What the handler of SIGHUP leaves registered is what is enabled, at its port
\* or at the one of the record that was kept.
LEMMA SignalHupRegisters ==
    ASSUME AimdnsTypeOK, NEW p \in Pids
    PROVE  /\ SignalHup(p) \in Processes /\ SignalHup(p).pc = "loop"
           /\ (\A r \in proc[p].sdrefs : r.name \in proc[p].known) =>
                 \A r \in SignalHup(p).sdrefs :
                    /\ r.name \in SignalHup(p).known
                    /\ conf[r.name].status = "on"
                    /\ r \in proc[p].sdrefs \/ r.port = conf[r.name].port
           /\ \A s \in MdnsServices :
                 conf[s].status = "on" => \E r \in SignalHup(p).sdrefs : r.name = s
<1> DEFINE known == proc[p].known
           refs == proc[p].sdrefs
           new == {s \in ServiceNames : s \notin known \/ s \notin Registered(p)}
           added == UNION {RegisterAService(s) : s \in new}
           after == refs \cup added
           drop == {s \in known : \/ s \notin ServiceNames
                                  \/ /\ s \in {r.name : r \in after}
                                     /\ conf[s].status = "off"}
           kept == {r \in after : r.name \notin drop}
<1>1. SignalHup(p) = [pc |-> "loop", known |-> ServiceNames, sdrefs |-> kept]
  BY Zenon DEF SignalHup
<1>2. /\ ServiceNames \subseteq MdnsServices
      /\ new \in SUBSET MdnsServices /\ refs \subseteq Records
  BY DEF AimdnsTypeOK, ServiceNames, Processes
<1>3. /\ added \subseteq Records
      /\ \A r : r \in added <=> \E s \in new : conf[s].status = "on"
                                /\ r = [name |-> s, port |-> conf[s].port]
  <2> HIDE DEF new
  <2>1. QED
    BY <1>2, RegisteredServices, RegisteredType
<1> HIDE DEF added
<1>4. \A s \in MdnsServices : /\ conf[s].status \in {"absent", "on", "off"}
                              /\ s \in ServiceNames <=> conf[s].status # "absent"
  BY DEF AimdnsTypeOK, ServiceNames, Statuses, Configured
<1>5. ASSUME NEW r \in kept, \A x \in refs : x.name \in known
      PROVE  /\ r.name \in ServiceNames /\ conf[r.name].status = "on"
             /\ r \in refs \/ r.port = conf[r.name].port
  <2>1. r \in after /\ r.name \notin drop /\ r.name \in MdnsServices
    BY <1>2, <1>3 DEF Records
  <2>2. CASE r \in refs
    <3>1. r.name \in known
      BY <1>5, <2>2
    <3>2. r.name \in ServiceNames /\ conf[r.name].status # "off"
      BY <2>1, <3>1
    <3>3. QED
      BY <1>4, <2>1, <2>2, <3>2
  <2>3. CASE r \notin refs
    BY <1>3, <2>1, <2>3
  <2>4. QED
    BY <2>2, <2>3
<1>6. ASSUME NEW s \in MdnsServices, conf[s].status = "on"
      PROVE  \E r \in kept : r.name = s
  <2>1. s \in ServiceNames /\ s \notin drop
    BY <1>4, <1>6
  <2>2. CASE s \in Registered(p)
    <3>1. PICK r \in refs : r.name = s
      BY <2>2 DEF Registered
    <3>2. r \in kept
      BY <2>1, <3>1
    <3>3. QED
      BY <3>1, <3>2
  <2>3. CASE s \notin Registered(p)
    <3>1. [name |-> s, port |-> conf[s].port] \in added
      BY <1>3, <1>6, <2>1, <2>3
    <3>2. [name |-> s, port |-> conf[s].port] \in kept
      BY <2>1, <3>1
    <3>3. QED
      BY <3>2
  <2>4. QED
    BY <2>2, <2>3
<1>7. kept \subseteq Records
  BY <1>2, <1>3
<1> HIDE DEF kept
<1>8. SignalHup(p) \in Processes
  BY <1>1, <1>2, <1>7 DEF Processes, Stages
<1>9. QED
  BY <1>1, <1>5, <1>6, <1>8

--------------------------------------------------------------------------------
(* What the steps do to the processes                                       *)

LEMMA SpawnStarts ==
    ASSUME AimdnsTypeOK, Spawn
    PROVE  /\ proc' \in [Pids -> Processes] /\ crossed' \in BOOLEAN
           /\ \/ Unborn = {} /\ proc' = proc
              \/ \E c \in Unborn : /\ proc'[c].pc = "start"
                                   /\ \A p \in Pids : p # c => proc'[p] = proc[p]
           /\ ~crossed' => Live = {} \/ (~crossed /\ Unnamed = {})
<1>1. CASE Unborn = {}
  BY <1>1 DEF Spawn, AimdnsTypeOK
<1>2. CASE Unborn # {}
  <2> DEFINE c == CHOOSE p \in Unborn : TRUE
  <2>1. c \in Unborn /\ c \in Pids
    BY <1>2 DEF Unborn
  <2>2. proc' = [proc EXCEPT ![c].pc = "start"]
    BY <1>2 DEF Spawn
  <2> HIDE DEF c
  <2>3. /\ proc' \in [Pids -> Processes] /\ proc'[c].pc = "start"
        /\ \A p \in Pids : p # c => proc'[p] = proc[p]
    BY <2>1, <2>2 DEF AimdnsTypeOK, Processes, Stages
  <2>4. QED
    BY <1>2, <2>1, <2>3 DEF Spawn, AimdnsTypeOK
<1>3. QED
  BY <1>1, <1>2

LEMMA ExitsLeaves ==
    ASSUME AimdnsTypeOK, NEW p \in Pids, Exits(p)
    PROVE  /\ proc' \in [Pids -> Processes] /\ proc'[p].pc = "gone"
           /\ \A q \in Pids : q # p => proc'[q] = proc[q]
           /\ pidfile' = 0 /\ hup' \subseteq Pids
BY DEF Exits, AimdnsTypeOK, Gone, Processes, Stages

LEMMA DiesLeaves ==
    ASSUME AimdnsTypeOK, NEW p \in Pids, Dies(p)
    PROVE  /\ proc' \in [Pids -> Processes] /\ proc'[p].pc = "gone"
           /\ \A q \in Pids : q # p => proc'[q] = proc[q]
           /\ hup' \subseteq Pids /\ \A q \in hup : q = p \/ q \in hup'
           /\ ended' = "killed"
           /\ UNCHANGED <<conf, pidfile, smf, unseen, crossed>>
BY DEF Dies, AimdnsTypeOK, Gone, Processes, Stages

--------------------------------------------------------------------------------
(* Types                                                                    *)

LEMMA RefreshTypes ==
    ASSUME AimdnsTypeOK, MethodRefreshDo
    PROVE  /\ proc' \in [Pids -> Processes] /\ crossed' \in BOOLEAN
           /\ hup' \subseteq Pids /\ ended' \in {"no", "killed", "error"}
           /\ UNCHANGED <<pidfile, smf>>
<1>1. CASE pidfile # 0
  BY <1>1 DEF MethodRefreshDo, AimdnsTypeOK, Live
<1>2. CASE pidfile = 0
  BY <1>2, SpawnStarts DEF MethodRefreshDo, AimdnsTypeOK
<1>3. QED
  BY <1>1, <1>2

LEMMA AimdnsTypes ==
    ASSUME AimdnsTypeOK, [AimdnsNext]_mdnsVars
    PROVE  AimdnsTypeOK'
<1>1. CASE UNCHANGED mdnsVars
  BY <1>1 DEF mdnsVars, AimdnsTypeOK
<1>2. ASSUME NEW p \in Pids, DaemonStep(p)
      PROVE  AimdnsTypeOK'
  <2>1. CASE StorePidCheck(p)
    <3>1. CASE Exits(p) /\ UNCHANGED <<conf, smf, unseen, ended, crossed>>
      BY <3>1, ExitsLeaves DEF AimdnsTypeOK
    <3>2. CASE /\ proc' = [proc EXCEPT ![p].pc = "store"]
               /\ UNCHANGED <<pidfile, hup, conf, smf, unseen, ended, crossed>>
      BY <3>2 DEF AimdnsTypeOK, Processes, Stages
    <3>3. QED
      BY <2>1, <3>1, <3>2 DEF StorePidCheck
  <2>2. CASE StorePidWrite(p)
    BY <2>2 DEF StorePidWrite, AimdnsTypeOK, Processes, Stages
  <2>3. CASE RegisterAll(p)
    <3>1. proc' \in [Pids -> Processes]
      <4>1. proc' = [proc EXCEPT ![p] = proc'[p]] /\ proc'[p] \in Processes
        BY <2>3, RegisterAllRegisters DEF RegisterAll, AimdnsTypeOK
      <4>2. QED
        BY <4>1 DEF AimdnsTypeOK
    <3>2. QED
      BY <2>3, <3>1 DEF RegisterAll, AimdnsTypeOK
  <2>4. CASE RegisterFails(p)
    BY <2>4, ExitsLeaves DEF RegisterFails, AimdnsTypeOK
  <2>5. CASE InstallHandler(p)
    BY <2>5 DEF InstallHandler, AimdnsTypeOK, Processes, Stages
  <2>6. CASE TakeHup(p)
    <3>1. CASE Dies(p)
      BY <3>1, DiesLeaves DEF AimdnsTypeOK
    <3>2. CASE ~Dies(p)
      BY <2>6, <3>2, SignalHupRegisters DEF TakeHup, StillOn, AimdnsTypeOK
    <3>3. QED
      BY <3>1, <3>2
  <2>7. CASE Crash(p)
    BY <2>7, DiesLeaves DEF Crash, AimdnsTypeOK
  <2>8. QED
    BY <1>2, <2>1, <2>2, <2>3, <2>4, <2>5, <2>6, <2>7 DEF DaemonStep
<1>3. CASE MethodStart
  <2>1. CASE Spawn
    BY <1>3, <2>1, SpawnStarts DEF MethodStart, AimdnsTypeOK
  <2>2. CASE ~Spawn
    BY <1>3, <2>2 DEF MethodStart, AimdnsTypeOK
  <2>3. QED
    BY <2>1, <2>2
<1>4. CASE MethodStop
  <2>1. CASE pidfile # 0 /\ Alive(pidfile)
    BY <1>4, <2>1, ExitsLeaves DEF MethodStop, AimdnsTypeOK
  <2>2. CASE ~(pidfile # 0 /\ Alive(pidfile))
    BY <1>4, <2>2 DEF MethodStop, AimdnsTypeOK
  <2>3. QED
    BY <2>1, <2>2
<1>5. CASE MethodRefresh
  BY <1>5, RefreshTypes DEF MethodRefresh, AimdnsTypeOK
<1>6. ASSUME NEW s \in MdnsServices, NEW port \in MdnsPorts, RegisterService(s, port)
      PROVE  AimdnsTypeOK'
  <2>1. conf' \in [MdnsServices -> Configured]
    BY <1>6 DEF RegisterService, AimdnsTypeOK, Configured, Statuses, AnyPort
  <2>2. QED
    BY <1>6, <2>1, RefreshTypes DEF RegisterService, AimdnsTypeOK
<1>7. ASSUME NEW s \in MdnsServices, NEW found \in BOOLEAN, DisableService(s, found)
      PROVE  AimdnsTypeOK'
  <2>1. conf' \in [MdnsServices -> Configured] /\ unseen' \subseteq MdnsServices
    BY <1>7 DEF DisableService, AimdnsTypeOK, Configured, Statuses
  <2>2. CASE MethodRefreshDo
    BY <2>1, <2>2, RefreshTypes DEF AimdnsTypeOK
  <2>3. CASE ~MethodRefreshDo
    BY <1>7, <2>1, <2>3 DEF DisableService, AimdnsTypeOK
  <2>4. QED
    BY <2>2, <2>3
<1>8. ASSUME NEW s \in MdnsServices, DeleteFiles(s)
      PROVE  AimdnsTypeOK'
  BY <1>8 DEF DeleteFiles, AimdnsTypeOK, NoFile, Configured, Statuses, AnyPort
<1>9. QED
  BY <1>1, <1>2, <1>3, <1>4, <1>5, <1>6, <1>7, <1>8 DEF AimdnsNext

--------------------------------------------------------------------------------
(* One daemon                                                               *)

\* No daemon runs that a pid file that names nobody, or somebody who has gone,
\* leaves out, but one that starts.
LEMMA SpawnKeepsOne ==
    ASSUME AimdnsTypeOK, Daemons, Spawn, ~(pidfile # 0 /\ Alive(pidfile)),
           UNCHANGED pidfile, ended' # "error"
    PROVE  Daemons'
<1> SUFFICES ASSUME ~crossed'
             PROVE  /\ \A p, q \in Pids : Alive(p)' /\ Alive(q)' => p = q
                    /\ \A p \in Pids : proc'[p].pc \in {"register", "arm", "loop"} => pidfile' = p
                    /\ Unborn' # {} => \E p \in Pids : Alive(p)'
                    /\ ended' = "error" /\ (\A p \in Pids : ~Alive(p)') => pidfile' = 0
  BY DEF Daemons
<1>1. Live = {} \/ (~crossed /\ Unnamed = {})
  BY SpawnStarts
<1>2. \A p \in Pids : ~Alive(p)
  <2>1. CASE Live = {}
    BY <2>1 DEF Live
  <2>2. CASE ~crossed /\ Unnamed = {}
    BY <2>2, AimdnsAssumption DEF Daemons, Unnamed, Alive
  <2>3. QED
    BY <1>1, <2>1, <2>2
<1>3. CASE Unborn = {} /\ proc' = proc
  BY <1>2, <1>3 DEF Alive, Unborn, Daemons
<1>4. CASE \E c \in Unborn : /\ proc'[c].pc = "start"
                             /\ \A p \in Pids : p # c => proc'[p] = proc[p]
  BY <1>2, <1>4 DEF Alive, Unborn, Daemons
<1>5. QED
  BY <1>3, <1>4, SpawnStarts

LEMMA RefreshKeepsOne ==
    ASSUME AimdnsTypeOK, Daemons, MethodRefreshDo
    PROVE  Daemons'
<1>1. ended' # "error" /\ UNCHANGED <<pidfile, smf>>
  BY DEF MethodRefreshDo, AimdnsTypeOK
<1>2. CASE pidfile # 0
  BY <1>1, <1>2 DEF MethodRefreshDo, Daemons, Alive, Unborn, AimdnsTypeOK
<1>3. CASE pidfile = 0
  BY <1>1, <1>3, SpawnKeepsOne DEF MethodRefreshDo
<1>4. QED
  BY <1>2, <1>3

LEMMA DaemonsInductive ==
    ASSUME AimdnsTypeOK, Daemons, [AimdnsNext]_mdnsVars
    PROVE  Daemons'
<1>1. CASE UNCHANGED mdnsVars
  BY <1>1 DEF mdnsVars, Daemons, Alive, Unborn
<1>2. ASSUME NEW p \in Pids, DaemonStep(p)
      PROVE  Daemons'
  <2>1. CASE StorePidCheck(p)
    <3>1. Alive(p)
      BY <2>1 DEF StorePidCheck, Alive
    <3>2. CASE pidfile # 0 /\ pidfile # p /\ Alive(pidfile)
      <4>1. pidfile \in Pids /\ crossed' = crossed
        BY <2>1, <3>2 DEF AimdnsTypeOK, StorePidCheck
      <4>2. QED
        BY <3>1, <3>2, <4>1 DEF Daemons
    <3>3. CASE ~(pidfile # 0 /\ pidfile # p /\ Alive(pidfile))
      <4>1. /\ proc' = [proc EXCEPT ![p].pc = "store"] /\ proc[p].pc = "start"
            /\ UNCHANGED <<pidfile, smf, ended, crossed>>
        BY <2>1, <3>3 DEF StorePidCheck
      <4>2. proc'[p].pc = "store" /\ \A q \in Pids : q # p => proc'[q] = proc[q]
        BY <4>1 DEF AimdnsTypeOK, Processes
      <4>3. QED
        BY <4>1, <4>2 DEF Daemons, Alive, Unborn
    <3>4. QED
      BY <3>2, <3>3
  <2>2. CASE StorePidWrite(p)
    <3>1. /\ proc' = [proc EXCEPT ![p].pc = "register"] /\ proc[p].pc = "store" /\ pidfile' = p
          /\ UNCHANGED <<smf, ended, crossed>>
      BY <2>2 DEF StorePidWrite
    <3>2. proc'[p].pc = "register" /\ \A q \in Pids : q # p => proc'[q] = proc[q]
      BY <3>1 DEF AimdnsTypeOK, Processes
    <3>3. QED
      BY <3>1, <3>2 DEF Daemons, Alive, Unborn
  <2>3. CASE RegisterAll(p)
    <3>1. proc[p].pc = "register" /\ UNCHANGED <<pidfile, smf, ended, crossed>>
      BY <2>3 DEF RegisterAll
    <3>2. proc'[p].pc = "arm" /\ \A q \in Pids : q # p => proc'[q] = proc[q]
      BY <2>3, RegisterAllRegisters
    <3>3. QED
      BY <3>1, <3>2 DEF Daemons, Alive, Unborn
  <2>4. CASE RegisterFails(p)
    <3>1. /\ Alive(p) /\ proc'[p].pc = "gone" /\ pidfile' = 0 /\ ended' = "error"
          /\ crossed' = crossed /\ \A q \in Pids : q # p => proc'[q] = proc[q]
      BY <2>4, ExitsLeaves DEF RegisterFails, Alive
    <3>2. QED
      BY <3>1 DEF Daemons, Alive
  <2>5. CASE InstallHandler(p)
    <3>1. /\ proc' = [proc EXCEPT ![p].pc = "loop"] /\ proc[p].pc = "arm"
          /\ UNCHANGED <<pidfile, smf, ended, crossed>>
      BY <2>5 DEF InstallHandler
    <3>2. proc'[p].pc = "loop" /\ \A q \in Pids : q # p => proc'[q] = proc[q]
      BY <3>1 DEF AimdnsTypeOK, Processes
    <3>3. QED
      BY <3>1, <3>2 DEF Daemons, Alive, Unborn
  <2>6. CASE Dies(p)
    <3>1. /\ proc'[p].pc = "gone" /\ \A q \in Pids : q # p => proc'[q] = proc[q]
          /\ ended' = "killed" /\ UNCHANGED <<pidfile, crossed>>
      BY <2>6, DiesLeaves
    <3>2. QED
      BY <3>1 DEF Daemons, Alive
  <2>7. CASE TakeHup(p) /\ ~Dies(p)
    <3>1. /\ proc[p].pc = "loop" /\ proc' = [proc EXCEPT ![p] = SignalHup(p)]
          /\ UNCHANGED <<pidfile, smf, ended, crossed>>
      BY <2>7 DEF TakeHup
    <3>2. proc'[p].pc = "loop" /\ \A q \in Pids : q # p => proc'[q] = proc[q]
      BY <3>1, SignalHupRegisters DEF AimdnsTypeOK
    <3>3. QED
      BY <3>1, <3>2 DEF Daemons, Alive, Unborn
  <2>8. QED
    BY <1>2, <2>1, <2>2, <2>3, <2>4, <2>5, <2>6, <2>7 DEF DaemonStep, Crash
<1>3. CASE MethodStart
  <2>1. CASE pidfile # 0 /\ Alive(pidfile)
    BY <1>3, <2>1 DEF MethodStart, Daemons, Alive, Unborn, AimdnsTypeOK
  <2>2. CASE ~(pidfile # 0 /\ Alive(pidfile))
    BY <1>3, <2>2, SpawnKeepsOne DEF MethodStart
  <2>3. QED
    BY <2>1, <2>2
<1>4. CASE MethodStop
  <2>1. CASE pidfile # 0 /\ Alive(pidfile)
    <3>1. /\ pidfile \in Pids /\ smf' = "disabled" /\ pidfile' = 0 /\ crossed' = crossed
          /\ proc'[pidfile].pc = "gone" /\ \A q \in Pids : q # pidfile => proc'[q] = proc[q]
      BY <1>4, <2>1, ExitsLeaves DEF MethodStop, AimdnsTypeOK
    <3>2. QED
      BY <2>1, <3>1 DEF Daemons, Alive
  <2>2. CASE ~(pidfile # 0 /\ Alive(pidfile))
    BY <1>4, <2>2 DEF MethodStop, Daemons, Alive, Unborn
  <2>3. QED
    BY <2>1, <2>2
<1>5. CASE MethodRefreshDo
  BY <1>5, RefreshKeepsOne
<1>6. CASE UNCHANGED <<proc, hup, pidfile, smf, ended, crossed>>
  BY <1>6 DEF Daemons, Alive, Unborn
<1>7. QED
  BY <1>1, <1>2, <1>3, <1>4, <1>5, <1>6
     DEF AimdnsNext, MethodRefresh, RegisterService, DisableService, DeleteFiles

--------------------------------------------------------------------------------
(* What is advertised                                                       *)

\* Nothing is asked of a daemon that has not registered yet or has gone, and a
\* spawn touches no other.
LEMMA RefreshTells ==
    ASSUME AimdnsTypeOK, MethodRefreshDo
    PROVE  /\ pidfile' = pidfile
           /\ \A p \in Pids : p = pidfile /\ proc'[p].pc \in {"arm", "loop"} =>
                 proc'[p] = proc[p] /\ p \in hup'
<1>1. CASE pidfile # 0
  BY <1>1 DEF MethodRefreshDo, Live, Alive
<1>2. CASE pidfile = 0
  BY <1>2, AimdnsAssumption DEF MethodRefreshDo
<1>3. QED
  BY <1>1, <1>2

LEMMA AdvertisedInductive ==
    ASSUME AimdnsTypeOK, Advertised, [AimdnsNext]_mdnsVars
    PROVE  Advertised'
<1>1. CASE UNCHANGED mdnsVars
  BY <1>1 DEF mdnsVars, Advertised
<1>2. ASSUME NEW p \in Pids, DaemonStep(p)
      PROVE  Advertised'
  <2>1. CASE StorePidCheck(p)
    <3>1. CASE pidfile' = 0
      BY <3>1, AimdnsAssumption DEF Advertised
    <3>2. CASE pidfile' # 0
      <4>1. /\ proc' = [proc EXCEPT ![p].pc = "store"]
            /\ UNCHANGED <<conf, pidfile, hup, unseen>>
        BY <2>1, <3>2 DEF StorePidCheck, Exits
      <4>2. QED
        BY <4>1 DEF AimdnsTypeOK, Processes, Advertised
    <3>3. QED
      BY <3>1, <3>2
  <2>2. CASE StorePidWrite(p)
    <3>1. pidfile' = p /\ proc'[p].pc = "register"
      BY <2>2 DEF StorePidWrite, AimdnsTypeOK, Processes
    <3>2. QED
      BY <3>1 DEF Advertised
  <2>3. CASE RegisterAll(p)
    <3>1. /\ UNCHANGED <<conf, pidfile, hup>>
          /\ unseen' = IF p = pidfile THEN {} ELSE unseen
      BY <2>3 DEF RegisterAll
    <3>2. /\ \A q \in Pids : q # p => proc'[q] = proc[q]
          /\ \A r \in proc'[p].sdrefs :
                 /\ r.name \in proc'[p].known
                 /\ conf[r.name].status = "on" /\ r.port = conf[r.name].port
          /\ \A s \in MdnsServices :
                 conf[s].status = "on" => \E r \in proc'[p].sdrefs : r.name = s
      BY <2>3, RegisterAllRegisters
    <3>3. QED
      BY <3>1, <3>2 DEF Advertised
  <2>4. CASE RegisterFails(p)
    <3>1. pidfile' = 0
      BY <2>4, ExitsLeaves DEF RegisterFails
    <3>2. QED
      BY <3>1, AimdnsAssumption DEF Advertised
  <2>5. CASE InstallHandler(p)
    <3>1. /\ proc' = [proc EXCEPT ![p].pc = "loop"] /\ proc[p].pc = "arm"
          /\ UNCHANGED <<conf, pidfile, hup, unseen>>
      BY <2>5 DEF InstallHandler
    <3>2. /\ proc'[p].sdrefs = proc[p].sdrefs /\ proc'[p].known = proc[p].known
          /\ \A q \in Pids : q # p => proc'[q] = proc[q]
      BY <3>1 DEF AimdnsTypeOK, Processes
    <3>3. QED
      BY <3>1, <3>2 DEF Advertised
  <2>6. CASE Dies(p)
    <3>1. /\ proc'[p].pc = "gone" /\ \A q \in Pids : q # p => proc'[q] = proc[q]
          /\ \A q \in hup : q = p \/ q \in hup'
          /\ UNCHANGED <<conf, pidfile, unseen>>
      BY <2>6, DiesLeaves
    <3>2. QED
      BY <3>1 DEF Advertised
  <2>7. CASE TakeHup(p) /\ ~Dies(p)
    <3>1. /\ proc[p].pc = "loop" /\ proc' = [proc EXCEPT ![p] = SignalHup(p)]
          /\ UNCHANGED <<conf, pidfile>> /\ hup' = hup \ {p}
          /\ unseen' = IF p = pidfile THEN StillOn ELSE unseen
      BY <2>7 DEF TakeHup
    <3>2. proc'[p] = SignalHup(p) /\ \A q \in Pids : q # p => proc'[q] = proc[q]
      BY <3>1 DEF AimdnsTypeOK
    <3>3. CASE p # pidfile
      BY <3>1, <3>2, <3>3 DEF Advertised
    <3>4. CASE p = pidfile
      <4>1. \A r \in proc[p].sdrefs :
               /\ r.name \in proc[p].known
               /\ r.name \in unseen \/ (conf[r.name].status = "on" /\ r.port = conf[r.name].port)
        BY <3>1, <3>4 DEF Advertised
      <4>2. /\ \A r \in SignalHup(p).sdrefs :
                    /\ r.name \in SignalHup(p).known
                    /\ conf[r.name].status = "on"
                    /\ r \in proc[p].sdrefs \/ r.port = conf[r.name].port
            /\ \A s \in MdnsServices :
                    conf[s].status = "on" => \E r \in SignalHup(p).sdrefs : r.name = s
        BY <4>1, SignalHupRegisters
      <4>3. \A r \in SignalHup(p).sdrefs :
               r.name \in unseen' \/ (conf[r.name].status = "on" /\ r.port = conf[r.name].port)
        BY <3>1, <3>4, <4>1, <4>2 DEF StillOn
      <4>4. QED
        BY <3>1, <3>2, <3>4, <4>2, <4>3 DEF Advertised
    <3>5. QED
      BY <3>3, <3>4
  <2>8. QED
    BY <1>2, <2>1, <2>2, <2>3, <2>4, <2>5, <2>6, <2>7 DEF DaemonStep, Crash
<1>3. CASE MethodStart
  <2>1. UNCHANGED <<conf, pidfile, hup, unseen>>
    BY <1>3 DEF MethodStart
  <2>2. \A p \in Pids : proc'[p] = proc[p] \/ proc'[p].pc = "start"
    BY <1>3, SpawnStarts DEF MethodStart
  <2>3. QED
    BY <2>1, <2>2 DEF Advertised
<1>4. CASE MethodStop
  <2>1. CASE pidfile' = 0
    BY <2>1, AimdnsAssumption DEF Advertised
  <2>2. CASE pidfile' # 0
    <3>1. UNCHANGED <<conf, proc, hup, pidfile, unseen>>
      BY <1>4, <2>2 DEF MethodStop, Exits
    <3>2. QED
      BY <3>1 DEF Advertised
  <2>3. QED
    BY <2>1, <2>2
<1>5. CASE MethodRefresh
  <2>1. UNCHANGED <<conf, unseen>> /\ MethodRefreshDo
    BY <1>5 DEF MethodRefresh
  <2>2. QED
    BY <2>1, RefreshTells DEF Advertised
<1>6. ASSUME NEW s \in MdnsServices, NEW port \in MdnsPorts, RegisterService(s, port)
      PROVE  Advertised'
  <2>1. MethodRefreshDo /\ conf[s].status # "on" /\ UNCHANGED unseen
    BY <1>6 DEF RegisterService
  <2>2. \A t \in MdnsServices : t # s => conf'[t] = conf[t]
    BY <1>6 DEF RegisterService, AimdnsTypeOK
  <2>3. \A p \in Pids : \A r \in proc[p].sdrefs : r.name \in MdnsServices
    BY DEF AimdnsTypeOK, Processes, Records
  <2>4. QED
    BY <2>1, <2>2, <2>3, RefreshTells DEF Advertised
<1>7. ASSUME NEW s \in MdnsServices, NEW found \in BOOLEAN, DisableService(s, found)
      PROVE  Advertised'
  <2>1. unseen' = unseen \cup {s}
    BY <1>7 DEF DisableService
  <2>2. conf'[s].status = "off" /\ \A t \in MdnsServices : t # s => conf'[t] = conf[t]
    BY <1>7 DEF DisableService, AimdnsTypeOK, Configured
  <2>3. \A p \in Pids : \A r \in proc[p].sdrefs : r.name \in MdnsServices
    BY DEF AimdnsTypeOK, Processes, Records
  <2>4. CASE MethodRefreshDo
    BY <2>1, <2>2, <2>3, <2>4, RefreshTells DEF Advertised
  <2>5. CASE UNCHANGED <<proc, hup, pidfile>>
    BY <2>1, <2>2, <2>3, <2>5 DEF Advertised
  <2>6. QED
    BY <1>7, <2>4, <2>5 DEF DisableService
<1>8. ASSUME NEW s \in MdnsServices, DeleteFiles(s)
      PROVE  Advertised'
  <2>1. /\ conf[s].status = "off" /\ UNCHANGED <<proc, hup, pidfile, unseen>>
        /\ conf'[s].status = "absent" /\ \A t \in MdnsServices : t # s => conf'[t] = conf[t]
    BY <1>8 DEF DeleteFiles, AimdnsTypeOK, NoFile
  <2>2. \A p \in Pids : \A r \in proc[p].sdrefs : r.name \in MdnsServices
    BY DEF AimdnsTypeOK, Processes, Records
  <2>3. QED
    BY <2>1, <2>2 DEF Advertised
<1>9. QED
  BY <1>1, <1>2, <1>3, <1>4, <1>5, <1>6, <1>7, <1>8 DEF AimdnsNext

--------------------------------------------------------------------------------
(* The theorems                                                             *)

LEMMA AimdnsInvariant == AimdnsSpec => []AimdnsInv
<1>1. AimdnsInit => AimdnsInv
  BY AimdnsInitial
<1>2. AimdnsInv /\ [AimdnsNext]_mdnsVars => AimdnsInv'
  BY AimdnsTypes, DaemonsInductive, AdvertisedInductive DEF AimdnsInv
<1>3. QED
  BY <1>1, <1>2, PTL DEF AimdnsSpec

\* A second daemon is never started, but while one starts that has not stored
\* its pid, and while the server is online there is one, unless the last was
\* killed or ended with an error that nothing has told the server of since: for
\* any services and processes, and however commands, methods, crashes and
\* registration errors follow each other.
THEOREM OneDaemonHolds == AimdnsSpec => []OneDaemon
<1>1. AimdnsInv => OneDaemon
  <2> SUFFICES ASSUME AimdnsInv, ~crossed
               PROVE  /\ \A p, q \in Live : p = q
                      /\ \A p \in Live : p \in Unnamed \/ p = pidfile
                      /\ smf = "online" /\ ended = "no" /\ Unborn # {} => Live # {}
    BY DEF OneDaemon
  <2>1. QED
    BY DEF AimdnsInv, Daemons, Live, Alive, Unnamed
<1>2. QED
  BY <1>1, AimdnsInvariant, PTL

\* When every signal has been taken, the daemon of the pid file advertises
\* exactly the enabled services, each at its port, but for services that were
\* switched off and that it has not found off.
THEOREM AdvertisesEnabledHolds == AimdnsSpec => []AdvertisesEnabled
<1>1. AimdnsInv => AdvertisesEnabled
  <2> SUFFICES ASSUME AimdnsInv, Settled, pidfile \in Live, NEW s \in MdnsServices
               PROVE  LET records == {r \in proc[pidfile].sdrefs : r.name = s}
                      IN  /\ conf[s].status = "on" => records # {}
                          /\ conf[s].status # "on" => records = {} \/ s \in unseen
                          /\ \A r \in records : r.port = conf[s].port \/ s \in unseen
    BY DEF AdvertisesEnabled
  <2>1. pidfile \in Pids /\ proc[pidfile].pc = "loop" /\ pidfile \notin hup
    BY DEF Live, Settled
  <2>2. /\ \A r \in proc[pidfile].sdrefs :
              r.name \in unseen \/ (conf[r.name].status = "on" /\ r.port = conf[r.name].port)
        /\ conf[s].status = "on" => \E r \in proc[pidfile].sdrefs : r.name = s
    BY <2>1 DEF AimdnsInv, Advertised
  <2>3. QED
    BY <2>2
<1>2. QED
  BY <1>1, AimdnsInvariant, PTL

-----------------------------------------------------------------------------
(***************************************************************************)
(* DhcpServer.  The stanzas of a file have subnets of their own and the    *)
(* addresses of a range one subnet, so the ranges of two stanzas are apart. *)
(***************************************************************************)

(* Division by the size of a subnet keeps the order of addresses.          *)
LEMMA DivisionKeepsOrder ==
    ASSUME NEW a \in Nat, NEW b \in Nat, NEW n \in Nat \ {0}, a <= b
    PROVE  a \div n \in Nat /\ a \div n <= b \div n
<1>1. ASSUME NEW x \in Nat
      PROVE  /\ x \div n \in Nat /\ x % n \in 0 .. n - 1
             /\ x = n * (x \div n) + (x % n)
  <2>1. n \in Nat /\ n > 0
    OBVIOUS
  <2>. QED
    BY <2>1
<1>2. a \div n \in Nat /\ b \div n \in Nat
  BY <1>1
<1>3. SUFFICES ASSUME b \div n + 1 <= a \div n
               PROVE  FALSE
  BY <1>2
<1>4. n * (b \div n + 1) <= n * (a \div n)
  <2>1. \A x, y \in Nat : x <= y => n * x <= n * y
    OBVIOUS
  <2>. QED
    BY <1>2, <1>3, <2>1
<1>5. n * (b \div n + 1) = n * (b \div n) + n
  BY <1>2
<1>6. b < n * (b \div n) + n
  BY <1>1, <1>2
<1>7. a >= n * (a \div n)
  BY <1>1, <1>2
<1>8. n * (a \div n) \in Nat /\ n * (b \div n) \in Nat
  BY <1>2
<1>. QED
  BY <1>4, <1>5, <1>6, <1>7, <1>8

----------------------------------------------------------------------------
(* What a file looks like, and what an edit makes of it                     *)

Bootfiles == DhcpBootfiles \cup {"none"}
AddressRange == [net : NetOctets, lo : 0 .. TopOctet, hi : 0 .. TopOctet]
Octets(r) == r.lo .. r.hi
Stanza ==
    [kind : {"subnet"}, subnet : Nat, ranges : SUBSET AddressRange]
    \cup [kind : {"class"}, arch : Archs, bootfile : Bootfiles]
    \cup [kind : {"host"}, mac : DhcpMacs, bootfile : DhcpBootfiles,
          form : {"upper", "lower"}]

(* A range lies in its subnet, and two ranges of one stanza have no last   *)
(* octet in common.                                                        *)
InSubnet(r, subnet) ==
    \A h \in Octets(r) : GetSubnet([net |-> r.net, host |-> h]) = subnet
RangesSound(s) ==
    /\ \A r \in s.ranges : InSubnet(r, s.subnet)
    /\ \A r, q \in s.ranges : r # q => Octets(r) \cap Octets(q) = {}

(* The file has one stanza per subnet and one per client.                  *)
FileSound(f) ==
    /\ f \in Seq(Stanza)
    /\ \A i \in 1 .. Len(f) : f[i].kind = "subnet" => RangesSound(f[i])
    /\ \A i, j \in 1 .. Len(f) :
            f[i].kind = "subnet" /\ f[j].kind = "subnet" /\ f[i].subnet = f[j].subnet => i = j
    /\ \A i, j \in 1 .. Len(f) :
            f[i].kind = "host" /\ f[j].kind = "host" /\ f[i].mac = f[j].mac => i = j

IsServer(d) == d = [configured |-> d.configured, state |-> d.state, file |-> d.file,
                    err |-> d.err]
DhcpInv == IsServer(dhcp) /\ FileSound(dhcp.file)

(* The new file: a stanza more, a range more, another boot file, a host    *)
(* less.                                                                   *)
StanzaAdded(f, g) ==
    \E s \in Stanza :
        /\ g = Append(f, s)
        /\ s.kind = "subnet" =>
                RangesSound(s) /\ \A i \in 1 .. Len(f) : f[i].kind = "subnet" => f[i].subnet # s.subnet
        /\ s.kind = "host" => \A i \in 1 .. Len(f) : f[i].kind = "host" => f[i].mac # s.mac
RangeAdded(f, g) ==
    \E i \in 1 .. Len(f), r \in AddressRange :
        /\ f[i].kind = "subnet"
        /\ g = [f EXCEPT ![i] = [f[i] EXCEPT !.ranges = f[i].ranges \cup {r}]]
        /\ InSubnet(r, f[i].subnet)
        /\ \A q \in f[i].ranges : Octets(r) \cap Octets(q) = {}
BootfileChanged(f, g) ==
    \E i \in 1 .. Len(f), b \in Bootfiles :
        f[i].kind = "class" /\ g = [f EXCEPT ![i] = [f[i] EXCEPT !.bootfile = b]]
HostRemoved(f, g) ==
    \E i \in 1 .. Len(f) : f[i].kind = "host" /\ g = RemoveAt(f, i)
FileEdited(f, g) ==
    g = f \/ StanzaAdded(f, g) \/ RangeAdded(f, g) \/ BootfileChanged(f, g) \/ HostRemoved(f, g)

(* The stanzas of a kind have the fields of that kind.                     *)
LEMMA StanzaShape ==
    ASSUME NEW s \in Stanza
    PROVE  /\ s.kind = "subnet" =>
                s \in [kind : {"subnet"}, subnet : Nat, ranges : SUBSET AddressRange]
           /\ s.kind = "class" => s \in [kind : {"class"}, arch : Archs, bootfile : Bootfiles]
           /\ s.kind = "host" =>
                s \in [kind : {"host"}, mac : DhcpMacs, bootfile : DhcpBootfiles,
                       form : {"upper", "lower"}]
BY DEF Stanza

----------------------------------------------------------------------------
(* Edits keep the file sound                                                *)

LEMMA AddedIsSound ==
    ASSUME NEW f, NEW g, FileSound(f), StanzaAdded(f, g)
    PROVE  FileSound(g)
<1>1. PICK s \in Stanza :
        /\ g = Append(f, s)
        /\ s.kind = "subnet" =>
                RangesSound(s) /\ \A i \in 1 .. Len(f) : f[i].kind = "subnet" => f[i].subnet # s.subnet
        /\ s.kind = "host" => \A i \in 1 .. Len(f) : f[i].kind = "host" => f[i].mac # s.mac
  BY DEF StanzaAdded
<1>2. f \in Seq(Stanza) /\ Len(f) \in Nat
  BY LenProperties DEF FileSound
<1>3. /\ g \in Seq(Stanza) /\ Len(g) = Len(f) + 1 /\ g[Len(f) + 1] = s
      /\ \A i \in 1 .. Len(f) : g[i] = f[i]
  BY <1>1, <1>2, AppendProperties
<1>4. ASSUME NEW i \in 1 .. Len(g)
      PROVE  (i \in 1 .. Len(f) /\ g[i] = f[i]) \/ (i = Len(f) + 1 /\ g[i] = s)
  <2>1. i \in 1 .. Len(f) \/ i = Len(f) + 1
    BY <1>2, <1>3
  <2>. QED
    BY <1>3, <2>1
<1>5. \A i \in 1 .. Len(g) : g[i].kind = "subnet" => RangesSound(g[i])
  BY <1>1, <1>4 DEF FileSound
<1>6. ASSUME NEW i \in 1 .. Len(g), NEW j \in 1 .. Len(g),
             g[i].kind = "subnet", g[j].kind = "subnet", g[i].subnet = g[j].subnet
      PROVE  i = j
  BY <1>1, <1>4, <1>6 DEF FileSound
<1>7. ASSUME NEW i \in 1 .. Len(g), NEW j \in 1 .. Len(g),
             g[i].kind = "host", g[j].kind = "host", g[i].mac = g[j].mac
      PROVE  i = j
  BY <1>1, <1>4, <1>7 DEF FileSound
<1>. QED
  BY <1>3, <1>5, <1>6, <1>7 DEF FileSound

LEMMA WidenedIsSound ==
    ASSUME NEW f, NEW g, FileSound(f), RangeAdded(f, g)
    PROVE  FileSound(g)
<1>1. PICK i \in 1 .. Len(f), r \in AddressRange :
        /\ f[i].kind = "subnet"
        /\ g = [f EXCEPT ![i] = [f[i] EXCEPT !.ranges = f[i].ranges \cup {r}]]
        /\ InSubnet(r, f[i].subnet)
        /\ \A q \in f[i].ranges : Octets(r) \cap Octets(q) = {}
  BY DEF RangeAdded
<1>2. f \in Seq(Stanza) /\ f[i] \in Stanza
  BY ElementOfSeq DEF FileSound
<1>3. f[i] \in [kind : {"subnet"}, subnet : Nat, ranges : SUBSET AddressRange]
  BY <1>1, <1>2, StanzaShape
<1>. DEFINE s == [f[i] EXCEPT !.ranges = f[i].ranges \cup {r}]
<1>4. /\ s \in [kind : {"subnet"}, subnet : Nat, ranges : SUBSET AddressRange]
      /\ s.kind = "subnet" /\ s.subnet = f[i].subnet /\ s.ranges = f[i].ranges \cup {r}
  BY <1>3
<1>5. s \in Stanza
  BY <1>4 DEF Stanza
<1>. HIDE DEF s
<1>6. /\ g \in Seq(Stanza) /\ Len(g) = Len(f)
      /\ \A j \in 1 .. Len(f) : g[j] = IF j = i THEN s ELSE f[j]
  BY <1>1, <1>2, <1>5, ExceptSeq DEF s
<1>7. RangesSound(s)
  BY <1>1, <1>4 DEF RangesSound, FileSound
<1>8. \A j \in 1 .. Len(f) : g[j].kind = f[j].kind
  BY <1>1, <1>4, <1>6
<1>9. \A j \in 1 .. Len(f) : g[j].kind = "subnet" => g[j].subnet = f[j].subnet /\ RangesSound(g[j])
  BY <1>4, <1>6, <1>7, <1>8 DEF FileSound
<1>10. \A j \in 1 .. Len(f) : g[j].kind = "host" => g[j] = f[j]
  BY <1>4, <1>6
<1>. QED
  BY <1>6, <1>8, <1>9, <1>10 DEF FileSound

LEMMA RebootedIsSound ==
    ASSUME NEW f, NEW g, FileSound(f), BootfileChanged(f, g)
    PROVE  FileSound(g)
<1>1. PICK i \in 1 .. Len(f), b \in Bootfiles :
        f[i].kind = "class" /\ g = [f EXCEPT ![i] = [f[i] EXCEPT !.bootfile = b]]
  BY DEF BootfileChanged
<1>2. f \in Seq(Stanza) /\ f[i] \in Stanza
  BY ElementOfSeq DEF FileSound
<1>3. f[i] \in [kind : {"class"}, arch : Archs, bootfile : Bootfiles]
  BY <1>1, <1>2, StanzaShape
<1>. DEFINE s == [f[i] EXCEPT !.bootfile = b]
<1>4. s \in [kind : {"class"}, arch : Archs, bootfile : Bootfiles] /\ s.kind = "class"
  BY <1>3
<1>5. s \in Stanza
  BY <1>4 DEF Stanza
<1>. HIDE DEF s
<1>6. /\ g \in Seq(Stanza) /\ Len(g) = Len(f)
      /\ \A j \in 1 .. Len(f) : g[j] = IF j = i THEN s ELSE f[j]
  BY <1>1, <1>2, <1>5, ExceptSeq DEF s
<1>. QED
  BY <1>1, <1>4, <1>6 DEF FileSound

LEMMA ShortenedIsSound ==
    ASSUME NEW f, NEW g, FileSound(f), HostRemoved(f, g)
    PROVE  FileSound(g)
<1>1. PICK r \in 1 .. Len(f) : g = RemoveAt(f, r)
  BY DEF HostRemoved
<1>2. f \in Seq(Stanza) /\ Len(f) \in Nat
  BY LenProperties DEF FileSound
<1>3. /\ g \in Seq(Stanza) /\ Len(g) = Len(f) - 1
      /\ \A j \in 1 .. Len(f) - 1 : g[j] = IF j < r THEN f[j] ELSE f[j + 1]
  BY <1>1, <1>2, RemovedAt
<1>4. ASSUME NEW i \in 1 .. Len(g), NEW j \in 1 .. Len(g)
      PROVE  \E x, y \in 1 .. Len(f) : g[i] = f[x] /\ g[j] = f[y] /\ (x = y => i = j)
  <2>. DEFINE x == IF i < r THEN i ELSE i + 1
              y == IF j < r THEN j ELSE j + 1
  <2>1. x \in 1 .. Len(f) /\ y \in 1 .. Len(f) /\ (x = y => i = j)
    BY <1>2, <1>3
  <2>2. g[i] = f[x] /\ g[j] = f[y]
    BY <1>3
  <2>. QED
    BY <2>1, <2>2
<1>5. ASSUME NEW i \in 1 .. Len(g), g[i].kind = "subnet"
      PROVE  RangesSound(g[i])
  BY <1>4, <1>5 DEF FileSound
<1>6. ASSUME NEW i \in 1 .. Len(g), NEW j \in 1 .. Len(g)
      PROVE  /\ g[i].kind = "subnet" /\ g[j].kind = "subnet" /\ g[i].subnet = g[j].subnet => i = j
             /\ g[i].kind = "host" /\ g[j].kind = "host" /\ g[i].mac = g[j].mac => i = j
  <2>1. PICK x, y \in 1 .. Len(f) : g[i] = f[x] /\ g[j] = f[y] /\ (x = y => i = j)
    BY <1>4
  <2>. QED
    BY <2>1 DEF FileSound
<1>. QED
  BY <1>3, <1>5, <1>6 DEF FileSound

LEMMA EditedIsSound ==
    ASSUME NEW f, NEW g, FileSound(f), FileEdited(f, g)
    PROVE  FileSound(g)
BY AddedIsSound, WidenedIsSound, RebootedIsSound, ShortenedIsSound DEF FileEdited

----------------------------------------------------------------------------
(* The operators of dhcp.py are edits                                       *)

LEMMA Unedited ==
    ASSUME NEW d, IsServer(d)
    PROVE  /\ IsServer(DhcpFail(d)) /\ FileEdited(d.file, DhcpFail(d).file)
           /\ FileEdited(d.file, d.file)
BY DEF IsServer, DhcpFail, FileEdited

LEMMA AddedStanza ==
    ASSUME NEW d, IsServer(d), NEW s
    PROVE  IsServer(AddStanza(d, s)) /\ AddStanza(d, s).file = Append(d.file, s)
BY DEF IsServer, AddStanza

(* The positions an operator looks at are a set of numbers, and the first  *)
(* of them is one of them.                                                 *)
LEMMA FirstPosition ==
    ASSUME NEW f \in Seq(Stanza), NEW T, T \subseteq DOMAIN f, T # {}
    PROVE  LET i == CHOOSE j \in T : \A k \in T : j <= k
           IN  i \in T /\ i \in 1 .. Len(f)
<1>1. DOMAIN f = 1 .. Len(f) /\ Len(f) \in Nat
  BY LenProperties
<1>2. \E x \in T : \A y \in T : x <= y
  <2>1. T \subseteq Nat
    BY <1>1
  <2>. QED
    BY <2>1, LeastNat
<1>. QED
  BY <1>1, <1>2

(* All the addresses between two of one subnet lie in it.                  *)
LEMMA BetweenInSubnet ==
    ASSUME NEW ip \in DhcpAddress, NEW hi \in 0 .. TopOctet, ip.host <= hi,
           IpIsInNetwork([ip EXCEPT !.host = hi], GetSubnet(ip))
    PROVE  /\ [net |-> ip.net, lo |-> ip.host, hi |-> hi] \in AddressRange
           /\ InSubnet([net |-> ip.net, lo |-> ip.host, hi |-> hi], GetSubnet(ip))
           /\ GetSubnet(ip) \in Nat
<1>1. /\ ip.net \in NetOctets /\ ip.net \in Nat /\ ip.host \in 0 .. TopOctet
      /\ TopOctet \in Nat /\ SubnetSize \in Nat \ {0}
  BY DhcpAssumption DEF DhcpAddress
<1>. DEFINE base == ip.net * (TopOctet + 1)
<1>2. base \in Nat
  BY <1>1
<1>3. ASSUME NEW h \in 0 .. TopOctet
      PROVE  base + h \in Nat
             /\ GetSubnet([net |-> ip.net, host |-> h]) = (base + h) \div SubnetSize
  <2>1. base + h \in Nat
    BY <1>1, <1>2
  <2>. QED
    BY <2>1 DEF GetSubnet
<1>4. [ip EXCEPT !.host = hi] = [net |-> ip.net, host |-> hi]
  BY DEF DhcpAddress
<1>5. GetSubnet([ip EXCEPT !.host = hi]) = (base + hi) \div SubnetSize
  BY <1>3, <1>4
<1>6. GetSubnet(ip) = (base + ip.host) \div SubnetSize
  BY DEF GetSubnet
<1>. HIDE DEF base
<1>7. (base + hi) \div SubnetSize = (base + ip.host) \div SubnetSize
  BY <1>5, <1>6 DEF IpIsInNetwork
<1>8. ASSUME NEW h \in ip.host .. hi
      PROVE  GetSubnet([net |-> ip.net, host |-> h]) = GetSubnet(ip)
  <2>1. /\ h \in 0 .. TopOctet /\ base + ip.host \in Nat /\ base + h \in Nat /\ base + hi \in Nat
        /\ base + ip.host <= base + h /\ base + h <= base + hi
    BY <1>1, <1>2
  <2>2. /\ (base + ip.host) \div SubnetSize <= (base + h) \div SubnetSize
        /\ (base + h) \div SubnetSize <= (base + hi) \div SubnetSize
        /\ (base + ip.host) \div SubnetSize \in Nat
        /\ (base + h) \div SubnetSize \in Nat
    BY <1>1, <2>1, DivisionKeepsOrder
  <2>3. (base + h) \div SubnetSize = (base + ip.host) \div SubnetSize
    BY <1>7, <2>2
  <2>. QED
    BY <1>3, <1>6, <2>1, <2>3
<1>9. GetSubnet(ip) \in Nat
  <2>1. base + ip.host \in Nat
    BY <1>1, <1>2
  <2>. QED
    BY <1>1, <1>6, <2>1, DivisionKeepsOrder
<1>. QED
  BY <1>1, <1>8, <1>9 DEF AddressRange, InSubnet, Octets

LEMMA AddAddressRangeEdits ==
    ASSUME NEW d, IsServer(d), FileSound(d.file), NEW ip \in DhcpAddress,
           NEW count \in 1 .. TopOctet + 1, NEW ns \in BOOLEAN
    PROVE  /\ IsServer(AddAddressRange(d, ip, count, ns))
           /\ FileEdited(d.file, AddAddressRange(d, ip, count, ns).file)
<1>. DEFINE e == AddAddressRange(d, ip, count, ns)
            hi == ip.host + (count - 1)
            ok == hi <= TopOctet /\ IpIsInNetwork([ip EXCEPT !.host = hi], GetSubnet(ip))
            nets == LookupSubnet(d, GetSubnet(ip))
            r == [net |-> ip.net, lo |-> ip.host, hi |-> hi]
<1>1. /\ SetAndCheckHiaddr(ip, count).ok = ok /\ SetAndCheckHiaddr(ip, count).hi = hi
  BY DEF SetAndCheckHiaddr
<1>2. d.file \in Seq(Stanza) /\ Len(d.file) \in Nat /\ DOMAIN d.file = 1 .. Len(d.file)
  BY LenProperties DEF FileSound
<1>3. CASE ~ok
  <2>1. e = DhcpFail(d)
    BY <1>1, <1>3 DEF AddAddressRange
  <2>. QED
    BY <2>1, Unedited
<1>4. CASE ok
  <2>1. hi \in 0 .. TopOctet /\ ip.host <= hi
    BY <1>4, DhcpAssumption DEF DhcpAddress
  <2>2. r \in AddressRange /\ InSubnet(r, GetSubnet(ip)) /\ GetSubnet(ip) \in Nat
    BY <1>4, <2>1, BetweenInSubnet
  <2>3. CASE nets # {}
    <3>. DEFINE i == CHOOSE j \in nets : \A k \in nets : j <= k
    <3>1. i \in nets /\ i \in 1 .. Len(d.file)
      <4>1. nets \subseteq DOMAIN d.file
        BY DEF LookupSubnet, StanzasOf
      <4>. QED
        BY <1>2, <2>3, <4>1, FirstPosition
    <3>2. d.file[i].kind = "subnet" /\ d.file[i].subnet = GetSubnet(ip)
      BY <3>1 DEF LookupSubnet, StanzasOf
    <3>3. e = IF CheckSubnetForOverlap(d.file[i], ip.host, hi)
              THEN DhcpFail(d) ELSE AddRangeToSubnet(d, i, ip, hi)
      <4>. DEFINE check == SetAndCheckHiaddr(ip, count)
      <4>1. check.ok /\ check.hi = hi
        BY <1>1, <1>4
      <4>2. e = IF CheckSubnetForOverlap(d.file[i], ip.host, check.hi)
                THEN DhcpFail(d) ELSE AddRangeToSubnet(d, i, ip, check.hi)
        <5>. HIDE DEF ok, hi, check
        <5>. QED
          BY <2>3, <4>1 DEF AddAddressRange, check
      <4>. QED
        BY <4>1, <4>2
    <3>. HIDE DEF i, hi, e
    <3>4. CASE CheckSubnetForOverlap(d.file[i], ip.host, hi)
      BY <3>3, <3>4, Unedited DEF e
    <3>5. CASE ~CheckSubnetForOverlap(d.file[i], ip.host, hi)
      <4>1. e = [d EXCEPT !.file[i].ranges = @ \cup {r}]
        BY <3>3, <3>5 DEF AddRangeToSubnet
      <4>2. d.file[i] \in [kind : {"subnet"}, subnet : Nat, ranges : SUBSET AddressRange]
        BY <1>2, <3>1, <3>2, ElementOfSeq, StanzaShape
      <4>3. /\ IsServer(e)
            /\ e.file = [d.file EXCEPT ![i] = [d.file[i] EXCEPT !.ranges = d.file[i].ranges \cup {r}]]
        BY <1>2, <3>1, <4>1, <4>2 DEF IsServer
      <4>4. \A q \in d.file[i].ranges : Octets(r) \cap Octets(q) = {}
        BY <3>5 DEF CheckSubnetForOverlap, Octets
      <4>5. RangeAdded(d.file, e.file)
        <5>. HIDE DEF r
        <5>. QED
          BY ZenonT(120), <2>2, <3>1, <3>2, <4>3, <4>4 DEF RangeAdded
      <4>. QED
        BY <4>3, <4>5 DEF FileEdited, e
    <3>. QED
      BY <3>4, <3>5
  <2>4. CASE nets = {} /\ ~ns
    <3>1. e = DhcpFail(d)
      BY <1>1, <1>4, <2>4 DEF AddAddressRange
    <3>. QED
      BY <3>1, Unedited
  <2>5. CASE nets = {} /\ ns
    <3>. DEFINE s == SubnetStanza(ip, hi)
    <3>1. e = AddStanza(d, s)
      BY <1>1, <1>4, <2>5 DEF AddAddressRange
    <3>2. s = [kind |-> "subnet", subnet |-> GetSubnet(ip), ranges |-> {r}]
      BY DEF SubnetStanza
    <3>3. s \in Stanza
      BY <2>2, <3>2 DEF Stanza
    <3>4. s.kind = "subnet" /\ s.subnet = GetSubnet(ip) /\ s.ranges = {r}
      BY <3>2
    <3>5. RangesSound(s)
      <4>. HIDE DEF s, r
      <4>. QED
        BY <2>2, <3>4 DEF RangesSound
    <3>6. \A i \in 1 .. Len(d.file) : d.file[i].kind = "subnet" => d.file[i].subnet # s.subnet
      BY <1>2, <2>5, <3>4 DEF LookupSubnet, StanzasOf
    <3>. HIDE DEF s, e
    <3>7. IsServer(e) /\ e.file = Append(d.file, s)
      BY <3>1, AddedStanza
    <3>8. StanzaAdded(d.file, e.file)
      BY <3>3, <3>4, <3>5, <3>6, <3>7 DEF StanzaAdded
    <3>. QED
      BY <3>7, <3>8 DEF FileEdited, e
  <2>. QED
    BY <2>3, <2>4, <2>5
<1>. QED
  BY <1>3, <1>4

(* A host is added when no stanza has its address.                         *)
LEMMA HostAdded ==
    ASSUME NEW d, IsServer(d), FileSound(d.file), NEW mac \in DhcpMacs,
           NEW b \in DhcpBootfiles, NEW form \in {"upper", "lower"},
           ~HostIsConfigured(d, mac)
    PROVE  LET e == AddStanza(d, HostStanza(mac, b, form))
           IN  IsServer(e) /\ FileEdited(d.file, e.file)
<1>. DEFINE s == HostStanza(mac, b, form)
            e == AddStanza(d, s)
<1>1. s = [kind |-> "host", mac |-> mac, bootfile |-> b, form |-> form]
  BY DEF HostStanza
<1>2. s \in Stanza /\ s.kind = "host" /\ s.mac = mac
  BY <1>1 DEF Stanza
<1>. HIDE DEF s
<1>3. IsServer(e) /\ e.file = Append(d.file, s)
  BY AddedStanza
<1>4. DOMAIN d.file = 1 .. Len(d.file)
  BY LenProperties DEF FileSound
<1>5. \A i \in 1 .. Len(d.file) : d.file[i].kind = "host" => d.file[i].mac # s.mac
  BY <1>2, <1>4 DEF HostIsConfigured, StanzasOf
<1>6. StanzaAdded(d.file, e.file)
  <2>. HIDE DEF e
  <2>. QED
    BY <1>2, <1>3, <1>5 DEF StanzaAdded
<1>. QED
  BY <1>3, <1>6 DEF FileEdited, s

LEMMA AddHostEdits ==
    ASSUME NEW d, IsServer(d), FileSound(d.file), NEW mac \in DhcpMacs, NEW b \in DhcpBootfiles
    PROVE  IsServer(AddHost(d, mac, b)) /\ FileEdited(d.file, AddHost(d, mac, b).file)
BY HostAdded, Unedited DEF AddHost

LEMMA AddArchClassEdits ==
    ASSUME NEW d, IsServer(d), FileSound(d.file), NEW arch \in Archs, NEW b \in DhcpBootfiles
    PROVE  /\ IsServer(AddArchClass(d, arch, b))
           /\ FileEdited(d.file, AddArchClass(d, arch, b).file)
<1>1. CASE ArchClassIsSet(d, arch)
  BY <1>1, Unedited DEF AddArchClass
<1>2. CASE ~ArchClassIsSet(d, arch)
  <2>. DEFINE s == ClassStanza(arch, b)
              e == AddStanza(d, s)
  <2>1. s = [kind |-> "class", arch |-> arch, bootfile |-> b]
    BY DEF ClassStanza
  <2>2. s \in Stanza /\ s.kind = "class"
    BY <2>1 DEF Stanza, Bootfiles
  <2>. HIDE DEF s
  <2>3. IsServer(e) /\ e.file = Append(d.file, s)
    BY AddedStanza
  <2>4. StanzaAdded(d.file, e.file)
    <3>. HIDE DEF e
    <3>. QED
      BY <2>2, <2>3 DEF StanzaAdded
  <2>. QED
    BY <1>2, <2>3, <2>4 DEF AddArchClass, FileEdited, s
<1>. QED
  BY <1>1, <1>2

LEMMA RemoveHostEdits ==
    ASSUME NEW d, IsServer(d), FileSound(d.file), NEW mac
    PROVE  IsServer(RemoveHost(d, mac)) /\ FileEdited(d.file, RemoveHost(d, mac).file)
<1>. DEFINE hits == {i \in StanzasOf(d, "host") : d.file[i].mac = mac /\ d.file[i].form = "upper"}
            first == CHOOSE i \in hits : \A j \in hits : i <= j
            e == RemoveHost(d, mac)
<1>1. CASE hits = {}
  BY <1>1, Unedited DEF RemoveHost
<1>2. CASE hits # {}
  <2>1. first \in hits /\ first \in 1 .. Len(d.file)
    <3>1. hits \subseteq DOMAIN d.file /\ d.file \in Seq(Stanza)
      BY DEF StanzasOf, FileSound
    <3>. HIDE DEF hits
    <3>. QED
      BY <1>2, <3>1, FirstPosition
  <2>2. d.file[first].kind = "host"
    BY <2>1 DEF StanzasOf
  <2>3. e = [d EXCEPT !.file = RemoveAt(@, first)]
    BY <1>2 DEF RemoveHost
  <2>. HIDE DEF first, e
  <2>4. IsServer(e) /\ e.file = RemoveAt(d.file, first)
    BY <2>3 DEF IsServer
  <2>5. HostRemoved(d.file, e.file)
    BY <2>1, <2>2, <2>4 DEF HostRemoved
  <2>. QED
    BY <2>4, <2>5 DEF FileEdited, e
<1>. QED
  BY <1>1, <1>2

(* A boot file is written into the first class of the architecture.        *)
LEMMA EditClassBootfileEdits ==
    ASSUME NEW d, IsServer(d), FileSound(d.file), NEW arch, ArchClassIsSet(d, arch),
           NEW action, NEW b \in Bootfiles
    PROVE  /\ IsServer(EditClassBootfile(d, arch, action, b))
           /\ FileEdited(d.file, EditClassBootfile(d, arch, action, b).file)
<1>. DEFINE i == TheArchClass(d, arch)
            e == EditClassBootfile(d, arch, action, b)
<1>1. i \in ArchClasses(d, arch) /\ i \in 1 .. Len(d.file)
  <2>1. ArchClasses(d, arch) \subseteq DOMAIN d.file /\ d.file \in Seq(Stanza)
    BY DEF ArchClasses, StanzasOf, FileSound
  <2>2. ArchClasses(d, arch) # {}
    BY DEF ArchClassIsSet
  <2>. QED
    BY <2>1, <2>2, FirstPosition DEF TheArchClass
<1>2. d.file[i].kind = "class"
  BY <1>1 DEF ArchClasses, StanzasOf
<1>3. e = IF action = "update" /\ d.file[i].bootfile = "none" THEN d
          ELSE [d EXCEPT !.file[i].bootfile = b]
  BY DEF EditClassBootfile
<1>. HIDE DEF i, e
<1>4. CASE e = d
  BY <1>4, Unedited DEF e
<1>5. CASE e = [d EXCEPT !.file[i].bootfile = b]
  <2>1. d.file[i] \in [kind : {"class"}, arch : Archs, bootfile : Bootfiles]
    BY <1>1, <1>2, ElementOfSeq, StanzaShape DEF FileSound
  <2>2. DOMAIN d.file = 1 .. Len(d.file)
    BY LenProperties DEF FileSound
  <2>3. IsServer(e) /\ e.file = [d.file EXCEPT ![i] = [d.file[i] EXCEPT !.bootfile = b]]
    BY <1>1, <1>5, <2>1, <2>2 DEF IsServer
  <2>4. BootfileChanged(d.file, e.file)
    BY <1>1, <1>2, <2>3 DEF BootfileChanged
  <2>. QED
    BY <2>3, <2>4 DEF FileEdited, e
<1>. QED
  BY <1>3, <1>4, <1>5

LEMMA BootfileEdits ==
    ASSUME NEW d, IsServer(d), FileSound(d.file), NEW arch, NEW b \in DhcpBootfiles
    PROVE  /\ IsServer(SetBootfile(d, arch, b)) /\ FileEdited(d.file, SetBootfile(d, arch, b).file)
           /\ IsServer(UpdateBootfile(d, arch, b))
           /\ FileEdited(d.file, UpdateBootfile(d, arch, b).file)
           /\ IsServer(UnsetBootfile(d, arch)) /\ FileEdited(d.file, UnsetBootfile(d, arch).file)
<1>1. b \in Bootfiles /\ "none" \in Bootfiles
  BY DEF Bootfiles
<1>2. IsServer(DhcpFail(d)) /\ FileEdited(d.file, DhcpFail(d).file)
  BY Unedited
<1>3. ASSUME ArchClassIsSet(d, arch), NEW action, NEW c \in Bootfiles
      PROVE  /\ IsServer(EditClassBootfile(d, arch, action, c))
             /\ FileEdited(d.file, EditClassBootfile(d, arch, action, c).file)
  BY <1>3, EditClassBootfileEdits
<1>. QED
  BY <1>1, <1>2, <1>3 DEF SetBootfile, UpdateBootfile, UnsetBootfile

(* Commands to the service leave the file alone.                           *)
LEMMA ControlEdits ==
    ASSUME NEW d, IsServer(d), NEW action, NEW broken
    PROVE  /\ IsServer(DhcpControl(d, action, broken))
           /\ DhcpControl(d, action, broken).file = d.file
<1>. DEFINE e == DhcpControl(d, action, broken)
<1>1. \E x : e = [d EXCEPT !.state = x] \/ e = DhcpFail([d EXCEPT !.state = x])
  BY DEF DhcpControl
<1>2. PICK x : e = [d EXCEPT !.state = x] \/ e = DhcpFail([d EXCEPT !.state = x])
  BY <1>1
<1>. HIDE DEF e
<1>3. IsServer(e) /\ e.file = d.file
  BY <1>2 DEF IsServer, DhcpFail
<1>. QED
  BY <1>3 DEF e

(* Every step of the server edits the file in one of the five ways.        *)
LEMMA StepEdits ==
    ASSUME DhcpInv, DhcpNext
    PROVE  IsServer(dhcp') /\ FileEdited(dhcp.file, dhcp'.file)
<1>. DEFINE d == [dhcp EXCEPT !.err = "none"]
<1>1. IsServer(d) /\ d.file = dhcp.file /\ FileSound(d.file)
  BY DEF DhcpInv, IsServer
<1>. SUFFICES ASSUME TRUE
              PROVE  IsServer(dhcp') /\ FileEdited(d.file, dhcp'.file)
  BY <1>1
<1>2. CASE Edit(InitConfig(d))
  <2>1. dhcp' = DhcpFail(d) \/ dhcp' = [d EXCEPT !.configured = TRUE]
    BY <1>2 DEF Edit, InitConfig
  <2>. HIDE DEF d
  <2>2. CASE dhcp' = DhcpFail(d)
    BY <1>1, <2>2, Unedited
  <2>3. CASE dhcp' = [d EXCEPT !.configured = TRUE]
    <3>1. IsServer(dhcp') /\ dhcp'.file = d.file
      BY <1>1, <2>3 DEF IsServer
    <3>. QED
      BY <3>1 DEF FileEdited
  <2>. QED
    BY <2>1, <2>2, <2>3
<1>3. ASSUME NEW ip \in DhcpAddress, NEW count \in 1 .. TopOctet + 1, NEW ns \in BOOLEAN,
             Edit(AddAddressRange(d, ip, count, ns))
      PROVE  IsServer(dhcp') /\ FileEdited(d.file, dhcp'.file)
  <2>. HIDE DEF d
  <2>. QED
    BY <1>1, <1>3, AddAddressRangeEdits DEF Edit
<1>4. ASSUME NEW mac \in DhcpMacs, NEW b \in DhcpBootfiles,
             \/ Edit(AddHost(d, mac, b))
             \/ ~HostIsConfigured(d, mac) /\ Edit(AddStanza(d, HostStanza(mac, b, "lower")))
      PROVE  IsServer(dhcp') /\ FileEdited(d.file, dhcp'.file)
  <2>. HIDE DEF d
  <2>. QED
    BY <1>1, <1>4, AddHostEdits, HostAdded DEF Edit
<1>5. ASSUME NEW arch \in Archs, NEW b \in DhcpBootfiles,
             \/ Edit(AddArchClass(d, arch, b)) \/ Edit(SetBootfile(d, arch, b))
             \/ Edit(UpdateBootfile(d, arch, b))
      PROVE  IsServer(dhcp') /\ FileEdited(d.file, dhcp'.file)
  <2>. HIDE DEF d
  <2>. QED
    BY <1>1, <1>5, AddArchClassEdits, BootfileEdits DEF Edit
<1>6. ASSUME NEW mac \in DhcpMacs, Edit(RemoveHost(d, mac))
      PROVE  IsServer(dhcp') /\ FileEdited(d.file, dhcp'.file)
  <2>. HIDE DEF d
  <2>. QED
    BY <1>1, <1>6, RemoveHostEdits DEF Edit
<1>7. ASSUME NEW arch \in Archs, Edit(UnsetBootfile(d, arch))
      PROVE  IsServer(dhcp') /\ FileEdited(d.file, dhcp'.file)
  <2>. HIDE DEF d
  <2>1. CASE ~ArchClassIsSet(d, arch)
    BY <1>1, <1>7, <2>1, Unedited DEF Edit, UnsetBootfile
  <2>2. CASE ArchClassIsSet(d, arch)
    BY <1>1, <1>7, <2>2, Unedited, EditClassBootfileEdits DEF Edit, UnsetBootfile, Bootfiles
  <2>. QED
    BY <2>1, <2>2
<1>8. ASSUME NEW action, NEW broken, Edit(DhcpControl(d, action, broken))
      PROVE  IsServer(dhcp') /\ FileEdited(d.file, dhcp'.file)
  <2>. HIDE DEF d
  <2>. QED
    BY <1>1, <1>8, ControlEdits DEF Edit, FileEdited
<1>9. DhcpNext
  OBVIOUS
<1>. QED
  BY <1>2, <1>3, <1>4, <1>5, <1>6, <1>7, <1>8, <1>9 DEF DhcpNext

LEMMA DhcpInvInitially == DhcpInit => DhcpInv
<1>. SUFFICES ASSUME DhcpInit
              PROVE  DhcpInv
  OBVIOUS
<1>1. dhcp.file = <<>> /\ IsServer(dhcp)
  BY DEF DhcpInit, NewDhcp, IsServer
<1>2. <<>> \in Seq(Stanza) /\ Len(<<>>) = 0
  BY EmptySeq
<1>. QED
  BY <1>1, <1>2 DEF DhcpInv, FileSound

LEMMA DhcpInvInductive == DhcpInv /\ [DhcpNext]_dhcpVars => DhcpInv'
<1>. SUFFICES ASSUME DhcpInv, [DhcpNext]_dhcpVars
              PROVE  DhcpInv'
  OBVIOUS
<1>1. CASE DhcpNext
  <2>1. IsServer(dhcp') /\ FileEdited(dhcp.file, dhcp'.file)
    BY <1>1, StepEdits
  <2>2. FileSound(dhcp'.file)
    BY <2>1, EditedIsSound DEF DhcpInv
  <2>. QED
    BY <2>1, <2>2 DEF DhcpInv
<1>2. CASE UNCHANGED dhcpVars
  BY <1>2 DEF dhcpVars, DhcpInv
<1>. QED
  BY <1>1, <1>2

(* Two ranges of the file have no address in common: within a stanza the   *)
(* last octets differ, and between two stanzas the subnets.                *)
LEMMA SoundIsDisjoint == DhcpInv => RangesDisjoint
<1>. SUFFICES ASSUME DhcpInv, NEW i \in StanzasOf(dhcp, "subnet"),
                     NEW j \in StanzasOf(dhcp, "subnet"),
                     NEW r \in dhcp.file[i].ranges, NEW q \in dhcp.file[j].ranges
              PROVE  /\ <<i, r>> # <<j, q>> => RangeAddresses(r) \cap RangeAddresses(q) = {}
                     /\ \A a \in RangeAddresses(r) : IpIsInNetwork(a, dhcp.file[i].subnet)
  BY DEF RangesDisjoint
<1>1. /\ i \in 1 .. Len(dhcp.file) /\ j \in 1 .. Len(dhcp.file)
      /\ dhcp.file[i].kind = "subnet" /\ dhcp.file[j].kind = "subnet"
  BY LenProperties DEF StanzasOf, DhcpInv, FileSound
<1>2. RangesSound(dhcp.file[i]) /\ RangesSound(dhcp.file[j])
  BY <1>1 DEF DhcpInv, FileSound
<1>3. ASSUME NEW a \in RangeAddresses(r)
      PROVE  GetSubnet(a) = dhcp.file[i].subnet /\ \E h \in Octets(r) : a = [net |-> r.net, host |-> h]
  BY <1>2 DEF RangeAddresses, RangesSound, InSubnet, Octets
<1>4. ASSUME NEW a \in RangeAddresses(q)
      PROVE  GetSubnet(a) = dhcp.file[j].subnet /\ \E h \in Octets(q) : a = [net |-> q.net, host |-> h]
  BY <1>2 DEF RangeAddresses, RangesSound, InSubnet, Octets
<1>5. ASSUME <<i, r>> # <<j, q>>, NEW a, a \in RangeAddresses(r), a \in RangeAddresses(q)
      PROVE  FALSE
  <2>1. dhcp.file[i].subnet = dhcp.file[j].subnet
    BY <1>3, <1>4, <1>5
  <2>2. i = j
    BY <1>1, <2>1 DEF DhcpInv, FileSound
  <2>3. r # q /\ Octets(r) \cap Octets(q) = {}
    BY <1>2, <1>5, <2>2 DEF RangesSound
  <2>4. PICK h \in Octets(r) : a = [net |-> r.net, host |-> h]
    BY <1>3, <1>5
  <2>5. PICK k \in Octets(q) : a = [net |-> q.net, host |-> k]
    BY <1>4, <1>5
  <2>6. h = k
    BY <2>4, <2>5
  <2>. QED
    BY <2>3, <2>6
<1>. QED
  BY <1>3, <1>5 DEF IpIsInNetwork

(* An edit keeps every stanza, but for the host it removes.                *)
LEMMA EditedKeeps ==
    ASSUME NEW f, NEW g, FileSound(f), FileEdited(f, g), NEW i \in 1 .. Len(f),
           KeptAs(f[i], g) = {}
    PROVE  /\ f[i].kind = "host" /\ Len(g) = Len(f) - 1
           /\ \A j \in 1 .. Len(g) : g[j].kind = "host" => g[j].mac # f[i].mac
<1>1. /\ f \in Seq(Stanza) /\ Len(f) \in Nat
      /\ g \in Seq(Stanza) /\ Len(g) \in Nat /\ DOMAIN g = 1 .. Len(g)
  <2>1. FileSound(g)
    BY EditedIsSound
  <2>. QED
    BY <2>1, LenProperties DEF FileSound
<1>2. ASSUME NEW j \in 1 .. Len(g), g[j] = f[i]
      PROVE  FALSE
  BY <1>1, <1>2 DEF KeptAs, ToSet
<1>3. g # f
  BY <1>2
<1>4. ~StanzaAdded(f, g)
  <2>1. ASSUME NEW s \in Stanza, g = Append(f, s)
        PROVE  FALSE
    BY <1>1, <1>2, <2>1, AppendProperties
  <2>. QED
    BY <2>1 DEF StanzaAdded
<1>5. ~RangeAdded(f, g)
  <2>1. ASSUME NEW x \in 1 .. Len(f), NEW r \in AddressRange, f[x].kind = "subnet",
               g = [f EXCEPT ![x] = [f[x] EXCEPT !.ranges = f[x].ranges \cup {r}]]
        PROVE  FALSE
    <3>1. f[x] \in [kind : {"subnet"}, subnet : Nat, ranges : SUBSET AddressRange]
      BY <1>1, <2>1, ElementOfSeq, StanzaShape
    <3>. DEFINE s == [f[x] EXCEPT !.ranges = f[x].ranges \cup {r}]
    <3>2. /\ s \in [kind : {"subnet"}, subnet : Nat, ranges : SUBSET AddressRange]
          /\ s.kind = "subnet" /\ s.subnet = f[x].subnet /\ s.ranges = f[x].ranges \cup {r}
      BY <3>1
    <3>3. s \in Stanza
      BY <3>2 DEF Stanza
    <3>. HIDE DEF s
    <3>4. Len(g) = Len(f) /\ \A j \in 1 .. Len(f) : g[j] = IF j = x THEN s ELSE f[j]
      BY <1>1, <2>1, <3>3, ExceptSeq DEF s
    <3>5. i = x
      BY <1>2, <3>4
    <3>6. g[i] = s
      BY <3>4, <3>5
    <3>. QED
      BY <1>1, <2>1, <3>2, <3>4, <3>5, <3>6 DEF KeptAs, ToSet
  <2>. QED
    BY <2>1 DEF RangeAdded
<1>6. ~BootfileChanged(f, g)
  <2>1. ASSUME NEW x \in 1 .. Len(f), NEW b \in Bootfiles, f[x].kind = "class",
               g = [f EXCEPT ![x] = [f[x] EXCEPT !.bootfile = b]]
        PROVE  FALSE
    <3>1. f[x] \in [kind : {"class"}, arch : Archs, bootfile : Bootfiles]
      BY <1>1, <2>1, ElementOfSeq, StanzaShape
    <3>. DEFINE s == [f[x] EXCEPT !.bootfile = b]
    <3>2. /\ s \in [kind : {"class"}, arch : Archs, bootfile : Bootfiles]
          /\ s.kind = "class" /\ s.arch = f[x].arch
      BY <3>1
    <3>3. s \in Stanza
      BY <3>2 DEF Stanza
    <3>. HIDE DEF s
    <3>4. Len(g) = Len(f) /\ \A j \in 1 .. Len(f) : g[j] = IF j = x THEN s ELSE f[j]
      BY <1>1, <2>1, <3>3, ExceptSeq DEF s
    <3>5. i = x
      BY <1>2, <3>4
    <3>6. g[i] = s
      BY <3>4, <3>5
    <3>. QED
      BY <1>1, <2>1, <3>2, <3>4, <3>5, <3>6 DEF KeptAs, ToSet
  <2>. QED
    BY <2>1 DEF BootfileChanged
<1>7. PICK r \in 1 .. Len(f) : f[r].kind = "host" /\ g = RemoveAt(f, r)
  BY <1>3, <1>4, <1>5, <1>6 DEF FileEdited, HostRemoved
<1>8. /\ Len(g) = Len(f) - 1
      /\ \A j \in 1 .. Len(f) - 1 : g[j] = IF j < r THEN f[j] ELSE f[j + 1]
  BY <1>1, <1>7, RemovedAt
<1>9. i = r
  <2>1. CASE i < r
    <3>1. i \in 1 .. Len(g) /\ g[i] = f[i]
      BY <1>1, <1>8, <2>1
    <3>. QED
      BY <1>2, <3>1
  <2>2. CASE i > r
    <3>1. i - 1 \in 1 .. Len(g) /\ g[i - 1] = f[i]
      BY <1>1, <1>8, <2>2
    <3>. QED
      BY <1>2, <3>1
  <2>. QED
    BY <2>1, <2>2
<1>10. ASSUME NEW j \in 1 .. Len(g), g[j].kind = "host", g[j].mac = f[i].mac
       PROVE  FALSE
  <2>1. PICK x \in 1 .. Len(f) : g[j] = f[x] /\ x # r
    <3>1. CASE j < r
      BY <1>1, <1>8, <3>1
    <3>2. CASE ~(j < r)
      <4>1. j + 1 \in 1 .. Len(f) /\ j + 1 # r /\ g[j] = f[j + 1]
        BY <1>1, <1>8, <3>2
      <4>. QED
        BY <4>1
    <3>. QED
      BY <3>1, <3>2
  <2>. QED
    BY <1>7, <1>9, <1>10, <2>1 DEF FileSound
<1>. QED
  BY <1>7, <1>8, <1>9, <1>10

(* No address is handed out by two ranges of dhcpd.conf and every address  *)
(* of a range lies in its subnet, for networks of any size and any edits.  *)
THEOREM RangesDisjointHolds == DhcpSpec => []RangesDisjoint
BY DhcpInvInitially, DhcpInvInductive, SoundIsDisjoint, PTL DEF DhcpSpec

(* Whatever is edited, the stanzas of the others stay (remove_host() and   *)
(* the edits in place of dhcp.py).                                         *)
THEOREM EditsKeepOthersHolds == DhcpSpec => EditsKeepOthers
<1>1. ASSUME DhcpInv, [DhcpNext]_dhcpVars
      PROVE  [\A i \in DOMAIN dhcp.file :
                LET s == dhcp.file[i]
                IN  KeptAs(s, dhcp'.file) = {} =>
                        /\ s.kind = "host"
                        /\ Len(dhcp'.file) = Len(dhcp.file) - 1
                        /\ ~HostIsConfigured(dhcp', s.mac)]_dhcpVars
  <2>1. CASE UNCHANGED dhcpVars
    BY <2>1
  <2>2. CASE DhcpNext
    <3>1. FileSound(dhcp.file) /\ FileEdited(dhcp.file, dhcp'.file)
      BY <1>1, <2>2, StepEdits DEF DhcpInv
    <3>2. /\ DOMAIN dhcp.file = 1 .. Len(dhcp.file)
          /\ DOMAIN dhcp'.file = 1 .. Len(dhcp'.file)
      BY <3>1, EditedIsSound, LenProperties DEF FileSound
    <3>3. ASSUME NEW i \in 1 .. Len(dhcp.file), KeptAs(dhcp.file[i], dhcp'.file) = {}
          PROVE  /\ dhcp.file[i].kind = "host"
                 /\ Len(dhcp'.file) = Len(dhcp.file) - 1
                 /\ ~HostIsConfigured(dhcp', dhcp.file[i].mac)
      <4>1. /\ dhcp.file[i].kind = "host" /\ Len(dhcp'.file) = Len(dhcp.file) - 1
            /\ \A j \in 1 .. Len(dhcp'.file) :
                    dhcp'.file[j].kind = "host" => dhcp'.file[j].mac # dhcp.file[i].mac
        BY <3>1, <3>3, EditedKeeps
      <4>. QED
        BY <3>2, <4>1 DEF HostIsConfigured, StanzasOf
    <3>. QED
      BY <3>2, <3>3
  <2>. QED
    BY <1>1, <2>1, <2>2
<1>. QED
  BY <1>1, DhcpInvInitially, DhcpInvInductive, PTL DEF DhcpSpec, EditsKeepOthers

=============================================================================
