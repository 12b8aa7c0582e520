--------------------------- MODULE DistroConstProofs ---------------------------
(***************************************************************************)
(* Proofs about the distribution constructor, its lock file and the engine *)
(* that stops and resumes: whatever was left behind by crashes, failures,  *)
(* pauses and older processes, a run that starts or resumes builds on a    *)
(* dataset, a DOC and completed flags that agree.                          *)
(*                                                                         *)
(* The argument is about the snapshots.  A snapshot holds the DOC of its   *)
(* own checkpoint and the finished work of exactly that DOC; the DOCs of   *)
(* the snapshots are prefixes of one another, in the order in which they   *)
(* were taken, and prefixes of the newest DOC file.  Since the process     *)
(* resumes where its list agrees with the newest DOC file, the snapshot it *)
(* rolls back to agrees with its list as well, provided that a name stands *)
(* for the same position in every list.                                    *)
(*                                                                         *)
(* The last section is about boot configurations, which the constructor    *)
(* writes for its images and the installers for the disks: an invariant    *)
(* over the steps of a job, for any list of instances.                     *)
(***************************************************************************)
EXTENDS EngineResume, DistroConstLock, BootMenu, DataLemmas

\* Editing a list of checkpoints moves none of the names that stay.  The engine
\* takes this for granted: it asks for the snapshot of the checkpoint it resumes
\* from by name, without a look at the DOC in it.
SamePositions ==
    \A l, m \in Lists : \A i \in DOMAIN l, j \in DOMAIN m :
        l[i].name = m[j].name => i = j

--------------------------------------------------------------------------------
(* The type invariant                                                      *)

Work == [cp : Registrations, full : BOOLEAN]
Names == [cp : {r.name : r \in Registrations} \cup {None},
          kind : {"pre", "completed", "empty"}]
DocFiles == UNION {[N -> Seq(Registrations) \cup {Torn}] : N \in SUBSET Names}
Datasets == [files : DocFiles, newest : Names, work : Seq(Work)]
Snapshots == [name : Names, live : Datasets]

ProcessTypeOK ==
    /\ up \in BOOLEAN
    /\ list \in Seq(Registrations) /\ doc \in Seq(Registrations)
    /\ completed \subseteq Nat /\ snapped \subseteq Nat
    /\ pos \in Nat /\ stop \in Nat
    /\ phase \in {"idle", "next", "open", "write", "destroy", "snap", "exec",
                  "running"}
    /\ kind \in {"pre", "completed"}
    /\ status \in {"EXEC_SUCCESS", "EXEC_FAILED"}
    /\ origin \in {"fresh", "resume", "resumed"}
    /\ crashed \in BOOLEAN
ResumeTypeOK ==
    /\ live \in Datasets
    /\ snaps \in Seq(Snapshots)
    /\ ProcessTypeOK

--------------------------------------------------------------------------------
(* The inductive invariant                                                 *)

\* The list of registrations l begins with those of d.
StartsWith(l, d) == Len(d) <= Len(l) /\ \A x \in 1 .. Len(d) : l[x] = d[x]

\* The work of the checkpoints of d, all finished.
WorkOf(d) == [k \in 1 .. Len(d) - Prelude |-> [cp |-> d[Prelude + k], full |-> TRUE]]

\* The DOC in a snapshot: the file of the snapshot's own checkpoint.
DocIn(s) == s.live.files[s.name]

\* Where a process is: what its list is, and how far its run can be.
Control ==
    /\ up => list \in Lists
    /\ phase # "idle" => up /\ origin # "resume" /\ Prelude < pos /\ pos <= Len(list) + 1
                         /\ stop <= Len(list) + 1
    /\ phase \notin {"idle", "next"} => pos <= Len(list)
    /\ phase \in {"exec", "running"} => kind = "pre"
    /\ phase \in {"open", "write", "destroy", "snap"} => status = "EXEC_SUCCESS"
    /\ snapped \subseteq Prelude + 1 .. Len(list)
    /\ phase = "running" => live.work # <<>>
    /\ phase = "destroy" => HasSnap(SnapName)
    /\ phase = "snap" => ~HasSnap(SnapName)

\* A snapshot is of the state before or after its checkpoint.
GoodSnapshot(s) ==
    /\ s.name.kind \in {"pre", "completed"}
    /\ s.name \in DOMAIN s.live.files
    /\ s.live.newest = s.name
    /\ DocIn(s) # Torn
    /\ Len(DocIn(s)) >= Prelude
    /\ s.live.work = WorkOf(DocIn(s))
    /\ \A l \in Lists : \A i \in DOMAIN l :
          l[i].name = s.name.cp =>
              Len(DocIn(s)) = IF s.name.kind = "pre" THEN i - 1 ELSE i

SnapshotsGood ==
    /\ Len(snaps) >= 1
    /\ snaps[1] = [name |-> Empty, live |-> EmptyDataset]
    /\ \A j, k \in DOMAIN snaps : snaps[j].name = snaps[k].name => j = k
    /\ \A k \in 2 .. Len(snaps) : GoodSnapshot(snaps[k])
    /\ \A j, k \in 2 .. Len(snaps) :
          j < k => StartsWith(DocIn(snaps[k]), DocIn(snaps[j]))

\* The newest DOC file can be read, or a crash or the write at hand tore it.
NewestGood ==
    /\ phase \in {"write", "destroy", "snap"} => live.newest = SnapName
    /\ phase \in {"destroy", "snap"} => NewestDoc = doc
    /\ HasNewest => live.newest \in DOMAIN live.files
    /\ HasNewest /\ NewestDoc # Torn =>
          \A k \in 2 .. Len(snaps) : StartsWith(NewestDoc, DocIn(snaps[k]))

\* What the process works on is the work of the first n of its checkpoints.
Consistent(n) ==
    /\ n \in Prelude .. Len(list)
    /\ completed = 1 .. n
    /\ doc = SubSeq(list, 1, n)
    /\ live.work = WorkOf(doc)
Running ==
    /\ completed = 1 .. pos - 1
    /\ doc = SubSeq(list, 1, pos - 1)
    /\ live.work = Append(WorkOf(doc), [cp |-> list[pos], full |-> FALSE])


\* The checkpoint has been executed and its second snapshot is being taken.
Concluding == kind = "completed" /\ phase \in {"open", "write", "destroy", "snap"}
Building == up /\ origin # "resume"
RunGood ==
    Building =>
        /\ \A k \in 2 .. Len(snaps) : StartsWith(list, DocIn(snaps[k]))
        /\ status = "EXEC_SUCCESS" =>
              /\ phase # "idle" => \A k \in 2 .. Len(snaps) : Len(DocIn(snaps[k])) < pos
              /\ phase = "running" => Running
              /\ phase \notin {"idle", "running"} =>
                    Consistent(IF Concluding THEN pos ELSE pos - 1)
              /\ phase = "idle" =>
                    \E n \in 0 .. Len(list) :
                        /\ Consistent(n)
                        /\ \A k \in 2 .. Len(snaps) : Len(DocIn(snaps[k])) <= n

--------------------------------------------------------------------------------
(* As long as no process dies inside a run                                 *)

\* The checkpoints of d up to the n-th, but for the internal ones, have been
\* snapshotted when they were completed, the latest by the k-th of the snapshots.
CompletedBy(taken, d, n, k) ==
    \A m \in Prelude + 1 .. n : \E j \in 2 .. k :
        taken[j].name = [cp |-> d[m].name, kind |-> "completed"]

NoneMissing ==
    ~crashed =>
        /\ HasNewest /\ NewestDoc = Torn => phase = "write"
        /\ \A k \in 2 .. Len(snaps) :
              CompletedBy(snaps, DocIn(snaps[k]), Len(DocIn(snaps[k])), k)
        /\ HasNewest /\ phase \notin {"write", "destroy", "snap"} =>
              CompletedBy(snaps, NewestDoc, Len(NewestDoc), Len(snaps))
        /\ Building /\ status = "EXEC_SUCCESS" =>
              CompletedBy(snaps, doc, IF Concluding THEN pos - 1 ELSE Len(doc), Len(snaps))

--------------------------------------------------------------------------------
(* Snapshots and files                                                     *)

\* SnapIndex() finds a snapshot of that name when there is one.
LEMMA SnapFound ==
    ASSUME snaps \in Seq(Snapshots), NEW name
    PROVE  /\ HasSnap(name) <=> \E k \in 1 .. Len(snaps) : snaps[k].name = name
           /\ HasSnap(name) => /\ SnapIndex(name) \in 1 .. Len(snaps)
                               /\ snaps[SnapIndex(name)].name = name
<1>1. DOMAIN snaps = 1 .. Len(snaps) /\ Len(snaps) \in Nat
  BY LenProperties
<1>2. CASE \E k \in DOMAIN snaps : snaps[k].name = name
  <2>1. SnapIndex(name) = CHOOSE k \in DOMAIN snaps : snaps[k].name = name
    BY <1>2 DEF SnapIndex
  <2>2. SnapIndex(name) \in DOMAIN snaps /\ snaps[SnapIndex(name)].name = name
    BY <1>2, <2>1
  <2>3. SnapIndex(name) # 0
    BY <2>2, <1>1
  <2>. QED
    BY <1>1, <1>2, <2>2, <2>3 DEF HasSnap
<1>3. CASE ~ \E k \in DOMAIN snaps : snaps[k].name = name
  BY <1>1, <1>3 DEF SnapIndex, HasSnap
<1>. QED
  BY <1>2, <1>3

\* Writing a file keeps the type of a dataset and puts that file first.
LEMMA WrittenData ==
    ASSUME NEW data \in Datasets, NEW name \in Names,
           NEW content \in Seq(Registrations) \cup {Torn}
    PROVE  /\ Written(data, name, content) \in Datasets
           /\ name \in DOMAIN Written(data, name, content).files
           /\ Written(data, name, content).files[name] = content
           /\ Written(data, name, content).newest = name
           /\ Written(data, name, content).work = data.work
<1>. DEFINE F == [n \in DOMAIN data.files \cup {name} |->
                    IF n = name THEN content ELSE data.files[n]]
<1>1. PICK N \in SUBSET Names : data.files \in [N -> Seq(Registrations) \cup {Torn}]
  BY DEF Datasets, DocFiles
<1>2. F \in [N \cup {name} -> Seq(Registrations) \cup {Torn}]
  BY <1>1
<1>3. N \cup {name} \in SUBSET Names
  OBVIOUS
<1>4. F \in DocFiles
  BY <1>2, <1>3 DEF DocFiles
<1>5. name \in DOMAIN F /\ F[name] = content
  BY <1>1
<1>6. Written(data, name, content) = [files |-> F, newest |-> name, work |-> data.work]
  BY DEF Written
<1>. HIDE DEF F
<1>. QED
  BY <1>4, <1>5, <1>6 DEF Datasets

\* The names of a process's files and snapshots.
LEMMA SnapNames ==
    ASSUME list \in Seq(Registrations), NEW i \in 1 .. Len(list)
    PROVE  /\ PreName(i) \in Names /\ PreName(i).kind = "pre"
           /\ PreName(i).cp = list[i].name
           /\ CompletedName(i) \in Names /\ CompletedName(i).kind = "completed"
           /\ CompletedName(i).cp = list[i].name
<1>1. list[i] \in Registrations
  BY ElementOfSeq
<1>. QED
  BY <1>1 DEF PreName, CompletedName, Names

\* A list of registrations that begins with d and is as long begins with d only.
LEMMA PrefixIsSubSeq ==
    ASSUME NEW S, NEW l \in Seq(S), NEW d \in Seq(S), StartsWith(l, d)
    PROVE  d = SubSeq(l, 1, Len(d))
<1>1. Len(d) \in Nat /\ Len(l) \in Nat /\ Len(d) <= Len(l)
  BY LenProperties DEF StartsWith
<1>2. \A x \in 1 .. Len(d) : l[x] \in S
  BY <1>1, ElementOfSeq
<1>3. /\ SubSeq(l, 1, Len(d)) \in Seq(S)
      /\ Len(SubSeq(l, 1, Len(d))) = Len(d)
      /\ \A x \in 1 .. Len(d) : SubSeq(l, 1, Len(d))[x] = l[x]
  BY <1>1, <1>2, SubSeqProperties
<1>. QED
  BY <1>1, <1>3, SeqEqual DEF StartsWith

--------------------------------------------------------------------------------
(* One lemma for every step of a run and of a process                      *)

IInv == ResumeTypeOK /\ Control /\ SnapshotsGood /\ NewestGood /\ RunGood /\ NoneMissing

\* What nothing but a new, a destroyed or a rolled back snapshot disturbs.
LEMMA SnapshotsUnchanged ==
    ASSUME SnapshotsGood, UNCHANGED snaps
    PROVE  SnapshotsGood'
  BY DEF SnapshotsGood, GoodSnapshot, DocIn

\* The DOC in a snapshot is a list of registrations.
LEMMA DocInType ==
    ASSUME ResumeTypeOK, SnapshotsGood, NEW k \in 2 .. Len(snaps)
    PROVE  /\ snaps[k] \in Snapshots
           /\ DocIn(snaps[k]) \in Seq(Registrations)
           /\ Len(DocIn(snaps[k])) \in Nat
<1>1. Len(snaps) \in Nat /\ snaps[k] \in Snapshots
  BY LenProperties, ElementOfSeq DEF ResumeTypeOK
<1>2. GoodSnapshot(snaps[k])
  BY DEF SnapshotsGood
<1>3. snaps[k].live.files \in DocFiles
  BY <1>1 DEF Snapshots, Datasets
<1>4. \A n \in DOMAIN snaps[k].live.files :
          snaps[k].live.files[n] \in Seq(Registrations) \cup {Torn}
  BY <1>3 DEF DocFiles
<1>5. DocIn(snaps[k]) \in Seq(Registrations)
  BY <1>2, <1>4 DEF GoodSnapshot, DocIn
<1>. QED
  BY <1>1, <1>5, LenProperties

LEMMA ProcessEndsStep ==
    ASSUME IInv, ProcessEnds
    PROVE  IInv'
<1>. USE DEF IInv, ProcessEnds
<1>1. ResumeTypeOK'
  BY EmptySeq DEF ResumeTypeOK, ProcessTypeOK
<1>2. Control'
  BY DEF Control
<1>3. SnapshotsGood'
  BY SnapshotsUnchanged
<1>4. NewestGood'
  BY DEF NewestGood, HasNewest, NewestDoc, FileOf, DocIn
<1>5. RunGood'
  BY DEF RunGood, Building
<1>6. NoneMissing'
  BY DEF NoneMissing, HasNewest, NewestDoc, FileOf, DocIn, CompletedBy, Building
<1>. QED
  BY <1>1, <1>2, <1>3, <1>4, <1>5, <1>6

LEMMA EndRunStep ==
    ASSUME IInv, EndRun
    PROVE  IInv'
<1>. USE DEF IInv, EndRun, process
<1>1. ResumeTypeOK'
  BY DEF ResumeTypeOK, ProcessTypeOK
<1>2. Control'
  BY DEF Control
<1>3. SnapshotsGood'
  BY SnapshotsUnchanged
<1>4. NewestGood'
  BY DEF NewestGood, HasNewest, NewestDoc, FileOf, DocIn
<1>5. RunGood'
  <2>1. CASE Building /\ status = "EXEC_SUCCESS"
    <3>1. Consistent(pos - 1) /\ \A k \in 2 .. Len(snaps) : Len(DocIn(snaps[k])) < pos
      BY <2>1 DEF RunGood, Concluding
    <3>2. \A k \in 2 .. Len(snaps) : Len(DocIn(snaps[k])) <= pos - 1
      <4>1. \A k \in 2 .. Len(snaps) : Len(DocIn(snaps[k])) \in Nat
        BY DocInType
      <4>. QED
        BY <3>1, <4>1 DEF ResumeTypeOK, ProcessTypeOK
    <3>3. pos - 1 \in 0 .. Len(list)
      BY <3>1, ResumeAssumption DEF Consistent, ResumeTypeOK, ProcessTypeOK
    <3>5. Consistent(pos - 1)'
      BY <3>1 DEF Consistent
    <3>4. \A k \in 2 .. Len(snaps) : StartsWith(list, DocIn(snaps[k]))
      BY <2>1 DEF RunGood
    <3>. QED
      BY <3>2, <3>3, <3>4, <3>5 DEF RunGood, Building, DocIn, StartsWith
  <2>2. CASE ~(Building /\ status = "EXEC_SUCCESS")
    BY <2>2 DEF RunGood, Building, DocIn, StartsWith
  <2>. QED
    BY <2>1, <2>2
<1>6. NoneMissing'
  BY SMTT(90) DEF NoneMissing, HasNewest, NewestDoc, FileOf, DocIn, CompletedBy, Building, Concluding
<1>. QED
  BY <1>1, <1>2, <1>3, <1>4, <1>5, <1>6

LEMMA NextCheckpointStep ==
    ASSUME IInv, NextCheckpoint
    PROVE  IInv'
<1>. USE DEF IInv, NextCheckpoint, process
<1>1. ResumeTypeOK'
  BY DEF ResumeTypeOK, ProcessTypeOK
<1>2. Control'
  BY DEF Control, ResumeTypeOK, ProcessTypeOK
<1>3. SnapshotsGood'
  BY SnapshotsUnchanged
<1>4. NewestGood'
  BY DEF NewestGood, HasNewest, NewestDoc, FileOf, DocIn
<1>5. RunGood'
  BY DEF RunGood, Building, Concluding, Consistent, DocIn, StartsWith
<1>6. NoneMissing'
  BY SMTT(90) DEF NoneMissing, HasNewest, NewestDoc, FileOf, DocIn, CompletedBy, Building, Concluding
<1>. QED
  BY <1>1, <1>2, <1>3, <1>4, <1>5, <1>6

LEMMA ContinueExecutionStep ==
    ASSUME IInv, ContinueExecution
    PROVE  IInv'
<1>. USE DEF IInv, ContinueExecution, BeginRun
<1>1. PICK n \in 0 .. Len(list) :
          Consistent(n) /\ \A k \in 2 .. Len(snaps) : Len(DocIn(snaps[k])) <= n
  BY DEF RunGood, Building
<1>2. Len(list) \in Nat /\ Prelude \in Nat /\ n \in Nat /\ Prelude <= n
  BY <1>1, ResumeAssumption, LenProperties DEF Consistent, ResumeTypeOK, ProcessTypeOK
<1>3. FirstIncomplete = n + 1
  BY <1>1, <1>2 DEF FirstIncomplete, Consistent
<1>4. n + 1 <= Len(list) /\ pos' = n + 1
  BY <1>3
<1>5. ResumeTypeOK'
  BY <1>2, <1>4 DEF ResumeTypeOK, ProcessTypeOK
<1>6. Control'
  BY <1>2, <1>4 DEF Control
<1>7. SnapshotsGood'
  BY SnapshotsUnchanged
<1>8. NewestGood'
  BY DEF NewestGood, HasNewest, NewestDoc, FileOf, DocIn
<1>9. RunGood'
  <2>1. Consistent(n)'
    BY <1>1 DEF Consistent
  <2>2. pos' - 1 = n
    BY <1>2, <1>4
  <2>3. \A k \in 2 .. Len(snaps) : StartsWith(list, DocIn(snaps[k]))
    BY DEF RunGood, Building
  <2>4. \A k \in 2 .. Len(snaps) : Len(DocIn(snaps[k])) < n + 1
    BY <1>1, <1>2, DocInType
  <2>. QED
    BY <1>4, <2>1, <2>2, <2>3, <2>4 DEF RunGood, Building, Concluding, DocIn, StartsWith
<1>10. NoneMissing'
  BY SMTT(90) DEF NoneMissing, HasNewest, NewestDoc, FileOf, DocIn, CompletedBy, Building, Concluding
<1>. QED
  BY <1>5, <1>6, <1>7, <1>8, <1>9, <1>10

LEMMA OpenDocStep ==
    ASSUME IInv, OpenDoc
    PROVE  IInv'
<1>. USE DEF IInv, OpenDoc, process
<1>1. pos \in 1 .. Len(list) /\ SnapName \in Names /\ SnapName # Empty
  <2>1. pos \in 1 .. Len(list)
    BY ResumeAssumption, LenProperties DEF Control, ResumeTypeOK, ProcessTypeOK
  <2>. QED
    BY <2>1, SnapNames DEF SnapName, ResumeTypeOK, ProcessTypeOK, Empty
<1>2. /\ live' \in Datasets
      /\ live'.newest = SnapName /\ SnapName \in DOMAIN live'.files
      /\ live'.files[SnapName] = Torn
      /\ live'.work = live.work
  BY <1>1, WrittenData DEF ResumeTypeOK
<1>3. ResumeTypeOK'
  BY <1>2 DEF ResumeTypeOK, ProcessTypeOK
<1>4. Control'
  BY <1>2 DEF Control
<1>5. SnapshotsGood'
  BY SnapshotsUnchanged
<1>6. SnapName' = SnapName
  BY DEF SnapName, PreName, CompletedName
<1>7. NewestGood'
  BY <1>2, <1>6 DEF NewestGood, HasNewest, NewestDoc, FileOf
<1>8. RunGood'
  BY <1>2 DEF RunGood, Building, Concluding, Consistent, DocIn, StartsWith
<1>9. NoneMissing'
  BY <1>2 DEF NoneMissing, HasNewest, NewestDoc, FileOf, DocIn, CompletedBy, Building,
              Concluding
<1>. QED
  BY <1>3, <1>4, <1>5, <1>7, <1>8, <1>9

\* The DOC that a run writes is the beginning of the process's list, and the
\* DOCs in the snapshots are beginnings of it.
LEMMA DocToWrite ==
    ASSUME IInv, phase \in {"open", "write", "destroy", "snap"}
    PROVE  /\ pos \in Prelude + 1 .. Len(list)
           /\ Consistent(IF kind = "pre" THEN pos - 1 ELSE pos)
           /\ doc # Torn
           /\ Len(doc) = IF kind = "pre" THEN pos - 1 ELSE pos
           /\ StartsWith(list, doc)
           /\ \A k \in 2 .. Len(snaps) : StartsWith(doc, DocIn(snaps[k]))
<1>. USE DEF IInv
<1>. DEFINE n == IF kind = "pre" THEN pos - 1 ELSE pos
<1>1. Prelude \in Nat /\ Len(list) \in Nat /\ pos \in Prelude + 1 .. Len(list)
  BY ResumeAssumption, LenProperties DEF Control, ResumeTypeOK, ProcessTypeOK
<1>2. Consistent(n)
  BY DEF RunGood, Building, Concluding, Control, ResumeTypeOK, ProcessTypeOK
<1>3. n \in 0 .. Len(list) /\ doc = SubSeq(list, 1, n)
  BY <1>1, <1>2 DEF Consistent
<1>4. Len(doc) = n /\ \A x \in 1 .. n : doc[x] = list[x]
  BY <1>3, FirstOnes DEF ResumeTypeOK, ProcessTypeOK
<1>5. doc # Torn
  BY <1>3, ResumeAssumption DEF Control
<1>6. StartsWith(list, doc)
  BY <1>1, <1>4 DEF StartsWith
<1>7. ASSUME NEW k \in 2 .. Len(snaps)
      PROVE  StartsWith(doc, DocIn(snaps[k]))
  <2>1. StartsWith(list, DocIn(snaps[k])) /\ Len(DocIn(snaps[k])) < pos
    BY DEF RunGood, Building, Control
  <2>. QED
    BY <1>1, <1>4, <2>1, DocInType DEF StartsWith
<1>. QED
  BY <1>1, <1>2, <1>4, <1>5, <1>6, <1>7

LEMMA WriteDocStep ==
    ASSUME IInv, WriteDoc
    PROVE  IInv'
<1>. USE DEF IInv, WriteDoc, process
<1>1. /\ pos \in 1 .. Len(list) /\ doc # Torn
      /\ \A k \in 2 .. Len(snaps) : StartsWith(doc, DocIn(snaps[k]))
  BY DocToWrite, ResumeAssumption
<1>2. SnapName \in Names /\ SnapName # Empty
  BY <1>1, SnapNames DEF SnapName, ResumeTypeOK, ProcessTypeOK, Empty
<1>3. /\ live' \in Datasets
      /\ live'.newest = SnapName /\ SnapName \in DOMAIN live'.files
      /\ live'.files[SnapName] = doc
      /\ live'.work = live.work
  BY <1>2, WrittenData DEF ResumeTypeOK, ProcessTypeOK
<1>4. SnapName' = SnapName
  BY DEF SnapName, PreName, CompletedName
<1>5. HasSnap(SnapName)' <=> HasSnap(SnapName)
  BY <1>4 DEF HasSnap, SnapIndex
<1>6. ResumeTypeOK'
  BY <1>3 DEF ResumeTypeOK, ProcessTypeOK
<1>7. Control'
  BY <1>3, <1>5 DEF Control
<1>8. SnapshotsGood'
  BY SnapshotsUnchanged
<1>9. NewestGood'
  BY SMTT(90), <1>1, <1>3, <1>4 DEF NewestGood, HasNewest, NewestDoc, FileOf, DocIn, StartsWith
<1>10. RunGood'
  BY <1>3 DEF RunGood, Building, Concluding, Consistent, DocIn, StartsWith
<1>11. NoneMissing'
  BY <1>1, <1>3 DEF NoneMissing, HasNewest, NewestDoc, FileOf, DocIn, CompletedBy,
                    Building, Concluding
<1>. QED
  BY <1>6, <1>7, <1>8, <1>9, <1>10, <1>11

\* The only snapshot that a run destroys is the one taken before the checkpoint
\* at hand: nothing is left of a later state once the process is at pos.
LEMMA DestroyedIsPre ==
    ASSUME IInv, phase \in {"destroy", "snap"}, HasSnap(SnapName)
    PROVE  kind = "pre" /\ SnapIndex(SnapName) \in 2 .. Len(snaps)
<1>. USE DEF IInv
<1>. DEFINE r == SnapIndex(SnapName)
<1>1. r \in 1 .. Len(snaps) /\ snaps[r].name = SnapName /\ Len(snaps) \in Nat
  BY SnapFound, LenProperties DEF ResumeTypeOK
<1>2. pos \in 1 .. Len(list) /\ pos \in Nat
  BY DocToWrite, ResumeAssumption DEF ResumeTypeOK, ProcessTypeOK
<1>3. SnapName.kind = kind /\ SnapName.cp = list[pos].name
  BY <1>2, SnapNames DEF SnapName, ResumeTypeOK, ProcessTypeOK
<1>4. r # 1
  BY <1>1, <1>3 DEF SnapshotsGood, Empty, ResumeTypeOK, ProcessTypeOK
<1>5. r \in 2 .. Len(snaps)
  BY <1>1, <1>4
<1>6. CASE kind = "completed"
  <2>1. list \in Lists /\ pos \in DOMAIN list
    BY <1>2, LenProperties DEF Control, ResumeTypeOK, ProcessTypeOK
  <2>2. GoodSnapshot(snaps[r])
    BY <1>5 DEF SnapshotsGood
  <2>3. Len(DocIn(snaps[r])) = pos
    BY <1>1, <1>3, <1>6, <2>1, <2>2 DEF GoodSnapshot
  <2>4. Len(DocIn(snaps[r])) < pos
    BY <1>5 DEF RunGood, Building, Control
  <2>. QED
    BY <1>2, <2>3, <2>4
<1>. QED
  BY <1>5, <1>6 DEF ResumeTypeOK, ProcessTypeOK

LEMMA DestroyOldSnapStep ==
    ASSUME IInv, DestroyOldSnap
    PROVE  IInv'
<1>. USE DEF IInv, DestroyOldSnap, process
<1>. DEFINE r == SnapIndex(SnapName)
            Old(j) == IF j < r THEN j ELSE j + 1
<1>1. /\ HasSnap(SnapName) /\ kind = "pre" /\ snaps[r].name = SnapName
      /\ r \in 2 .. Len(snaps) /\ r \in 1 .. Len(snaps) /\ Len(snaps) \in Nat
  BY DestroyedIsPre, SnapFound, LenProperties DEF Control, ResumeTypeOK
<1>2. snaps' = RemoveAt(snaps, r)
  BY DEF DestroySnap
<1>3. /\ snaps' \in Seq(Snapshots) /\ Len(snaps') = Len(snaps) - 1
      /\ \A j \in 1 .. Len(snaps) - 1 : snaps'[j] = IF j < r THEN snaps[j] ELSE snaps[j + 1]
  BY <1>1, <1>2, RemovedAt DEF ResumeTypeOK
<1>. HIDE DEF r
<1>15. /\ \A j \in 1 .. Len(snaps') : snaps'[j] = snaps[Old(j)] /\ Old(j) \in 1 .. Len(snaps)
       /\ \A j \in 1 .. Len(snaps') : Old(j) # r
  BY <1>1, <1>3
<1>16. DOMAIN snaps = 1 .. Len(snaps) /\ DOMAIN snaps' = 1 .. Len(snaps')
  BY <1>3, LenProperties DEF ResumeTypeOK
<1>4. \A j \in 2 .. Len(snaps') : Old(j) \in 2 .. Len(snaps) /\ Old(j) # r
  BY <1>1, <1>3
<1>5. \A i, j \in 1 .. Len(snaps') : /\ i < j <=> Old(i) < Old(j)
                                     /\ Old(i) = Old(j) => i = j
  BY <1>1, <1>3
<1>17. /\ \A i \in 1 .. Len(snaps') : Old(i) = IF i < r THEN i ELSE i + 1
       /\ Len(snaps') \in 1 .. Len(snaps') /\ Len(snaps) = Len(snaps') + 1
  BY <1>1, <1>3
<1>. HIDE DEF Old
<1>6. \A k \in 2 .. Len(snaps') : DocIn(snaps[Old(k)]) = DocIn(snaps'[k])
  BY <1>4, <1>15, <1>17 DEF DocIn
<1>7. \A j \in DOMAIN snaps : snaps[j].name = SnapName => j = r
  BY <1>1, <1>16 DEF SnapshotsGood
<1>8. SnapName' = SnapName
  BY DEF SnapName, PreName, CompletedName
<1>9. ResumeTypeOK'
  BY <1>3 DEF ResumeTypeOK, ProcessTypeOK
<1>10. Control'
  <2>1. ~ \E j \in 1 .. Len(snaps') : snaps'[j].name = SnapName
    BY <1>7, <1>15, <1>16
  <2>2. ~HasSnap(SnapName)'
    BY <1>16, <1>8, <2>1 DEF HasSnap, SnapIndex
  <2>. QED
    BY <2>2 DEF Control
<1>11. SnapshotsGood'
  <2>1. Len(snaps') >= 1 /\ snaps'[1] = snaps[1]
    BY <1>1, <1>3
  <2>2. snaps'[1] = [name |-> Empty, live |-> EmptyDataset]
    BY <2>1 DEF SnapshotsGood
  <2>3. \A j, k \in DOMAIN snaps' : snaps'[j].name = snaps'[k].name => j = k
    BY <1>5, <1>15, <1>16 DEF SnapshotsGood
  <2>4. \A k \in 2 .. Len(snaps') : GoodSnapshot(snaps[Old(k)])
    BY <1>4 DEF SnapshotsGood
  <2>5. \A k \in 2 .. Len(snaps') : GoodSnapshot(snaps'[k])
    BY <1>15, <1>17, <2>4
  <2>6. \A j, k \in 2 .. Len(snaps') :
            j < k => StartsWith(DocIn(snaps[Old(k)]), DocIn(snaps[Old(j)]))
    BY <1>4, <1>5, <1>17 DEF SnapshotsGood
  <2>. QED
    BY <1>6, <2>1, <2>2, <2>3, <2>5, <2>6 DEF SnapshotsGood, GoodSnapshot, DocIn
<1>12. NewestGood'
  <2>1. NewestDoc' = NewestDoc /\ (HasNewest' <=> HasNewest)
    BY DEF NewestDoc, HasNewest, FileOf
  <2>2. HasNewest /\ NewestDoc # Torn =>
            \A k \in 2 .. Len(snaps') : StartsWith(NewestDoc, DocIn(snaps[Old(k)]))
    BY <1>4 DEF NewestGood
  <2>3. HasNewest /\ NewestDoc # Torn =>
            \A k \in 2 .. Len(snaps') : StartsWith(NewestDoc, DocIn(snaps'[k]))
    BY <1>6, <2>2
  <2>. QED
    BY <1>8, <2>1, <2>3 DEF NewestGood, HasNewest, NewestDoc, FileOf, DocIn
<1>13. RunGood'
  <2>1. /\ \A k \in 2 .. Len(snaps) : StartsWith(list, DocIn(snaps[k]))
        /\ \A k \in 2 .. Len(snaps) : Len(DocIn(snaps[k])) < pos
    BY DEF RunGood, Building, Control
  <2>2. /\ \A k \in 2 .. Len(snaps') : StartsWith(list, DocIn(snaps'[k]))
        /\ \A k \in 2 .. Len(snaps') : Len(DocIn(snaps'[k])) < pos
    BY <1>4, <1>6, <2>1
  <2>3. Consistent(pos - 1)'
    BY <1>1 DEF RunGood, Building, Control, Concluding, Consistent
  <2>. QED
    BY <1>1, <2>2, <2>3 DEF RunGood, Concluding, DocIn
<1>14. NoneMissing'
  <2>1. ASSUME NEW d, NEW n, NEW k \in 1 .. Len(snaps'), NEW q \in 1 .. Len(snaps),
               q = k \/ (q = k + 1 /\ r <= q), CompletedBy(snaps, d, n, q)
        PROVE  CompletedBy(snaps', d, n, k)
    <3>1. SUFFICES ASSUME NEW m \in Prelude + 1 .. n
                   PROVE  \E j \in 2 .. k :
                             snaps'[j].name = [cp |-> d[m].name, kind |-> "completed"]
      BY DEF CompletedBy
    <3>2. PICK i \in 2 .. q :
              snaps[i].name = [cp |-> d[m].name, kind |-> "completed"]
      BY <2>1 DEF CompletedBy
    <3>3. i # r
      BY <1>1, <3>2 DEF SnapName, PreName
    <3>4. CASE i < r
      <4>1. i \in 2 .. k /\ i \in 1 .. Len(snaps') /\ Old(i) = i
        BY <1>1, <1>17, <2>1, <3>4
      <4>. QED
        BY <1>15, <3>2, <4>1
    <3>5. CASE i > r
      <4>1. i - 1 \in 2 .. k /\ i - 1 \in 1 .. Len(snaps') /\ Old(i - 1) = i
        BY <1>1, <1>17, <2>1, <3>5
      <4>. QED
        BY <1>15, <3>2, <4>1
    <3>. QED
      BY <1>1, <3>3, <3>4, <3>5
  <2>2. ASSUME ~crashed, NEW k \in 2 .. Len(snaps')
        PROVE  CompletedBy(snaps', DocIn(snaps'[k]), Len(DocIn(snaps'[k])), k)
    <3>1. CompletedBy(snaps, DocIn(snaps[Old(k)]), Len(DocIn(snaps[Old(k)])), Old(k))
      BY <1>4, <2>2 DEF NoneMissing
    <3>2. /\ k \in 1 .. Len(snaps') /\ Old(k) \in 1 .. Len(snaps)
          /\ Old(k) = k \/ (Old(k) = k + 1 /\ r <= Old(k))
      BY <1>1, <1>15, <1>17
    <3>. QED
      BY <1>6, <2>1, <3>1, <3>2
  <2>3. ASSUME ~crashed, Building, status = "EXEC_SUCCESS"
        PROVE  CompletedBy(snaps', doc, Len(doc), Len(snaps'))
    <3>1. CompletedBy(snaps, doc, Len(doc), Len(snaps))
      BY <1>1, <2>3 DEF NoneMissing, Concluding
    <3>2. Len(snaps) \in 1 .. Len(snaps) /\ r <= Len(snaps)
      BY <1>1
    <3>. QED
      BY <1>17, <2>1, <3>1, <3>2
  <2>4. /\ Building' => Building
        /\ ~Concluding'
        /\ NewestDoc' = NewestDoc /\ (HasNewest' <=> HasNewest)
    BY <1>1 DEF Building, Concluding, NewestDoc, HasNewest, FileOf
  <2>5. ~crashed => ~(HasNewest /\ NewestDoc = Torn)
    BY DEF NoneMissing
  <2>. QED
    BY <2>2, <2>3, <2>4, <2>5 DEF NoneMissing, DocIn
<1>. QED
  BY <1>9, <1>10, <1>11, <1>12, <1>13, <1>14

LEMMA TakeNewSnapStep ==
    ASSUME SamePositions, IInv, TakeNewSnap
    PROVE  IInv'
<1>. USE DEF IInv, TakeNewSnap, process
<1>. DEFINE new == [name |-> SnapName, live |-> live]
            last == Len(snaps) + 1
<1>1. /\ pos \in Prelude + 1 .. Len(list)
      /\ Consistent(IF kind = "pre" THEN pos - 1 ELSE pos)
      /\ doc # Torn
      /\ Len(doc) = IF kind = "pre" THEN pos - 1 ELSE pos
      /\ StartsWith(list, doc)
      /\ \A k \in 2 .. Len(snaps) : StartsWith(doc, DocIn(snaps[k]))
  BY DocToWrite
<1>2. /\ Prelude \in Nat \ {0} /\ pos \in Nat /\ pos \in 1 .. Len(list)
      /\ Len(list) \in Nat /\ DOMAIN list = 1 .. Len(list) /\ Len(snaps) \in Nat
      /\ kind \in {"pre", "completed"}
  BY <1>1, ResumeAssumption, LenProperties DEF ResumeTypeOK, ProcessTypeOK
<1>3. /\ SnapName \in Names /\ SnapName # Empty /\ SnapName.kind = kind
      /\ SnapName.cp = list[pos].name
  BY <1>2, SnapNames DEF SnapName, ResumeTypeOK, ProcessTypeOK, Empty
<1>4. live.newest = SnapName /\ HasNewest /\ SnapName \in DOMAIN live.files
      /\ NewestDoc = doc /\ live.files[SnapName] = doc
  BY <1>3 DEF NewestGood, HasNewest, NewestDoc, FileOf
<1>5. new \in Snapshots
  BY <1>3 DEF Snapshots, ResumeTypeOK
<1>. HIDE DEF new
<1>6. snaps' = Append(snaps, new)
  BY DEF TakeSnap, new
<1>7. /\ snaps' \in Seq(Snapshots) /\ Len(snaps') = last
      /\ \A k \in 1 .. Len(snaps) : snaps'[k] = snaps[k]
      /\ snaps'[last] = new
  BY <1>5, <1>6, AppendProperties DEF ResumeTypeOK
<1>8. DOMAIN snaps = 1 .. Len(snaps) /\ DOMAIN snaps' = 1 .. last
  BY <1>7, LenProperties DEF ResumeTypeOK
<1>9. DocIn(new) = doc
  BY <1>4 DEF DocIn, new
<1>10. GoodSnapshot(new)
  <2>1. ASSUME NEW l \in Lists, NEW i \in DOMAIN l, l[i].name = new.name.cp
        PROVE  Len(DocIn(new)) = IF new.name.kind = "pre" THEN i - 1 ELSE i
    <3>1. list \in Lists
      BY DEF Control
    <3>2. i = pos
      BY <1>2, <1>3, <2>1, <3>1 DEF SamePositions, new
    <3>. QED
      BY <1>1, <1>2, <1>3, <1>9, <3>2 DEF new
  <2>2. new.name = SnapName /\ new.live = live
    BY DEF new
  <2>3. live.work = WorkOf(doc) /\ Len(doc) >= Prelude
    BY <1>1, <1>2 DEF Consistent
  <2>. QED
    BY <1>1, <1>2, <1>3, <1>4, <1>9, <2>1, <2>2, <2>3 DEF GoodSnapshot
<1>11. ~ \E k \in DOMAIN snaps : snaps[k].name = SnapName
  BY <1>8, SnapFound DEF Control, ResumeTypeOK
<1>12. \A k \in 2 .. last : k = last \/ k \in 2 .. Len(snaps)
  BY <1>2
<1>21. /\ kind = "pre" => phase' = "exec" /\ pos' = pos /\ snapped' = snapped \cup {pos}
       /\ kind = "completed" => phase' = "next" /\ pos' = pos + 1 /\ snapped' = snapped
  OBVIOUS
<1>. HIDE DEF TakeNewSnap
<1>22. UNCHANGED <<live, up, list, origin, crashed, doc, completed, stop, kind, status>>
       /\ phase = "snap"
  BY DEF TakeNewSnap
<1>23. snapped' \subseteq Nat /\ snapped' \subseteq Prelude + 1 .. Len(list)
  <2>1. snapped \subseteq Prelude + 1 .. Len(list)
    BY DEF Control
  <2>2. snapped' \subseteq snapped \cup {pos}
    BY <1>2, <1>21
  <2>3. \A p \in snapped' : p \in Prelude + 1 .. Len(list)
    BY <1>1, <2>1, <2>2
  <2>4. \A p \in snapped' : p \in Nat
    BY <1>2, <2>3
  <2>. QED
    BY <2>3, <2>4
<1>24. pos' \in Nat /\ phase' \in {"exec", "next"}
  BY <1>2, <1>21
<1>13. ResumeTypeOK'
  BY <1>7, <1>22, <1>23, <1>24 DEF ResumeTypeOK, ProcessTypeOK
<1>14. Control'
  <2>1. /\ up /\ origin # "resume" /\ list \in Lists /\ stop <= Len(list) + 1
    BY <1>22 DEF Control
  <2>2. /\ Prelude < pos' /\ pos' <= Len(list) + 1
        /\ phase' = "exec" => pos' <= Len(list) /\ kind = "pre"
    BY <1>1, <1>2, <1>21
  <2>. QED
    BY <1>22, <1>23, <1>24, <2>1, <2>2 DEF Control
<1>. USE DEF TakeNewSnap
<1>15. SnapshotsGood'
  <2>1. Len(snaps') >= 1 /\ snaps'[1] = [name |-> Empty, live |-> EmptyDataset]
    BY <1>2, <1>7 DEF SnapshotsGood
  <2>2. ASSUME NEW j \in DOMAIN snaps', NEW k \in DOMAIN snaps',
               snaps'[j].name = snaps'[k].name
        PROVE  j = k
    <3>1. (j = last \/ j \in DOMAIN snaps) /\ (k = last \/ k \in DOMAIN snaps)
      BY <1>2, <1>8
    <3>2. new.name = SnapName
      BY DEF new
    <3>. QED
      BY <1>7, <1>8, <1>11, <2>2, <3>1, <3>2 DEF SnapshotsGood
  <2>3. \A k \in 2 .. last : GoodSnapshot(snaps'[k])
    BY <1>2, <1>7, <1>10, <1>12 DEF SnapshotsGood
  <2>4. ASSUME NEW j \in 2 .. last, NEW k \in 2 .. last, j < k
        PROVE  StartsWith(DocIn(snaps'[k]), DocIn(snaps'[j]))
    <3>1. j \in 2 .. Len(snaps)
      BY <1>2, <2>4
    <3>2. CASE k = last
      BY <1>1, <1>2, <1>7, <1>9, <3>1, <3>2 DEF DocIn
    <3>3. CASE k \in 2 .. Len(snaps)
      BY <1>2, <1>7, <2>4, <3>1, <3>3 DEF SnapshotsGood
    <3>. QED
      BY <1>12, <3>2, <3>3
  <2>. QED
    BY SMTT(90), <1>7, <2>1, <2>2, <2>3, <2>4 DEF SnapshotsGood, GoodSnapshot, DocIn
<1>16. /\ NewestDoc' = doc /\ HasNewest' /\ doc' = doc
  BY <1>4 DEF NewestDoc, HasNewest, FileOf
<1>17. \A k \in 2 .. last : StartsWith(doc, DocIn(snaps'[k]))
  <2>1. StartsWith(doc, doc)
    BY LenProperties DEF StartsWith, ResumeTypeOK, ProcessTypeOK
  <2>2. \A k \in 2 .. Len(snaps) : snaps'[k] = snaps[k]
    BY <1>2, <1>7
  <2>. QED
    BY <1>1, <1>7, <1>9, <1>12, <2>1, <2>2
<1>18. NewestGood'
  BY <1>4, <1>7, <1>16, <1>17 DEF NewestGood, DocIn, NewestDoc, HasNewest, FileOf
<1>19. RunGood'
  <2>1. \A k \in 2 .. last :
            StartsWith(list, DocIn(snaps'[k])) /\ Len(DocIn(snaps'[k])) <= Len(doc)
    <3>1. \A k \in 2 .. Len(snaps) : snaps'[k] = snaps[k]
      BY <1>2, <1>7
    <3>2. \A k \in 2 .. Len(snaps) : StartsWith(list, DocIn(snaps[k]))
      BY DEF RunGood, Building, Control
    <3>3. \A k \in 2 .. last : StartsWith(list, DocIn(snaps'[k]))
      BY <1>1, <1>7, <1>9, <1>12, <3>1, <3>2
    <3>. QED
      BY <1>17, <3>3 DEF StartsWith
  <2>2. ASSUME NEW k \in 2 .. last
        PROVE  Len(DocIn(snaps'[k])) < pos'
    <3>1. Len(DocIn(snaps'[k])) \in Nat /\ Len(DocIn(snaps'[k])) <= Len(doc)
      BY <1>7, <1>13, <1>15, <2>1, DocInType DEF StartsWith, SnapshotsGood, GoodSnapshot
    <3>. QED
      BY <1>1, <1>2, <3>1
  <2>3. CASE kind = "pre"
    <3>1. Consistent(pos - 1)'
      BY <1>1, <2>3 DEF Consistent
    <3>. QED
      BY <1>7, <2>1, <2>2, <2>3, <3>1 DEF RunGood, Concluding, DocIn
  <2>4. CASE kind = "completed"
    <3>1. Consistent(pos - 1)'
      <4>1. pos' - 1 = pos /\ UNCHANGED <<list, completed, doc, live>>
        BY <1>2, <1>21, <1>22, <2>4
      <4>. QED
        BY <1>1, <1>2, <2>4, <4>1 DEF Consistent
    <3>. QED
      BY <1>7, <2>1, <2>2, <2>4, <3>1 DEF RunGood, Concluding, DocIn
  <2>. QED
    BY <1>2, <2>3, <2>4
<1>20. NoneMissing'
  <2>1. ASSUME NEW d, NEW n, NEW k \in 1 .. Len(snaps), CompletedBy(snaps, d, n, k)
        PROVE  CompletedBy(snaps', d, n, k) /\ CompletedBy(snaps', d, n, last)
    <3>1. \A j \in 2 .. k : j \in 2 .. last /\ snaps'[j] = snaps[j]
      BY <1>2, <1>7
    <3>. QED
      BY <2>1, <3>1 DEF CompletedBy
  <2>2. ASSUME ~crashed
        PROVE  CompletedBy(snaps', doc, Len(doc), last)
    <3>1. Len(snaps) \in 1 .. Len(snaps) /\ Building /\ status = "EXEC_SUCCESS"
      BY <1>2 DEF SnapshotsGood, Control, Building
    <3>2. CASE kind = "pre"
      BY <2>1, <2>2, <3>1, <3>2 DEF NoneMissing, Concluding
    <3>3. CASE kind = "completed"
      <4>1. CompletedBy(snaps', doc, pos - 1, last)
        BY <2>1, <2>2, <3>1, <3>3 DEF NoneMissing, Concluding
      <4>2. Len(doc) = pos /\ doc[pos] = list[pos]
        BY <1>1, <1>2, <3>3 DEF StartsWith
      <4>3. snaps'[last].name = [cp |-> doc[pos].name, kind |-> "completed"]
        BY <1>7, <3>3, <4>2 DEF new, SnapName, CompletedName
      <4>4. last \in 2 .. last
        BY <1>2, <3>1
      <4>. QED
        BY <1>2, <4>1, <4>2, <4>3, <4>4 DEF CompletedBy
    <3>. QED
      BY <1>2, <3>2, <3>3
  <2>3. ASSUME ~crashed, NEW k \in 2 .. last
        PROVE  CompletedBy(snaps', DocIn(snaps'[k]), Len(DocIn(snaps'[k])), k)
    <3>1. CASE k = last
      BY <1>7, <1>9, <2>2, <2>3, <3>1
    <3>2. CASE k \in 2 .. Len(snaps)
      <4>1. k \in 1 .. Len(snaps) /\ snaps'[k] = snaps[k]
        BY <1>2, <1>7, <3>2
      <4>. QED
        BY <2>1, <2>3, <3>2, <4>1 DEF NoneMissing
    <3>. QED
      BY <1>12, <3>1, <3>2
  <2>4. ~Concluding'
    BY DEF Concluding
  <2>. QED
    BY <1>1, <1>7, <1>16, <2>2, <2>3, <2>4 DEF NoneMissing, DocIn
<1>. QED
  BY <1>13, <1>14, <1>15, <1>18, <1>19, <1>20

\* The work of a DOC, element by element.
LEMMA WorkOfDoc ==
    ASSUME NEW d \in Seq(Registrations), Prelude <= Len(d)
    PROVE  /\ WorkOf(d) \in Seq(Work)
           /\ Len(WorkOf(d)) = Len(d) - Prelude
           /\ \A k \in 1 .. Len(d) - Prelude :
                 WorkOf(d)[k] = [cp |-> d[Prelude + k], full |-> TRUE]
<1>1. Len(d) \in Nat /\ Prelude \in Nat /\ Len(d) - Prelude \in Nat
  BY LenProperties, ResumeAssumption
<1>2. \A k \in 1 .. Len(d) - Prelude : d[Prelude + k] \in Registrations
  BY <1>1, ElementOfSeq
<1>3. WorkOf(d) \in [1 .. Len(d) - Prelude -> Work]
  BY <1>2 DEF WorkOf, Work
<1>4. WorkOf(d) \in Seq(Work)
  BY <1>1, <1>3, SeqDef
<1>5. Len(WorkOf(d)) = Len(d) - Prelude
  BY <1>1, <1>3, <1>4, LenProperties
<1>. QED
  BY <1>4, <1>5 DEF WorkOf

\* A step that writes no file and takes no snapshot leaves the newest DOC file
\* and the DOCs of the snapshots alone.
LEMMA FilesUnchanged ==
    ASSUME live'.files = live.files, live'.newest = live.newest, UNCHANGED snaps
    PROVE  /\ NewestDoc' = NewestDoc /\ (HasNewest' <=> HasNewest)
           /\ \A k \in 2 .. Len(snaps) : DocIn(snaps'[k]) = DocIn(snaps[k])
  BY DEF NewestDoc, HasNewest, FileOf, DocIn

LEMMA ExecuteStartsStep ==
    ASSUME IInv, ExecuteStarts
    PROVE  IInv'
<1>. USE DEF IInv, ExecuteStarts, process
<1>1. pos \in 1 .. Len(list) /\ list[pos] \in Registrations
  <2>1. pos \in 1 .. Len(list)
    BY ResumeAssumption, LenProperties DEF Control, ResumeTypeOK, ProcessTypeOK
  <2>. QED
    BY <2>1, ElementOfSeq DEF ResumeTypeOK, ProcessTypeOK
<1>2. /\ live' \in Datasets
      /\ live'.files = live.files /\ live'.newest = live.newest
      /\ live'.work = Append(live.work, [cp |-> list[pos], full |-> FALSE])
      /\ live'.work # <<>>
  <2>1. live.work \in Seq(Work) /\ [cp |-> list[pos], full |-> FALSE] \in Work
    BY <1>1 DEF ResumeTypeOK, Datasets, Work
  <2>2. /\ Append(live.work, [cp |-> list[pos], full |-> FALSE]) \in Seq(Work)
        /\ Append(live.work, [cp |-> list[pos], full |-> FALSE]) # <<>>
    BY <2>1, AppendProperties
  <2>. QED
    BY <2>2 DEF ResumeTypeOK, Datasets
<1>3. ResumeTypeOK'
  BY <1>2 DEF ResumeTypeOK, ProcessTypeOK
<1>4. Control'
  BY <1>2 DEF Control
<1>5. SnapshotsGood'
  BY SnapshotsUnchanged
<1>6. NewestGood'
  BY <1>2, FilesUnchanged DEF NewestGood
<1>7. RunGood'
  <2>1. Building /\ status = "EXEC_SUCCESS" => Running'
    BY <1>2 DEF RunGood, Concluding, Consistent, Running
  <2>. QED
    BY <1>2, <2>1, FilesUnchanged DEF RunGood, Building
<1>8. NoneMissing'
  BY <1>2, FilesUnchanged DEF NoneMissing, Building, Concluding
<1>. QED
  BY <1>3, <1>4, <1>5, <1>6, <1>7, <1>8

LEMMA ExecuteRaisesStep ==
    ASSUME IInv, ExecuteRaises
    PROVE  IInv'
<1>. USE DEF IInv, ExecuteRaises, process
<1>1. pos \in 1 .. Len(list) /\ list[pos] \in Registrations /\ Prelude \in Nat
      /\ pos \in Prelude + 1 .. Len(list)
  <2>1. pos \in 1 .. Len(list) /\ pos \in Prelude + 1 .. Len(list)
    BY ResumeAssumption, LenProperties DEF Control, ResumeTypeOK, ProcessTypeOK
  <2>. QED
    BY <2>1, ElementOfSeq, ResumeAssumption DEF ResumeTypeOK, ProcessTypeOK
<1>2. /\ doc' \in Seq(Registrations) /\ completed' \subseteq Nat
      /\ phase' \in {"idle", "next"} /\ (pos' = pos \/ pos' = pos + 1)
      /\ phase' = "next" => pos' = pos + 1
  <2>1. Append(doc, list[pos]) \in Seq(Registrations) /\ doc \in Seq(Registrations)
    BY <1>1, AppendProperties DEF ResumeTypeOK, ProcessTypeOK
  <2>2. completed \subseteq Nat /\ completed \ {pos} \subseteq Nat
    BY DEF ResumeTypeOK, ProcessTypeOK
  <2>. QED
    BY <2>1, <2>2
<1>3. ResumeTypeOK'
  BY <1>1, <1>2 DEF ResumeTypeOK, ProcessTypeOK
<1>4. Control'
  BY <1>1, <1>2 DEF Control
<1>5. SnapshotsGood'
  BY SnapshotsUnchanged
<1>6. NewestGood'
  BY <1>2, FilesUnchanged DEF NewestGood
<1>7. RunGood'
  BY FilesUnchanged DEF RunGood, Building
<1>8. NoneMissing'
  BY <1>2, FilesUnchanged DEF NoneMissing
<1>. QED
  BY <1>3, <1>4, <1>5, <1>6, <1>7, <1>8

LEMMA ExecuteReturnsStep ==
    ASSUME IInv, ExecuteReturns
    PROVE  IInv'
<1>. USE DEF IInv, ExecuteReturns, process
<1>. DEFINE n == Len(live.work)
<1>1. /\ pos \in 1 .. Len(list) /\ list[pos] \in Registrations /\ Prelude \in Nat
      /\ pos \in Prelude + 1 .. Len(list) /\ Len(list) \in Nat
  <2>1. pos \in 1 .. Len(list) /\ pos \in Prelude + 1 .. Len(list) /\ Len(list) \in Nat
    BY ResumeAssumption, LenProperties DEF Control, ResumeTypeOK, ProcessTypeOK
  <2>. QED
    BY <2>1, ElementOfSeq, ResumeAssumption DEF ResumeTypeOK, ProcessTypeOK
<1>2. live.work \in Seq(Work) /\ n \in Nat /\ n \in 1 .. n /\ live.work[n] \in Work
  <2>1. live.work \in Seq(Work) /\ live.work # <<>>
    BY DEF Control, ResumeTypeOK, Datasets
  <2>2. n \in 1 .. n
    BY <2>1, EmptySeq
  <2>. QED
    BY <2>1, <2>2, ElementOfSeq, LenProperties
<1>3. /\ live' \in Datasets
      /\ live'.files = live.files /\ live'.newest = live.newest
      /\ live'.work = [live.work EXCEPT ![n] = [cp |-> @.cp, full |-> TRUE]]
  <2>1. [cp |-> live.work[n].cp, full |-> TRUE] \in Work
    BY <1>2 DEF Work
  <2>2. [live.work EXCEPT ![n] = [cp |-> @.cp, full |-> TRUE]] \in Seq(Work)
    BY <1>2, <2>1, ExceptSeq
  <2>. QED
    BY <2>2 DEF ResumeTypeOK, Datasets
<1>4. /\ doc' \in Seq(Registrations) /\ Len(doc') = Len(doc) + 1
      /\ \A x \in 1 .. Len(doc) : doc'[x] = doc[x]
      /\ doc'[Len(doc) + 1] = list[pos]
      /\ Len(doc) \in Nat
  BY <1>1, AppendProperties, LenProperties DEF ResumeTypeOK, ProcessTypeOK
<1>5. ResumeTypeOK'
  BY <1>1, <1>3, <1>4 DEF ResumeTypeOK, ProcessTypeOK
<1>6. Control'
  BY <1>1 DEF Control
<1>7. SnapshotsGood'
  BY SnapshotsUnchanged
<1>8. NewestGood'
  BY <1>3, FilesUnchanged DEF NewestGood
<1>9. CASE status = "EXEC_SUCCESS"
  <2>1. Running /\ Building
    BY <1>9 DEF RunGood, Building, Control
  <2>2. Len(doc) = pos - 1 /\ \A x \in 1 .. pos - 1 : doc[x] = list[x]
    BY SMTT(90), <1>1, <2>1, FirstOnes DEF Running, ResumeTypeOK, ProcessTypeOK
  <2>3. /\ SubSeq(list, 1, pos) \in Seq(Registrations) /\ Len(SubSeq(list, 1, pos)) = pos
        /\ \A x \in 1 .. pos : SubSeq(list, 1, pos)[x] = list[x]
    BY SMTT(90), <1>1, FirstOnes DEF ResumeTypeOK, ProcessTypeOK
  <2>4. doc' = SubSeq(list, 1, pos)
    <3>1. Len(doc') = pos /\ \A x \in 1 .. pos : doc'[x] = list[x]
      BY <1>1, <1>4, <2>2
    <3>. QED
      BY <1>4, <2>3, <3>1, SeqEqual
  <2>5. live'.work = WorkOf(doc')
    <3>1. /\ WorkOf(doc) \in Seq(Work) /\ Len(WorkOf(doc)) = pos - 1 - Prelude
          /\ \A k \in 1 .. pos - 1 - Prelude :
                WorkOf(doc)[k] = [cp |-> doc[Prelude + k], full |-> TRUE]
      <4>1. doc \in Seq(Registrations) /\ Prelude <= Len(doc)
        BY <1>1, <2>2 DEF ResumeTypeOK, ProcessTypeOK
      <4>. QED
        BY <2>2, <4>1, WorkOfDoc
    <3>2. /\ WorkOf(doc') \in Seq(Work) /\ Len(WorkOf(doc')) = pos - Prelude
          /\ \A k \in 1 .. pos - Prelude :
                WorkOf(doc')[k] = [cp |-> doc'[Prelude + k], full |-> TRUE]
      <4>1. Len(doc') = pos /\ Prelude <= pos
        BY <1>1, <1>4, <2>2
      <4>. QED
        BY <1>4, <4>1, WorkOfDoc
    <3>3. /\ n = pos - Prelude
          /\ \A k \in 1 .. pos - 1 - Prelude : live.work[k] = WorkOf(doc)[k]
          /\ live.work[pos - Prelude] = [cp |-> list[pos], full |-> FALSE]
      <4>1. [cp |-> list[pos], full |-> FALSE] \in Work
        BY <1>1 DEF Work
      <4>. QED
        BY <1>1, <2>1, <3>1, <4>1, AppendProperties DEF Running
    <3>4. live'.work \in Seq(Work)
      BY <1>3 DEF Datasets
    <3>5. Len(live'.work) = n /\ \A k \in 1 .. n :
              live'.work[k] = IF k = n THEN [cp |-> live.work[n].cp, full |-> TRUE] ELSE live.work[k]
      <4>1. [cp |-> live.work[n].cp, full |-> TRUE] \in Work
        BY <1>2 DEF Work
      <4>. QED
        BY <1>2, <1>3, <4>1, ExceptSeq
    <3>6. ASSUME NEW k \in 1 .. n
          PROVE  live'.work[k] = WorkOf(doc')[k]
      <4>1. CASE k = n
        <5>1. live'.work[k] = [cp |-> list[pos], full |-> TRUE]
          <6>1. live.work[n] = [cp |-> list[pos], full |-> FALSE]
            BY <3>3
          <6>2. live.work[n].cp = list[pos]
            BY <6>1
          <6>. QED
            BY <3>5, <4>1, <6>2
        <5>2. doc'[Prelude + k] = list[pos] /\ k \in 1 .. pos - Prelude
          BY SMTT(90), <1>1, <1>4, <2>2, <3>3, <4>1
        <5>. QED
          BY <3>2, <5>1, <5>2
      <4>2. CASE k # n
        <5>1. k \in 1 .. pos - 1 - Prelude /\ k \in 1 .. pos - Prelude
          BY <1>1, <3>3, <4>2
        <5>2. doc'[Prelude + k] = doc[Prelude + k]
          BY SMTT(90), <1>1, <1>4, <2>2, <5>1
        <5>. QED
          BY ZenonT(120), <3>1, <3>2, <3>3, <3>5, <4>2, <5>1, <5>2
      <4>. QED
        BY <4>1, <4>2
    <3>. QED
      BY ZenonT(120), <3>2, <3>3, <3>4, <3>5, <3>6, SeqEqual
  <2>6. completed' = 1 .. pos
    BY <1>1, <2>1 DEF Running
  <2>7. Consistent(pos)'
    BY <1>1, <1>9, <2>4, <2>5, <2>6 DEF Consistent
  <2>8. RunGood'
    BY <1>3, <1>9, <2>7, FilesUnchanged DEF RunGood, Building, Concluding
  <2>9. NoneMissing'
    <3>1. ASSUME ~crashed
          PROVE  CompletedBy(snaps, doc', pos - 1, Len(snaps))
      <4>1. CompletedBy(snaps, doc, pos - 1, Len(snaps))
        BY <1>9, <2>1, <2>2, <3>1 DEF NoneMissing, Concluding
      <4>2. \A m \in Prelude + 1 .. pos - 1 : doc'[m] = doc[m]
        BY <1>1, <1>4, <2>2
      <4>. QED
        BY <4>1, <4>2 DEF CompletedBy
    <3>. QED
      BY <1>3, <1>9, <3>1, FilesUnchanged DEF NoneMissing, Building, Concluding
  <2>. QED
    BY <1>5, <1>6, <1>7, <1>8, <2>8, <2>9
<1>10. CASE status # "EXEC_SUCCESS"
  <2>1. RunGood'
    BY <1>3, <1>10, FilesUnchanged DEF RunGood, Building
  <2>2. NoneMissing'
    BY <1>3, <1>10, FilesUnchanged DEF NoneMissing
  <2>. QED
    BY <1>5, <1>6, <1>7, <1>8, <2>1, <2>2
<1>. QED
  BY <1>9, <1>10

\* Rolling back keeps the snapshots taken up to then.
LEMMA SnapshotsCut ==
    ASSUME IInv, NEW k \in 1 .. Len(snaps), snaps' = SubSeq(snaps, 1, k)
    PROVE  /\ snaps' \in Seq(Snapshots) /\ Len(snaps') = k
           /\ \A j \in 1 .. k : snaps'[j] = snaps[j]
           /\ SnapshotsGood'
<1>. USE DEF IInv
<1>1. snaps' \in Seq(Snapshots) /\ Len(snaps') = k /\ \A j \in 1 .. k : snaps'[j] = snaps[j]
  BY FirstOnes DEF ResumeTypeOK
<1>2. Len(snaps) \in Nat /\ DOMAIN snaps = 1 .. Len(snaps) /\ DOMAIN snaps' = 1 .. k
  BY <1>1, LenProperties DEF ResumeTypeOK
<1>3. Len(snaps') >= 1 /\ snaps'[1] = [name |-> Empty, live |-> EmptyDataset]
  BY <1>1, <1>2 DEF SnapshotsGood
<1>4. \A j \in 1 .. k : j \in 1 .. Len(snaps)
  BY <1>2
<1>5. \A i, j \in DOMAIN snaps' : snaps'[i].name = snaps'[j].name => i = j
  BY <1>1, <1>2, <1>4 DEF SnapshotsGood
<1>6. \A j \in 2 .. k : j \in 2 .. Len(snaps) /\ snaps'[j] = snaps[j]
  BY <1>1, <1>2
<1>7. \A j \in 2 .. k : GoodSnapshot(snaps'[j])
  BY <1>6 DEF SnapshotsGood
<1>8. \A i, j \in 2 .. k : i < j => StartsWith(DocIn(snaps'[j]), DocIn(snaps'[i]))
  BY <1>6 DEF SnapshotsGood
<1>. QED
  BY SMTT(90), <1>1, <1>3, <1>5, <1>7, <1>8 DEF SnapshotsGood, GoodSnapshot, DocIn

\* A process that resumes finds everything as it was left; one that does not
\* starts over from @empty.
LEMMA StartProcessStep ==
    ASSUME IInv, NEW l \in Lists, NEW how \in {"fresh", "resume"}, StartProcess(l, how)
    PROVE  IInv'
<1>. USE DEF IInv, StartProcess
<1>1. /\ Prelude \in Nat /\ l \in Seq(Registrations) /\ Len(l) \in Nat /\ Prelude <= Len(l)
      /\ Prelude \in 0 .. Len(l)
  BY ResumeAssumption, LenProperties
<1>2. /\ doc' \in Seq(Registrations) /\ Len(doc') = Prelude
      /\ completed' \subseteq Nat
  BY <1>1, FirstOnes
<1>3. ProcessTypeOK'
  BY <1>1, <1>2 DEF ResumeTypeOK, ProcessTypeOK
<1>4. Control'
  BY <1>1 DEF Control
<1>5. CASE how = "resume"
  <2>1. ResumeTypeOK'
    BY <1>3, <1>5 DEF ResumeTypeOK
  <2>2. SnapshotsGood'
    BY <1>5, SnapshotsUnchanged
  <2>3. UNCHANGED <<live, snaps>> /\ phase = "idle" /\ phase' = "idle"
    BY <1>5 DEF Control
  <2>4. NewestGood'
    BY <2>3, FilesUnchanged DEF NewestGood
  <2>5. RunGood'
    BY <1>5 DEF RunGood, Building
  <2>6. NoneMissing'
    BY <1>5, <2>3, FilesUnchanged DEF NoneMissing, Building
  <2>. QED
    BY <1>4, <2>1, <2>2, <2>4, <2>5, <2>6
<1>6. CASE how = "fresh"
  <2>1. SnapIndex(Empty) = 1 /\ 1 \in 1 .. Len(snaps)
    <3>1. Len(snaps) \in Nat /\ DOMAIN snaps = 1 .. Len(snaps)
      BY LenProperties DEF ResumeTypeOK
    <3>2. 1 \in 1 .. Len(snaps) /\ snaps[1].name = Empty
      BY <3>1 DEF SnapshotsGood
    <3>3. HasSnap(Empty)
      BY <3>2, SnapFound DEF ResumeTypeOK
    <3>4. SnapIndex(Empty) \in 1 .. Len(snaps) /\ snaps[SnapIndex(Empty)].name = Empty
      BY <3>3, SnapFound DEF ResumeTypeOK
    <3>. QED
      BY <3>1, <3>2, <3>4 DEF SnapshotsGood
  <2>2. snaps' = SubSeq(snaps, 1, 1) /\ live' = EmptyDataset
    BY <1>6, <2>1 DEF RollbackTo, SnapshotsGood
  <2>3. snaps' \in Seq(Snapshots) /\ Len(snaps') = 1 /\ SnapshotsGood'
    BY <2>1, <2>2, SnapshotsCut
  <2>4. live' \in Datasets
    <3>1. snaps[1] \in Snapshots
      BY <2>1, ElementOfSeq DEF ResumeTypeOK
    <3>. QED
      BY <2>2, <3>1 DEF Snapshots, SnapshotsGood
  <2>5. ResumeTypeOK'
    BY <1>3, <2>3, <2>4 DEF ResumeTypeOK
  <2>6. ~HasNewest'
    BY <2>2 DEF HasNewest, EmptyDataset
  <2>7. NewestGood'
    BY <2>6 DEF NewestGood
  <2>8. Consistent(Prelude)'
    <3>1. WorkOf(doc') = <<>>
      <4>1. PICK d : d = doc'
        OBVIOUS
      <4>2. d \in Seq(Registrations) /\ Len(d) = Prelude
        BY <1>2, <4>1
      <4>3. WorkOf(d) \in Seq(Work) /\ Len(WorkOf(d)) = 0
        BY <1>1, <4>2, WorkOfDoc
      <4>. QED
        BY <4>1, <4>3, EmptySeq
    <3>2. WorkOf(doc)' = <<>>
      BY <3>1 DEF WorkOf
    <3>. QED
      BY <1>1, <2>2, <3>2 DEF Consistent, EmptyDataset
  <2>9. RunGood'
    BY <1>1, <2>3, <2>8 DEF RunGood
  <2>10. NoneMissing'
    <3>1. ~Concluding'
      BY DEF Concluding
    <3>2. \A k \in 2 .. Len(snaps') : FALSE
      BY <2>3
    <3>3. \A m \in Prelude + 1 .. Len(doc') : FALSE
      BY <1>1, <1>2
    <3>4. CompletedBy(snaps', doc', Len(doc'), Len(snaps'))
      BY <3>3 DEF CompletedBy
    <3>. QED
      BY <2>6, <3>1, <3>2, <3>4 DEF NoneMissing
  <2>. QED
    BY <1>4, <2>3, <2>5, <2>7, <2>9, <2>10
<1>. QED
  BY <1>5, <1>6

\* Rolling back to a snapshot that holds the first i - 1 registrations of the
\* process's list, to go on with the i-th.
LEMMA RestoreStep ==
    ASSUME IInv, up, NEW i \in Prelude + 1 .. Len(list), NEW name,
           RestoreBefore(i, name), BeginRun(i), origin' \in {"fresh", "resumed"},
           SnapIndex(name) \in 2 .. Len(snaps),
           DocIn(snaps[SnapIndex(name)]) = SubSeq(list, 1, i - 1)
    PROVE  IInv'
<1>. DEFINE k == SnapIndex(name)
            d == DocIn(snaps[k])
<1>. USE DEF IInv, RestoreBefore, RollbackTo, BeginRun
<1>1. /\ Prelude \in Nat /\ Len(list) \in Nat /\ i \in Nat /\ i - 1 \in 0 .. Len(list)
      /\ i \in 1 .. Len(list) /\ Len(snaps) \in Nat /\ k \in 1 .. Len(snaps)
  BY ResumeAssumption, LenProperties DEF ResumeTypeOK, ProcessTypeOK
<1>2. snaps[k].name = name
  BY SnapFound DEF Restorable, ResumeTypeOK
<1>3. /\ live' = snaps[k].live /\ doc' = d /\ d # Torn
      /\ live' \in Datasets /\ live'.newest = name /\ live'.newest \in DOMAIN live'.files
      /\ live'.files[live'.newest] = d
      /\ live'.work = WorkOf(d)
      /\ d \in Seq(Registrations)
  <2>1. GoodSnapshot(snaps[k])
    BY DEF SnapshotsGood
  <2>2. snaps[k].live \in Datasets /\ d \in Seq(Registrations)
    BY DocInType DEF Snapshots
  <2>. QED
    BY <1>2, <2>1, <2>2 DEF GoodSnapshot, DocIn, FileOf
<1>4. /\ snaps' \in Seq(Snapshots) /\ Len(snaps') = k
      /\ \A j \in 2 .. k : snaps'[j] = snaps[j]
      /\ SnapshotsGood'
  <2>1. snaps' = SubSeq(snaps, 1, k)
    OBVIOUS
  <2>. HIDE DEF k
  <2>2. /\ snaps' \in Seq(Snapshots) /\ Len(snaps') = k
        /\ \A j \in 1 .. k : snaps'[j] = snaps[j]
        /\ SnapshotsGood'
    BY <1>1, <2>1, SnapshotsCut
  <2>. QED
    BY <1>1, <2>2
<1>5. /\ Len(d) = i - 1
      /\ StartsWith(list, d)
  BY <1>1, FirstOnes DEF StartsWith, ResumeTypeOK, ProcessTypeOK
<1>6. \A j \in 2 .. k : /\ StartsWith(d, DocIn(snaps[j]))
                        /\ Len(DocIn(snaps[j])) \in Nat
  <2>1. \A j \in 2 .. k : j \in 2 .. Len(snaps) /\ (j = k \/ j < k)
    BY <1>1
  <2>2. StartsWith(d, d)
    BY <1>3, LenProperties DEF StartsWith
  <2>. QED
    BY <2>1, <2>2, DocInType DEF SnapshotsGood
<1>. HIDE DEF k, d
<1>7. \A j \in 2 .. k : StartsWith(list, DocIn(snaps[j])) /\ Len(DocIn(snaps[j])) < i
  <2>1. SUFFICES ASSUME NEW j \in 2 .. k
                 PROVE  StartsWith(list, DocIn(snaps[j])) /\ Len(DocIn(snaps[j])) < i
    OBVIOUS
  <2>. DEFINE e == DocIn(snaps[j])
  <2>2. StartsWith(d, e) /\ Len(e) \in Nat
    BY <1>6
  <2>. HIDE DEF e
  <2>3. Len(e) <= i - 1 /\ \A x \in 1 .. Len(e) : d[x] = e[x]
    BY <1>5, <2>2 DEF StartsWith
  <2>4. \A x \in 1 .. Len(e) : x \in 1 .. Len(d) /\ list[x] = d[x]
    BY SMTT(90), <1>1, <1>5, <2>2, <2>3 DEF StartsWith
  <2>5. StartsWith(list, e) /\ Len(e) < i
    BY <1>1, <2>2, <2>3, <2>4 DEF StartsWith
  <2>. QED
    BY <2>5 DEF e
<1>8. NewestDoc' = d /\ HasNewest'
  <2>1. k \in 2 .. Len(snaps)
    BY DEF k
  <2>2. GoodSnapshot(snaps[k])
    BY <2>1 DEF SnapshotsGood
  <2>3. snaps[k].name # Empty
    BY <2>2 DEF GoodSnapshot, Empty
  <2>. QED
    BY <1>2, <1>3, <2>3 DEF NewestDoc, HasNewest, FileOf
<1>9. ResumeTypeOK'
  <2>1. completed' \subseteq Nat /\ stop' \in Nat
    BY <1>1
  <2>. QED
    BY <1>1, <1>3, <1>4, <2>1 DEF ResumeTypeOK, ProcessTypeOK
<1>10. Control'
  BY <1>1 DEF Control
<1>11. NewestGood'
  BY <1>3, <1>4, <1>6, <1>8 DEF NewestGood, DocIn
<1>12. RunGood'
  <2>1. WorkOf(doc)' = WorkOf(d)
    BY <1>3 DEF WorkOf
  <2>2. Consistent(i - 1)'
    BY <1>1, <1>3, <2>1 DEF Consistent, d, k
  <2>. QED
    BY <1>4, <1>7, <2>2 DEF RunGood, Concluding, DocIn
<1>13. NoneMissing'
  <2>1. ASSUME ~crashed, NEW j \in 2 .. k
        PROVE  CompletedBy(snaps', DocIn(snaps[j]), Len(DocIn(snaps[j])), j)
    <3>1. CompletedBy(snaps, DocIn(snaps[j]), Len(DocIn(snaps[j])), j)
      BY <1>1, <2>1 DEF NoneMissing
    <3>2. \A x \in 2 .. j : snaps'[x] = snaps[x]
      BY <1>1, <1>4
    <3>. QED
      BY <3>1, <3>2 DEF CompletedBy
  <2>2. ~crashed => CompletedBy(snaps', d, Len(d), k)
    <3>1. k \in 2 .. k
      BY <1>1 DEF k
    <3>. QED
      BY <2>1, <3>1 DEF d
  <2>. QED
    BY <1>3, <1>4, <1>8, <2>1, <2>2 DEF NoneMissing, DocIn, Concluding
<1>. QED
  BY <1>4, <1>9, <1>10, <1>11, <1>12, <1>13

\* A snapshot that bears the name of a checkpoint of the list.
LEMMA NamedSnapshot ==
    ASSUME IInv, list \in Lists, NEW i \in 1 .. Len(list), NEW name,
           name \in {PreName(i), CompletedName(i)}, HasSnap(name)
    PROVE  /\ SnapIndex(name) \in 2 .. Len(snaps)
           /\ snaps[SnapIndex(name)].name = name
           /\ Restorable(name)
           /\ Len(DocIn(snaps[SnapIndex(name)])) = IF name = PreName(i) THEN i - 1 ELSE i
           /\ Len(DocIn(snaps[SnapIndex(name)])) >= Prelude
<1>. DEFINE k == SnapIndex(name)
<1>. USE DEF IInv
<1>1. k \in 1 .. Len(snaps) /\ snaps[k].name = name /\ Len(snaps) \in Nat
  BY SnapFound, LenProperties DEF ResumeTypeOK
<1>2. name.cp = list[i].name /\ name.kind = (IF name = PreName(i) THEN "pre" ELSE "completed")
  BY DEF PreName, CompletedName
<1>. HIDE DEF k
<1>3. k # 1
  BY <1>1, <1>2 DEF SnapshotsGood, Empty
<1>4. k \in 2 .. Len(snaps)
  BY <1>1, <1>3
<1>5. GoodSnapshot(snaps[k])
  BY <1>4 DEF SnapshotsGood
<1>6. i \in DOMAIN list
  BY LenProperties DEF ResumeTypeOK, ProcessTypeOK
<1>7. Len(DocIn(snaps[k])) = IF name = PreName(i) THEN i - 1 ELSE i
  BY <1>1, <1>2, <1>5, <1>6 DEF GoodSnapshot
<1>. QED
  BY <1>1, <1>4, <1>5, <1>7 DEF GoodSnapshot, Restorable, HasFile, FileOf, DocIn, k

LEMMA RollbackStep ==
    ASSUME IInv, NEW i \in 1 .. Len(list), RollbackInProcess(i)
    PROVE  IInv'
<1>. DEFINE k == SnapIndex(PreName(i))
<1>. USE DEF IInv, RollbackInProcess
<1>1. list \in Lists /\ i \in Prelude + 1 .. Len(list) /\ up /\ Building
  BY DEF Control, Building
<1>2. k \in 2 .. Len(snaps) /\ Len(DocIn(snaps[k])) = i - 1
  BY <1>1, NamedSnapshot DEF RestoreBefore, Restorable
<1>3. StartsWith(list, DocIn(snaps[k])) /\ DocIn(snaps[k]) \in Seq(Registrations)
  BY <1>1, <1>2, DocInType DEF RunGood
<1>4. DocIn(snaps[k]) = SubSeq(list, 1, i - 1)
  BY <1>2, <1>3, PrefixIsSubSeq DEF ResumeTypeOK, ProcessTypeOK
<1>. QED
  BY <1>1, <1>2, <1>4, RestoreStep
\* What get_resumable_checkpoints() offers: checkpoints up to which the list and
\* the newest DOC file agree, and the one after the last of them.
LEMMA ResumableShape ==
    ASSUME IInv, NEW i \in Resumable, i > Prelude, ResumableReadable
    PROVE  /\ HasNewest /\ NewestDoc # Torn /\ Len(NewestDoc) \in Nat
           /\ i \in 1 .. Len(list) /\ i - 1 \in 0 .. Len(list)
           /\ i - 1 <= Len(NewestDoc)
           /\ \A x \in 1 .. i - 1 : list[x] = NewestDoc[x]
           /\ i \in ResumableCompleted
              \/ /\ i - 1 \in ResumableCompleted /\ i \notin ResumableCompleted
                 /\ Resumable = ResumableCompleted \cup {i}
                 /\ Max(ResumableCompleted) = i - 1
                 /\ Max(Resumable) = i
<1>. USE DEF IInv
<1>. DEFINE R == ResumableCompleted
<1>1. Prelude \in Nat /\ Prelude >= 1 /\ Len(list) \in Nat
  BY ResumeAssumption, LenProperties DEF ResumeTypeOK, ProcessTypeOK
<1>2. HasNewest /\ R # {} /\ NewestDoc # Torn
  BY <1>1 DEF Resumable, ResumableReadable
<1>3. Len(NewestDoc) \in Nat
  <2>1. NewestDoc \in Seq(Registrations)
    <3>1. live.newest \in DOMAIN live.files /\ live.files \in DocFiles
      BY <1>2 DEF NewestGood, ResumeTypeOK, Datasets
    <3>2. live.files[live.newest] \in Seq(Registrations) \cup {Torn}
      BY <3>1 DEF DocFiles
    <3>. QED
      BY <1>2, <3>2 DEF NewestDoc, FileOf
  <2>. QED
    BY <2>1, LenProperties
<1>4. \A m \in R : /\ m \in 1 .. Len(list) /\ m <= Len(NewestDoc)
                   /\ \A x \in 1 .. m : list[x] = NewestDoc[x]
  BY DEF ResumableCompleted, Matching
<1>5. R \subseteq 1 .. Len(list)
  BY <1>4
<1>6. Max(R) \in R /\ \A x \in R : x <= Max(R)
  BY <1>1, <1>2, <1>5, GreatestOf
<1>7. i \in R \/ (i = Max(R) + 1 /\ i <= Len(list))
  BY <1>2 DEF Resumable
<1>8. CASE i \in R
  BY <1>1, <1>2, <1>3, <1>4, <1>8
<1>9. CASE i \notin R
  <2>1. i = Max(R) + 1 /\ i <= Len(list)
    BY <1>7, <1>9
  <2>2. i - 1 = Max(R) /\ i - 1 \in R /\ i \in 1 .. Len(list)
    BY <1>1, <1>4, <1>6, <2>1
  <2>3. Resumable = R \cup {i}
    BY <1>2, <2>1 DEF Resumable
  <2>4. Max(Resumable) = i
    <3>1. /\ Len(list) \in Nat /\ Resumable \subseteq 1 .. Len(list)
          /\ Resumable # {}
      BY <1>1, <1>5, <2>2, <2>3
    <3>2. Max(Resumable) \in Resumable /\ \A x \in Resumable : x <= Max(Resumable)
      BY <3>1, GreatestOf
    <3>3. \A x \in R : x \in Nat /\ x < i
      BY <1>4, <1>6, <2>1
    <3>4. i \in Nat /\ i \in 1 .. Len(list)
      BY <1>1, <2>2
    <3>5. i <= Max(Resumable)
      BY <3>2
    <3>6. Max(Resumable) \notin R
      BY <3>3, <3>4, <3>5
    <3>. QED
      BY <2>3, <3>2, <3>6
  <2>. QED
    BY <1>1, <1>2, <1>3, <1>4, <1>9, <2>1, <2>2, <2>3, <2>4
<1>. HIDE DEF R
<1>. QED
  BY <1>8, <1>9

\* The snapshot that a checkpoint is resumed from: taken before it, or when the
\* checkpoint before it was completed.
LEMMA SnapForShape ==
    ASSUME IInv, NEW i \in Resumable, i > Prelude, ResumableReadable
    PROVE  \/ SnapFor(i) = PreName(i)
           \/ /\ SnapFor(i) = CompletedName(i - 1)
              /\ i - 1 \in ResumableCompleted
<1>1. CASE HasSnap(PreName(i)) \/ i # Max(Resumable) \/ Cardinality(Resumable) = 1
  BY <1>1 DEF SnapFor
<1>2. CASE ~(HasSnap(PreName(i)) \/ i # Max(Resumable) \/ Cardinality(Resumable) = 1)
  <2>1. i \notin ResumableCompleted
    BY <1>2 DEF ResumableCompleted
  <2>2. /\ i - 1 \in ResumableCompleted
        /\ Resumable = ResumableCompleted \cup {i}
        /\ Max(ResumableCompleted) = i - 1
    BY <2>1, ResumableShape
  <2>3. Resumable \ {i} = ResumableCompleted
    BY <2>1, <2>2
  <2>. QED
    BY <1>2, <2>2, <2>3 DEF SnapFor
<1>. QED
  BY <1>1, <1>2

LEMMA ResumeExecutionStep ==
    ASSUME IInv, NEW i \in 1 .. Len(list), ResumeExecution(i)
    PROVE  IInv'
<1>. DEFINE k == SnapIndex(SnapFor(i))
<1>. USE DEF IInv, ResumeExecution
<1>1. list \in Lists /\ i \in Prelude + 1 .. Len(list) /\ i \in Resumable /\ i > Prelude
  BY ResumeAssumption DEF Control
<1>2. /\ HasNewest /\ NewestDoc # Torn /\ i - 1 <= Len(NewestDoc)
      /\ \A x \in 1 .. i - 1 : list[x] = NewestDoc[x]
      /\ i - 1 \in 0 .. Len(list)
  BY <1>1, ResumableShape
<1>3. HasSnap(SnapFor(i))
  BY DEF RestoreBefore, Restorable
<1>4. k \in 2 .. Len(snaps) /\ Len(DocIn(snaps[k])) = i - 1
  <2>1. CASE SnapFor(i) = PreName(i)
    BY <1>1, <1>3, <2>1, NamedSnapshot
  <2>2. CASE SnapFor(i) = CompletedName(i - 1) /\ i - 1 \in ResumableCompleted
    <3>1. i - 1 \in 1 .. Len(list)
      BY <2>2 DEF ResumableCompleted, Matching
    <3>2. SnapFor(i) # PreName(i - 1)
      BY <2>2 DEF CompletedName, PreName
    <3>. QED
      BY <1>1, <1>3, <2>2, <3>1, <3>2, NamedSnapshot
  <2>. QED
    BY <1>1, <2>1, <2>2, SnapForShape
<1>5. StartsWith(NewestDoc, DocIn(snaps[k])) /\ DocIn(snaps[k]) \in Seq(Registrations)
  BY <1>2, <1>4, DocInType DEF NewestGood
<1>6. StartsWith(list, DocIn(snaps[k]))
  BY <1>2, <1>4, <1>5 DEF StartsWith
<1>7. DocIn(snaps[k]) = SubSeq(list, 1, i - 1)
  BY <1>4, <1>5, <1>6, PrefixIsSubSeq DEF ResumeTypeOK, ProcessTypeOK
<1>. QED
  BY <1>1, <1>4, <1>7, RestoreStep

--------------------------------------------------------------------------------
(* The invariant                                                           *)

LEMMA ResumeInitially ==
    ASSUME Init
    PROVE  IInv
<1>. USE DEF IInv, Init
<1>1. EmptyDataset \in Datasets
  <2>1. Empty \in Names
    BY DEF Empty, Names
  <2>2. [n \in {} |-> Torn] \in [{} -> Seq(Registrations) \cup {Torn}]
    OBVIOUS
  <2>3. [n \in {} |-> Torn] \in DocFiles
    BY <2>2 DEF DocFiles
  <2>. QED
    BY <2>1, <2>3, EmptySeq DEF EmptyDataset, Datasets
<1>2. /\ snaps \in Seq(Snapshots) /\ Len(snaps) = 1
      /\ snaps[1] = [name |-> Empty, live |-> EmptyDataset]
  BY <1>1 DEF Snapshots, Names, Empty
<1>3. ResumeTypeOK
  BY <1>1, <1>2, EmptySeq DEF ResumeTypeOK, ProcessTypeOK
<1>4. Control
  BY DEF Control
<1>5. SnapshotsGood
  BY <1>2, LenProperties DEF SnapshotsGood
<1>6. ~HasNewest
  BY DEF HasNewest, EmptyDataset
<1>7. NewestGood /\ RunGood
  BY <1>6 DEF NewestGood, RunGood, Building
<1>8. NoneMissing
  BY <1>2, <1>6 DEF NoneMissing, Building
<1>. QED
  BY <1>3, <1>4, <1>5, <1>7, <1>8

LEMMA ResumeInductive ==
    ASSUME SamePositions, IInv, [Next]_vars
    PROVE  IInv'
<1>1. CASE UNCHANGED vars
  <2>1. UNCHANGED <<live, snaps, up, list, doc, completed, snapped, pos, stop, phase,
                    kind, status, origin, crashed>>
    BY <1>1 DEF vars
  <2>2. /\ HasSnap(SnapName)' <=> HasSnap(SnapName)
        /\ SnapName' = SnapName
    BY <2>1 DEF HasSnap, SnapIndex, SnapName, PreName, CompletedName
  <2>3. ResumeTypeOK' /\ Control'
    BY <2>1, <2>2 DEF IInv, ResumeTypeOK, ProcessTypeOK, Control
  <2>4. SnapshotsGood' /\ NewestGood'
    BY <2>1, <2>2, SnapshotsUnchanged, FilesUnchanged DEF IInv, NewestGood
  <2>5. RunGood'
    BY <2>1, FilesUnchanged DEF IInv, RunGood, Building, Concluding, Consistent, Running
  <2>6. NoneMissing'
    BY <2>1, FilesUnchanged DEF IInv, NoneMissing, Building, Concluding
  <2>. QED
    BY <2>3, <2>4, <2>5, <2>6 DEF IInv
<1>2. ASSUME NEW l \in Lists, NEW how \in {"fresh", "resume"}, StartProcess(l, how)
      PROVE  IInv'
  BY <1>2, StartProcessStep
<1>3. ASSUME NEW i \in 1 .. Len(list), RollbackInProcess(i) \/ ResumeExecution(i)
      PROVE  IInv'
  BY <1>3, RollbackStep, ResumeExecutionStep
<1>4. CASE RunStep
  BY <1>4, EndRunStep, NextCheckpointStep, OpenDocStep, WriteDocStep, DestroyOldSnapStep,
     TakeNewSnapStep, ExecuteStartsStep, ExecuteReturnsStep, ExecuteRaisesStep DEF RunStep
<1>. QED
  BY <1>1, <1>2, <1>3, <1>4, ProcessEndsStep, ContinueExecutionStep DEF Next

LEMMA ResumeInvariant ==
    ASSUME SamePositions
    PROVE  Spec => []IInv
<1>1. Init => IInv
  BY ResumeInitially
<1>2. IInv /\ [Next]_vars => IInv'
  BY ResumeInductive
<1>. QED
  BY <1>1, <1>2, PTL DEF Spec

\* A run that takes its next checkpoint does so on a dataset, a DOC and completed
\* flags that all say that exactly the checkpoints before it are done, whatever
\* crashes, failures, pauses and edited lists went before.
THEOREM ConsistentBuildHolds ==
    ASSUME SamePositions
    PROVE  Spec => []ConsistentBuild
<1>1. ASSUME IInv
      PROVE  ConsistentBuild
  <2>1. SUFFICES ASSUME phase = "next", status = "EXEC_SUCCESS"
                 PROVE  /\ live.work = FinishedWork(pos - 1)
                        /\ doc = SubSeq(list, 1, pos - 1)
                        /\ completed = 1 .. pos - 1
    BY DEF ConsistentBuild
  <2>2. Consistent(pos - 1)
    BY <1>1, <2>1 DEF IInv, Control, RunGood, Building, Concluding
  <2>3. /\ pos - 1 \in Prelude .. Len(list) /\ pos - 1 \in 0 .. Len(list)
        /\ Prelude \in Nat /\ pos \in Nat /\ list \in Seq(Registrations)
    BY <1>1, <2>2, ResumeAssumption DEF Consistent, IInv, ResumeTypeOK, ProcessTypeOK
  <2>4. Len(doc) = pos - 1 /\ \A x \in 1 .. pos - 1 : doc[x] = list[x]
    BY <2>2, <2>3, FirstOnes DEF Consistent
  <2>5. \A j \in 1 .. pos - 1 - Prelude : doc[Prelude + j] = list[Prelude + j]
    BY <2>3, <2>4
  <2>6. WorkOf(doc) = FinishedWork(pos - 1)
    BY <2>4, <2>5 DEF WorkOf, FinishedWork
  <2>. QED
    BY <2>2, <2>6 DEF Consistent
<1>2. IInv => ConsistentBuild
  BY <1>1
<1>. QED
  BY <1>2, ResumeInvariant, PTL

\* As long as processes stop between runs only, everything that a later process
\* is offered to resume from can be resumed from, and the newest DOC file can be
\* read.
THEOREM StoppedCanResumeHolds ==
    ASSUME SamePositions
    PROVE  Spec => []StoppedCanResume
<1>1. ASSUME IInv, ~crashed, up, phase = "idle", origin = "resume", ResumableReadable,
             NEW i \in Resumable, i > Prelude
      PROVE  Restorable(SnapFor(i))
  <2>. USE DEF IInv
  <2>1. list \in Lists /\ Len(list) \in Nat /\ Prelude \in Nat
    BY <1>1, ResumeAssumption, LenProperties DEF Control, ResumeTypeOK, ProcessTypeOK
  <2>2. /\ HasNewest /\ i - 1 <= Len(NewestDoc) /\ i \in 1 .. Len(list)
        /\ \A x \in 1 .. i - 1 : list[x] = NewestDoc[x]
    BY <1>1, ResumableShape
  <2>3. CASE HasSnap(PreName(i))
    <3>1. SnapFor(i) = PreName(i)
      BY <2>3 DEF SnapFor
    <3>. QED
      BY <1>1, <2>1, <2>2, <2>3, <3>1, NamedSnapshot
  <2>4. CASE ~HasSnap(PreName(i))
    <3>1. i \notin ResumableCompleted
      BY <2>4 DEF ResumableCompleted
    <3>2. /\ i - 1 \in ResumableCompleted /\ Max(Resumable) = i
          /\ Resumable = ResumableCompleted \cup {i}
          /\ Max(ResumableCompleted) = i - 1
      BY <1>1, <3>1, ResumableShape
    <3>3. i - 1 \in 1 .. Len(list) /\ HasSnap(PreName(i - 1))
      BY <3>2 DEF ResumableCompleted, Matching
    <3>6. Len(NewestDoc) \in Nat
      BY <1>1, ResumableShape
    <3>4. i - 1 \in Prelude + 1 .. Len(NewestDoc)
      <4>1. /\ Len(DocIn(snaps[SnapIndex(PreName(i - 1))])) = i - 2
            /\ Len(DocIn(snaps[SnapIndex(PreName(i - 1))])) >= Prelude
        <5>1. /\ Len(DocIn(snaps[SnapIndex(PreName(i - 1))])) = (i - 1) - 1
              /\ Len(DocIn(snaps[SnapIndex(PreName(i - 1))])) >= Prelude
          BY <1>1, <2>1, <3>3, NamedSnapshot
        <5>. QED
          BY <2>2, <5>1
      <4>2. Len(NewestDoc) >= i - 1 /\ i - 2 >= Prelude
        BY <2>2, <4>1
      <4>. QED
        BY <2>1, <2>2, <3>6, <4>2
    <3>5. HasSnap(CompletedName(i - 1))
      <4>1. CompletedBy(snaps, NewestDoc, Len(NewestDoc), Len(snaps))
        BY <1>1, <2>2 DEF NoneMissing
      <4>2. PICK j \in 2 .. Len(snaps) :
                snaps[j].name = [cp |-> NewestDoc[i - 1].name, kind |-> "completed"]
        BY <3>4, <4>1 DEF CompletedBy
      <4>3. snaps[j].name = CompletedName(i - 1)
        BY <2>2, <3>3, <4>2 DEF CompletedName
      <4>. QED
        <5>1. Len(snaps) \in Nat /\ j \in 1 .. Len(snaps)
          BY LenProperties DEF ResumeTypeOK
        <5>. QED
          BY <1>1, <4>3, <5>1, SnapFound DEF ResumeTypeOK
    <3>8. Cardinality(Resumable) # 1
      <4>1. IsFiniteSet(1 .. Len(list) + 1) /\ Resumable \subseteq 1 .. Len(list) + 1
        <5>1. ResumableCompleted \subseteq 1 .. Len(list)
          BY DEF ResumableCompleted, Matching
        <5>2. 1 \in Int /\ Len(list) + 1 \in Int
          BY <2>1
        <5>3. IsFiniteSet(1 .. Len(list) + 1)
          BY <5>2, FS_Interval
        <5>4. i \in 1 .. Len(list) + 1 /\ 1 .. Len(list) \subseteq 1 .. Len(list) + 1
          BY <2>1, <2>2
        <5>. QED
          BY <3>2, <5>1, <5>3, <5>4
      <4>2. IsFiniteSet(Resumable)
        BY <4>1, FS_Subset
      <4>3. i \in Resumable /\ i - 1 \in Resumable /\ i # i - 1
        BY <2>2, <3>2
      <4>. QED
        BY <4>2, <4>3, FS_Singleton
    <3>7. SnapFor(i) = CompletedName(i - 1)
      BY <1>1, <2>4, <3>1, <3>2, <3>8 DEF SnapFor
    <3>. QED
      BY <1>1, <2>1, <3>3, <3>5, <3>7, NamedSnapshot
  <2>. QED
    BY <2>3, <2>4
<1>2. ASSUME IInv, ~crashed, up, phase = "idle"
      PROVE  ResumableReadable
  BY <1>2 DEF IInv, NoneMissing, ResumableReadable
<1>3. IInv => StoppedCanResume
  BY <1>1, <1>2 DEF StoppedCanResume, CanResumeAll
<1>. QED
  BY <1>3, ResumeInvariant, PTL

--------------------------------------------------------------------------------
(* The lock file of distro_const, for any number of invocations and        *)
(* whichever of them resume a build.                                       *)

Places == {"start", "checked", "enter", "touch", "build", "exit", "ended"}

LockTypeOK ==
    /\ at \in [Invocations -> Places]
    /\ mounted \in BOOLEAN
    /\ lockFile \in BOOLEAN
    /\ built \subseteq Invocations
    /\ leftover \in BOOLEAN
    /\ raced \in BOOLEAN

\* The inductive invariant.  The places must be known to be functions over the
\* invocations, or an assignment to at[p] would say nothing of at'[p].
LockInv == LockTypeOK /\ LockSound

\* A step that moves one invocation leaves the others where they are.
LEMMA OthersStay ==
    ASSUME LockTypeOK, NEW p \in Invocations, NEW place \in Places, Goto(p, place)
    PROVE  /\ at' \in [Invocations -> Places]
           /\ at'[p] = place
           /\ \A q \in Invocations : q # p => at'[q] = at[q]
BY DEF LockTypeOK, Goto

\* Whoever leaves is not inside any more, and the last one ends the race.
LEMMA Leaving ==
    ASSUME LockTypeOK, NEW p \in Invocations, Leave(p)
    PROVE  /\ at' \in [Invocations -> Places]
           /\ Inside' = Inside \ {p} /\ Holders' = Holders \ {p}
           /\ raced' = (raced /\ Inside # {p}) /\ raced' \in BOOLEAN
<1>1. Goto(p, "ended") /\ "ended" \in Places /\ raced' = (raced /\ Inside # {p})
  BY DEF Leave, Places
<1>2. /\ at' \in [Invocations -> Places] /\ at'[p] = "ended"
      /\ \A q \in Invocations : q # p => at'[q] = at[q]
  BY <1>1, OthersStay
<1>. QED
  BY <1>1, <1>2 DEF Inside, Holders

\* Nobody who leaves spoils the lock for those who stay, when the file that is
\* there afterwards is accounted for.
LEMMA LeavingKeeps ==
    ASSUME LockInv, NEW p \in Inside, Leave(p),
           mounted' \in BOOLEAN, lockFile' \in BOOLEAN, leftover' \in BOOLEAN,
           built' \subseteq Invocations, lockFile' => leftover' \/ Holders' # {}
    PROVE  LockInv'
<1>1. p \in Invocations /\ LockTypeOK /\ OneBuild
  BY DEF Inside, LockInv, LockSound
<1>2. /\ at' \in [Invocations -> Places]
      /\ Inside' = Inside \ {p} /\ Holders' = Holders \ {p}
      /\ raced' = (raced /\ Inside # {p}) /\ raced' \in BOOLEAN
  BY <1>1, Leaving
<1>3. ~raced' => Inside' = {}
  BY <1>1, <1>2 DEF OneBuild
<1>4. Holders' \subseteq Inside' /\ Inside' \subseteq Invocations
  BY <1>2 DEF Inside, Holders
<1>5. OneBuild'
  BY <1>3, <1>4 DEF OneBuild
<1>. QED
  BY <1>2, <1>5 DEF LockInv, LockSound, LockTypeOK, NoStaleLock

LEMMA LockInitial == ASSUME LockInit PROVE LockInv
<1>1. Inside = {} /\ Holders = {}
  BY DEF LockInit, Inside, Holders
<1>. QED
  BY <1>1 DEF LockInit, LockInv, LockTypeOK, LockSound, NoStaleLock, OneBuild, Places

LEMMA LockInductive == ASSUME LockInv, [LockNext]_lockVars PROVE LockInv'
<1>. USE DEF LockInv, LockSound
<1>1. CASE UNCHANGED lockVars
  BY <1>1 DEF lockVars, LockTypeOK, NoStaleLock, OneBuild, Inside, Holders
\* Before the with statement an invocation is neither inside nor a holder.
<1>2. ASSUME NEW p \in Invocations, CheckLock(p) \/ SetUp(p) PROVE LockInv'
  <2>1. /\ at[p] \in {"start", "checked"}
        /\ \E place \in {"ended", "checked", "enter"} : Goto(p, place)
        /\ UNCHANGED <<lockFile, leftover, raced>>
        /\ mounted' \in BOOLEAN /\ built' \subseteq Invocations
    BY <1>2 DEF CheckLock, SetUp, LockTypeOK
  <2>2. PICK place \in {"ended", "checked", "enter"} : Goto(p, place)
    BY <2>1
  <2>3. place \in Places
    BY DEF Places
  <2>4. at' \in [Invocations -> Places] /\ Inside' = Inside /\ Holders' = Holders
    BY <2>1, <2>2, <2>3, OthersStay DEF Inside, Holders
  <2>. QED
    BY <2>1, <2>4 DEF LockTypeOK, NoStaleLock, OneBuild
\* Whoever finds no file enters a place that is empty, or a race.
<1>4. ASSUME NEW p \in Invocations, EnterTest(p) PROVE LockInv'
  <2>1. /\ at[p] = "enter" /\ \E place \in {"ended", "touch"} : Goto(p, place)
        /\ UNCHANGED <<mounted, lockFile, built, leftover>>
        /\ raced' \in BOOLEAN /\ (raced => raced')
    BY <1>4 DEF EnterTest, LockTypeOK
  <2>2. PICK place \in {"ended", "touch"} : Goto(p, place)
    BY <2>1
  <2>3. place \in Places
    BY DEF Places
  <2>4. /\ at' \in [Invocations -> Places] /\ at'[p] = place
        /\ \A q \in Invocations : q # p => at'[q] = at[q]
    BY <2>2, <2>3, OthersStay
  <2>5. Holders' = Holders
    BY <2>1, <2>4 DEF Holders
  <2>6. CASE lockFile
    <3>1. at'[p] = "ended"
      BY <1>4, <2>6, OthersStay DEF EnterTest, Places
    <3>2. Inside' = Inside
      BY <2>1, <2>4, <3>1 DEF Inside
    <3>. QED
      BY <2>1, <2>4, <2>5, <3>2 DEF LockTypeOK, NoStaleLock, OneBuild
  <2>7. CASE ~lockFile
    <3>1. ~raced' => ~raced /\ \A q \in Invocations : at[q] # "touch"
      BY <1>4, <2>1, <2>7 DEF EnterTest
    <3>2. ~raced' => Inside = {}
      BY <2>7, <3>1 DEF OneBuild, Inside, Holders
    <3>3. Inside' \subseteq Inside \cup {p}
      BY <2>4 DEF Inside
    <3>4. OneBuild'
      <4>1. ~raced' => Holders = {}
        BY <3>2 DEF Inside, Holders
      <4>. QED
        BY <2>5, <3>2, <3>3, <4>1 DEF OneBuild
    <3>. QED
      BY <2>1, <2>4, <2>5, <3>4 DEF LockTypeOK, NoStaleLock
  <2>. QED
    BY <2>6, <2>7
\* The file appears, and its invocation is inside.
<1>5. ASSUME NEW p \in Invocations, EnterTouch(p) PROVE LockInv'
  <2>1. at[p] = "touch" /\ UNCHANGED <<mounted, built, leftover>>
    BY <1>5 DEF EnterTouch
  <2>2. CASE lockFile' = TRUE /\ Goto(p, "build") /\ UNCHANGED raced
    <3>1. /\ at' \in [Invocations -> Places] /\ at'[p] = "build"
          /\ \A q \in Invocations : q # p => at'[q] = at[q]
      BY <2>2, OthersStay DEF Places
    <3>2. Inside' = Inside /\ p \in Holders'
      BY <2>1, <3>1 DEF Inside, Holders
    <3>. QED
      BY <2>1, <2>2, <3>1, <3>2 DEF LockTypeOK, NoStaleLock, OneBuild
  <2>3. CASE UNCHANGED lockFile /\ Leave(p)
    <3>1. p \in Inside
      BY <2>1 DEF Inside
    <3>2. Holders' = Holders
      BY <2>1, <2>3, Leaving DEF Holders
    <3>. QED
      BY <2>1, <2>3, <3>1, <3>2, LeavingKeeps DEF LockTypeOK, NoStaleLock
  <2>. QED
    BY <1>5, <2>2, <2>3 DEF EnterTouch
<1>6. ASSUME NEW p \in Invocations, Build(p) PROVE LockInv'
  <2>1. "exit" \in Places /\ Goto(p, "exit") /\ at[p] = "build"
        /\ UNCHANGED <<mounted, lockFile, leftover, raced>>
        /\ built' \subseteq Invocations
    BY <1>6 DEF Places, Build, LockTypeOK
  <2>2. at' \in [Invocations -> Places] /\ Inside' = Inside /\ Holders' = Holders
    BY <2>1, OthersStay DEF Inside, Holders
  <2>. QED
    BY <2>1, <2>2 DEF LockTypeOK, NoStaleLock, OneBuild
\* Whoever leaves first removes the file, be it its own or another's, or leaves
\* it behind.
<1>7. ASSUME NEW p \in Invocations, Exit(p) PROVE LockInv'
  <2>1. /\ p \in Inside /\ Leave(p) /\ UNCHANGED <<mounted, built>>
        /\ lockFile' \in BOOLEAN /\ leftover' \in BOOLEAN /\ (lockFile' => leftover')
    BY <1>7 DEF Exit, Inside
  <2>. QED
    BY <2>1, LeavingKeeps DEF LockTypeOK
<1>8. ASSUME NEW p \in Invocations, Kill(p) PROVE LockInv'
  <2>1. /\ p \in Inside /\ Leave(p) /\ UNCHANGED <<mounted, built, lockFile>>
        /\ leftover' = (leftover \/ lockFile)
    BY <1>8 DEF Kill
  <2>. QED
    BY <2>1, LeavingKeeps DEF LockTypeOK
<1>9. QED
  BY <1>1, <1>2, <1>4, <1>5, <1>6, <1>7, <1>8 DEF LockNext

\* Whatever the number of invocations, and although looking for the file and
\* creating it are two steps that interleave with those of the others: the file
\* is left behind only by an invocation that was killed or could not remove it,
\* and as long as no two meet between the two steps it keeps all but one out
\* (Lockfile.__enter__, __exit__).
THEOREM LockSoundHolds == LockSpec => []LockSound
<1>1. LockInit => LockInv
  BY LockInitial
<1>2. LockInv /\ [LockNext]_lockVars => LockInv'
  BY LockInductive
<1>3. LockInv => LockSound
  BY DEF LockInv
<1>4. QED
  BY <1>1, <1>2, <1>3, PTL DEF LockSpec

--------------------------------------------------------------------------------
(***************************************************************************)
(* Boot configurations, those of the images and those of the disks: what   *)
(* an instance list is at every step, how far the steps of a job have come *)
(* and what is on the media by then.                                       *)
(***************************************************************************)


Titles == STRING \cup {"be", "other", "new", "renamed", "installed", "image", "disk", "custom"}
StepNames ==
    {"parse", "autogen", "target", "default_entries", "custom", "temp", "put", "image_info",
     "vars", "loader", "menu", "move", "bootfs", "prom", "sparc_menu", "bootlst"}
InstType ==
    [kind : {"solaris", "chain", "other", "odd"}, bootfs : FsType, title : Titles,
     default : BOOLEAN, owned : BOOLEAN]

\* The lists of instances: with one default at the most; of a loaded configuration;
\* and of a system after the entry of what was installed became the default.
One(s) == \A i, k \in DOMAIN s : s[i].default /\ s[k].default => i = k
ImageLists == {s \in Seq(InstType) : One(s)}
EditLists ==
    {s \in ImageLists :
        \A i \in DOMAIN s : s[i].owned /\ (s[i].bootfs # NoFs => s[i].kind = "solaris")}
InstalledLists(t) ==
    {s \in ImageLists :
        /\ \E i \in DOMAIN s : s[i].default
        /\ \A i \in DOMAIN s : s[i].default => s[i].kind = "solaris" /\ s[i].bootfs = t}

\* The steps of a job: those before the loaders, one for each device, and the rest.
Commits == (job.kind = "edit" /\ dirty) \/ (job.kind = "system" /\ ~job.dry)
Base == CASE job.kind = "edit" -> 1 [] job.kind = "system" -> 5 [] OTHER -> 2
CommitStage(d, k) ==
    IF k = 1 THEN "vars" ELSE IF k <= d + 1 THEN "loader"
    ELSE IF k = d + 2 THEN "menu" ELSE IF k = d + 3 THEN "move" ELSE "bootfs"
SparcStage(d, k) ==
    IF k = 1 THEN "parse" ELSE IF k = 2 THEN "bootfs" ELSE IF k <= d + 2 THEN "loader"
    ELSE IF k = d + 3 THEN "prom" ELSE IF k = d + 4 THEN "sparc_menu" ELSE "bootlst"
StageOf(j, changed, k) ==
    CASE j.kind = "edit" -> IF changed THEN CommitStage(j.devs, k) ELSE "bootfs"
      [] j.kind = "system" ->
            IF k = 1 THEN "parse" ELSE IF k = 2 THEN "autogen" ELSE IF k = 3 THEN "target"
            ELSE IF k = 4 THEN "custom" ELSE IF j.dry THEN "temp"
            ELSE CommitStage(j.devs, k - 4)
      [] j.kind = "sparc" -> SparcStage(j.devs, k)
      [] OTHER ->
            IF k = 1 THEN "parse" ELSE IF k = 2 THEN "default_entries"
            ELSE IF k = 3 THEN "custom" ELSE IF k = 4 THEN "temp" ELSE IF k = 5 THEN "put"
            ELSE "image_info"
Stage(k) == StageOf(job, dirty, k)
Total ==
    CASE job.kind = "edit" -> IF dirty THEN job.devs + 4 ELSE 1
      [] job.kind = "system" -> IF job.dry THEN 5 ELSE job.devs + 8
      [] job.kind = "sparc" -> job.devs + 5
      [] OTHER -> 6
Gone == Total - Len(steps)
Going == state \in {"running", "done"}

BootTypes ==
    /\ job \in Jobs /\ insts \in Seq(InstType) /\ dirty \in BOOLEAN /\ edits \in Nat
    /\ state \in {"editing", "running", "done", "failed"} /\ steps \in Seq(StepNames)
    /\ media = [menu |-> media.menu, temp |-> media.temp, loaders |-> media.loaders,
                bootfs |-> media.bootfs, info |-> media.info]
    /\ media.loaders \in Nat /\ media.info \in Nat
StepShape ==
    /\ state = "editing" => job.kind = "edit" /\ steps = <<>> /\ media.loaders = 0
    /\ state \in {"done", "failed"} => steps = <<>>
    /\ state = "running" => steps # <<>>
    /\ Going => Len(steps) <= Total /\ \A k \in 1 .. Len(steps) : steps[k] = Stage(Gone + k)
Configured ==
    /\ job.kind = "edit" => insts \in EditLists
    /\ job.kind = "image" => insts \in ImageLists
    /\ job.kind = "sparc" => insts = <<>>
    /\ OthersInactive => One(insts)
    /\ job.kind = "system" /\ Going =>
          /\ Gone < 2 => insts = <<>>
          /\ Gone = 2 => insts = AutogenerateConfig(job)
          /\ Gone > 2 /\ OthersInactive => insts \in InstalledLists(job.target)
\* After which step the new menu is there; one step earlier it is in its temporary place.
Writes == Commits \/ (job.kind = "image" /\ ~job.dry)
MenuAt == IF job.kind = "image" THEN 5 ELSE Base + job.devs + 2
Menus ==
    /\ MenuWhole
    /\ state = "editing" => media.menu = job.menu
    /\ Going /\ job.kind # "sparc" =>
          /\ ~Writes \/ Gone < MenuAt => media.menu = job.menu
          /\ Writes /\ Gone = MenuAt - 1 => media.temp = WriteMenuLst(insts)
          /\ Writes /\ Gone >= MenuAt => media.menu = WriteMenuLst(insts)
    /\ Going /\ job.kind = "sparc" /\ ~job.dry /\ Gone >= job.devs + 4 =>
          media.menu = WriteSparcMenu(<<Inst("solaris", job.target, "installed")>>)
Loaders ==
    Going /\ (Commits \/ job.kind = "sparc") =>
        media.loaders = IF Gone <= Base THEN 0
                        ELSE IF Gone >= Base + job.devs THEN job.devs ELSE Gone - Base
Bootfs ==
    Going =>
        /\ job.kind = "edit" /\ job.setBootfs /\ Commits /\ Gone = Total /\ DefaultFs(insts) # NoFs =>
              media.bootfs = DefaultFs(insts)
        /\ job.kind = "system" /\ Commits /\ Gone = Total => media.bootfs = job.target
        /\ job.kind = "sparc" /\ ~job.dry /\ Gone >= 2 => media.bootfs = job.target
BootInv == BootTypes /\ StepShape /\ Configured /\ Menus /\ Loaders /\ Bootfs

--------------------------------------------------------------------------------
(* The operations on a list of instances.                                    *)

\* The least index of a set of them.
LEMMA FirstIn ==
    ASSUME NEW n \in Nat, NEW T \in SUBSET (1 .. n), T # {}
    PROVE  FirstOf(T) \in T /\ \A k \in T : FirstOf(T) <= k
<1>1. \E i \in T : \A k \in T : i <= k
  <2>1. T \subseteq Nat
    OBVIOUS
  <2>. QED
    BY <2>1, LeastNat
<1>. QED
  BY <1>1 DEF FirstOf

\* The defaults of a list are among its indices.
LEMMA DefaultsIn ==
    ASSUME NEW s \in Seq(InstType)
    PROVE  /\ Len(s) \in Nat /\ DOMAIN s = 1 .. Len(s) /\ Defaults(s) \in SUBSET (1 .. Len(s))
           /\ \A i \in 1 .. Len(s) : s[i] \in InstType
           /\ Defaults(s) # {} => FirstOf(Defaults(s)) \in Defaults(s)
<1>1. Len(s) \in Nat /\ DOMAIN s = 1 .. Len(s)
  BY LenProperties
<1>2. Defaults(s) \in SUBSET (1 .. Len(s))
  BY <1>1 DEF Defaults
<1>. QED
  BY <1>1, <1>2, FirstIn, ElementOfSeq

\* A list with one default at the most has not two of them.
LEMMA OneCounted ==
    ASSUME NEW s \in Seq(InstType), One(s)
    PROVE  Cardinality(Defaults(s)) <= 1
<1>1. CASE Defaults(s) = {}
  <2>1. Cardinality(Defaults(s)) = 0
    BY <1>1, FS_EmptySet
  <2>. QED
    BY <2>1
<1>2. CASE Defaults(s) # {}
  <2>1. PICK i : i \in Defaults(s)
    BY <1>2
  <2>2. Defaults(s) = {i}
    BY <2>1 DEF One, Defaults
  <2>3. Cardinality({i}) = 1
    BY FS_Singleton
  <2>. QED
    BY <2>2, <2>3
<1>. QED
  BY <1>1, <1>2

\* The one default is cleared.
LEMMA Cleared ==
    ASSUME NEW s \in Seq(InstType), NEW i \in DOMAIN s
    PROVE  /\ Clear(s, i) \in Seq(InstType) /\ Len(Clear(s, i)) = Len(s)
           /\ \A k \in 1 .. Len(s) : k # i => Clear(s, i)[k] = s[k]
           /\ Clear(s, i)[i] = [s[i] EXCEPT !.default = FALSE]
           /\ ~Clear(s, i)[i].default /\ Clear(s, i)[i].owned = s[i].owned
           /\ Clear(s, i)[i].kind = s[i].kind /\ Clear(s, i)[i].bootfs = s[i].bootfs
<1>1. Len(s) \in Nat /\ i \in 1 .. Len(s) /\ s[i] \in InstType
  BY DefaultsIn
<1>2. [s[i] EXCEPT !.default = FALSE] \in InstType
  BY <1>1 DEF InstType
<1>3. Clear(s, i) = [s EXCEPT ![i] = [s[i] EXCEPT !.default = FALSE]]
  BY <1>1 DEF Clear
<1>4. Clear(s, i) \in Seq(InstType) /\ Len(Clear(s, i)) = Len(s)
  <2>. HIDE DEF InstType
  <2>. QED
    BY <1>1, <1>2, <1>3, ExceptSeq
<1>5. Clear(s, i)[i] = [s[i] EXCEPT !.default = FALSE]
  BY <1>1, <1>3, LenProperties
<1>6. \A k \in 1 .. Len(s) : k # i => Clear(s, i)[k] = s[k]
  BY <1>1, <1>3, LenProperties
<1>7. LET x == [s[i] EXCEPT !.default = FALSE] IN
      ~x.default /\ x.owned = s[i].owned /\ x.kind = s[i].kind /\ x.bootfs = s[i].bootfs
  BY <1>1 DEF InstType
<1>. QED
  BY <1>4, <1>5, <1>6, <1>7

Placed(new) == [new EXCEPT !.owned = TRUE]
Like(x, y) == x.kind = y.kind /\ x.bootfs = y.bootfs /\ x.owned = y.owned

\* The place where an instance is inserted.
LEMMA PlaceIn ==
    ASSUME NEW s \in Seq(InstType), NEW where
    PROVE  /\ Place(s, where) \in 0 .. Len(s) + 1
           /\ where \in {"start", "end"} => Place(s, where) \in 0 .. Len(s)
<1>1. Len(s) \in Nat /\ DOMAIN s = 1 .. Len(s)
  BY DefaultsIn
<1>. DEFINE hits == {i \in DOMAIN s : s[i].bootfs = where}
<1>2. hits \in SUBSET (1 .. Len(s)) /\ (hits # {} => FirstOf(hits) \in 1 .. Len(s))
  <2>1. hits \in SUBSET (1 .. Len(s))
    BY <1>1
  <2>. HIDE DEF hits
  <2>. QED
    BY <1>1, <2>1, FirstIn
<1>3. CASE where \in {"start", "end"}
  BY <1>1, <1>3 DEF Place
<1>4. CASE where \notin {"start", "end"}
  <2>1. Place(s, where) = IF hits = {} THEN Len(s) + 1 ELSE FirstOf(hits) - 1
    BY <1>4 DEF Place
  <2>. HIDE DEF hits
  <2>. QED
    BY <1>1, <1>2, <1>4, <2>1
<1>. QED
  BY <1>3, <1>4

\* One more instance: which becomes the only default, or leaves the default as it is.
LEMMA AddOneIs ==
    ASSUME NEW s \in ImageLists, NEW new \in InstType, NEW where
    PROVE  LET r == AddOne(s, new, where) IN
           /\ r \in ImageLists
           /\ \A i \in DOMAIN r :
                 \/ r[i] = Placed(new)
                 \/ \E k \in DOMAIN s : Like(r[i], s[k]) /\ (r[i].default => s[k].default /\ ~new.default)
           /\ where \in {"start", "end"} => \E i \in DOMAIN r : r[i] = Placed(new)
           /\ where \in {"start", "end"} /\ ~new.default =>
                 \A k \in DOMAIN s : \E i \in DOMAIN r : r[i] = s[k]
<1>. DEFINE drop == new.default /\ Defaults(s) # {}
            C == IF drop THEN Clear(s, FirstOf(Defaults(s))) ELSE s
            place == Place(s, where)
            p == Placed(new)
            r == AddOne(s, new, where)
<1>1. /\ s \in Seq(InstType) /\ One(s) /\ Len(s) \in Nat /\ DOMAIN s = 1 .. Len(s)
      /\ \A i \in 1 .. Len(s) : s[i] \in InstType
  BY DefaultsIn DEF ImageLists
<1>2. /\ C \in Seq(InstType) /\ Len(C) = Len(s) /\ (~new.default => C = s)
      /\ \A k \in 1 .. Len(s) : Like(C[k], s[k]) /\ (C[k].default => s[k].default /\ ~new.default)
  <2>1. CASE drop
    <3>. DEFINE d == FirstOf(Defaults(s))
    <3>1. d \in Defaults(s) /\ d \in DOMAIN s /\ s[d].default
      BY <1>1, <2>1, DefaultsIn DEF Defaults
    <3>2. \A k \in 1 .. Len(s) : k # d => ~s[k].default
      BY <1>1, <3>1 DEF One
    <3>3. C = Clear(s, d)
      BY <2>1
    <3>. HIDE DEF d, C
    <3>4. /\ C \in Seq(InstType) /\ Len(C) = Len(s)
          /\ \A k \in 1 .. Len(s) : k # d => C[k] = s[k]
          /\ ~C[d].default /\ Like(C[d], s[d])
      BY <1>1, <3>1, <3>3, Cleared DEF Like
    <3>5. new.default
      BY <2>1
    <3>6. \A k \in 1 .. Len(s) : Like(C[k], s[k]) /\ ~C[k].default
      BY <3>2, <3>4 DEF Like
    <3>. QED
      BY <3>4, <3>5, <3>6
  <2>2. CASE ~drop
    <3>1. new.default => \A k \in 1 .. Len(s) : ~s[k].default
      BY <1>1, <2>2 DEF Defaults
    <3>. QED
      BY <1>1, <2>2, <3>1 DEF Like
  <2>. QED
    BY <2>1, <2>2
<1>3. place \in 0 .. Len(s) + 1 /\ (where \in {"start", "end"} => place \in 0 .. Len(s))
  BY <1>1, PlaceIn
<1>4. p \in InstType /\ p.default = new.default
  BY DEF Placed, InstType
<1>5. r = IF place > Len(s) THEN C ELSE InsertAt(C, place + 1, p)
  BY DEF AddOne, Placed
<1>. HIDE DEF C, drop, place, p, r
<1>6. CASE place > Len(s)
  <2>1. r = C /\ where \notin {"start", "end"}
    BY <1>1, <1>3, <1>5, <1>6
  <2>2. DOMAIN C = 1 .. Len(s)
    BY <1>2, LenProperties
  <2>3. One(C)
    BY <1>1, <1>2, <2>2 DEF One
  <2>. QED
    BY <1>1, <1>2, <2>1, <2>2, <2>3 DEF ImageLists, r
<1>7. CASE ~(place > Len(s))
  <2>1. place + 1 \in 1 .. Len(C) + 1 /\ r = InsertAt(C, place + 1, p)
    BY <1>1, <1>2, <1>3, <1>5, <1>7
  <2>2. /\ r \in Seq(InstType) /\ Len(r) = Len(s) + 1
        /\ \A j \in 1 .. Len(s) + 1 :
              r[j] = IF j < place + 1 THEN C[j] ELSE IF j = place + 1 THEN p ELSE C[j - 1]
    <3>1. /\ InsertAt(C, place + 1, p) \in Seq(InstType)
          /\ Len(InsertAt(C, place + 1, p)) = Len(C) + 1
          /\ \A j \in 1 .. Len(C) + 1 :
                InsertAt(C, place + 1, p)[j] =
                    IF j < place + 1 THEN C[j] ELSE IF j = place + 1 THEN p ELSE C[j - 1]
      <4>. DEFINE q == place + 1
      <4>1. q \in 1 .. Len(C) + 1
        BY <2>1
      <4>. HIDE DEF q
      <4>2. /\ InsertAt(C, q, p) \in Seq(InstType)
            /\ Len(InsertAt(C, q, p)) = Len(C) + 1
            /\ \A j \in 1 .. Len(C) + 1 :
                  InsertAt(C, q, p)[j] = IF j < q THEN C[j] ELSE IF j = q THEN p ELSE C[j - 1]
        BY <1>2, <1>4, <4>1, InsertedAt
      <4>. QED
        BY <4>2 DEF q
    <3>. QED
      BY <1>2, <2>1, <3>1
  <2>3. DOMAIN r = 1 .. Len(s) + 1
    BY <2>2, LenProperties
  <2>. DEFINE from(j) == IF j < place + 1 THEN j ELSE j - 1
  <2>4. ASSUME NEW j \in 1 .. Len(s) + 1, j # place + 1
        PROVE  from(j) \in 1 .. Len(s) /\ r[j] = C[from(j)]
    BY <1>1, <1>3, <1>7, <2>2, <2>4
  <2>5. \A i, j \in 1 .. Len(s) + 1 : i # place + 1 /\ j # place + 1 /\ from(i) = from(j) => i = j
    BY <1>1, <1>3, <1>7
  <2>6. r[place + 1] = p /\ place + 1 \in 1 .. Len(s) + 1
    BY <1>1, <1>3, <1>7, <2>2
  <2>7. ASSUME NEW i \in DOMAIN r, NEW k \in DOMAIN r, r[i].default, r[k].default PROVE i = k
    <3>. HIDE DEF from
    <3>1. CASE i = place + 1
      BY <1>2, <1>4, <2>3, <2>4, <2>6, <2>7, <3>1
    <3>2. CASE k = place + 1
      BY <1>2, <1>4, <2>3, <2>4, <2>6, <2>7, <3>2
    <3>3. CASE i # place + 1 /\ k # place + 1
      <4>1. from(i) = from(k)
        BY <1>1, <1>2, <2>3, <2>4, <2>7, <3>3 DEF One
      <4>. QED
        BY <2>3, <2>5, <3>3, <4>1
    <3>. QED
      BY <3>1, <3>2, <3>3
  <2>8. r \in ImageLists
    BY <2>2, <2>7 DEF ImageLists, One
  <2>9. ASSUME NEW i \in DOMAIN r
        PROVE  \/ r[i] = p
               \/ \E k \in DOMAIN s : Like(r[i], s[k]) /\ (r[i].default => s[k].default /\ ~new.default)
    <3>. HIDE DEF from
    <3>. QED
      BY <1>1, <1>2, <2>3, <2>4, <2>6
  <2>10. \E i \in DOMAIN r : r[i] = p
    BY <2>3, <2>6
  <2>11. ASSUME ~new.default, NEW k \in DOMAIN s PROVE \E i \in DOMAIN r : r[i] = s[k]
    <3>1. CASE k < place + 1
      <4>1. k \in 1 .. Len(s) + 1 /\ r[k] = C[k]
        BY <1>1, <2>2, <3>1
      <4>. QED
        BY <1>2, <2>3, <2>11, <4>1
    <3>2. CASE ~(k < place + 1)
      <4>1. k + 1 \in 1 .. Len(s) + 1 /\ ~(k + 1 < place + 1) /\ k + 1 # place + 1 /\ (k + 1) - 1 = k
        BY <1>1, <1>3, <3>2
      <4>2. r[k + 1] = C[k]
        BY <2>2, <4>1
      <4>. QED
        BY <1>2, <2>3, <2>11, <4>1, <4>2
    <3>. QED
      BY <3>1, <3>2
  <2>. QED
    BY <2>8, <2>9, <2>10, <2>11 DEF r, p
<1>. QED
  BY <1>6, <1>7

AllPlaced(base, seq) == FoldLeft(AddPlaced, base, seq)

\* A list that each of the additions keeps in A, they all do.
LEMMA PlacedIn ==
    ASSUME NEW A, NEW B, NEW base \in A, NEW n \in Nat, NEW s, DOMAIN s = 1 .. n,
           \A i \in 1 .. n : s[i] \in B,
           \A a \in A, b \in B : AddPlaced(a, b) \in A
    PROVE  AllPlaced(base, s) \in A
<1>. DEFINE it == AllPlaced(base, s)
            iter == CHOOSE iter : iter = [t \in SUBSET DOMAIN s |->
                       IF t = {} THEN base ELSE AddPlaced(iter[t \ {Max(t)}], s[Max(t)])]
            step(g, t) == AddPlaced(g[t \ {Max(t)}], s[Max(t)])
            Unfolds(g) == g = [t \in SUBSET DOMAIN s |-> IF t = {} THEN base ELSE step(g, t)]
            f == [p \in A \X B |-> AddPlaced(p[1], p[2])]
<1>1. it = iter[DOMAIN s]
  BY DEF AllPlaced, FoldLeft, MapThenFoldSet
<1>2. f \in [A \X B -> A] /\ base \in A /\ \A i \in 1 .. n : s[i] \in B
  OBVIOUS
<1>3. PICK g : FoldOf(g, A, f, base, s, n)
  <2>. HIDE DEF f
  <2>. QED
    BY <1>2, FoldGraph
<1>4. Unfolds(g)
  <2>1. ASSUME NEW t \in SUBSET (1 .. n), t # {}
        PROVE  g[t] = step(g, t)
    <3>1. Max(t) \in 1 .. n /\ t \ {Max(t)} \in SUBSET (1 .. n)
      BY <2>1, GreatestOf
    <3>2. s[Max(t)] \in B /\ g[t \ {Max(t)}] \in A
      BY <1>3, <3>1 DEF FoldOf
    <3>3. g[t] = f[<<g[t \ {Max(t)}], s[Max(t)]>>]
      BY <1>3, <2>1 DEF FoldOf
    <3>. QED
      BY <3>2, <3>3
  <2>. QED
    BY <1>3, <2>1 DEF FoldOf
<1>5. Unfolds(iter)
  BY <1>4, Zenon
<1>6. \A t \in SUBSET (1 .. n) : iter[t] = IF t = {} THEN base ELSE step(iter, t)
  <2>. HIDE DEF iter, step
  <2>. QED
    BY <1>5
<1>. DEFINE h == [i \in 0 .. n |-> iter[1 .. i]]
<1>7. ASSUME NEW i \in 1 .. n, h[i - 1] \in A PROVE h[i] \in A
  <2>. HIDE DEF iter
  <2>1. iter[1 .. i] = step(iter, 1 .. i)
    BY <1>6, UpTo
  <2>2. step(iter, 1 .. i) = AddPlaced(iter[1 .. i - 1], s[i])
    BY UpTo
  <2>3. iter[1 .. i - 1] \in A /\ s[i] \in B
    BY <1>7
  <2>. QED
    BY <2>1, <2>2, <2>3
<1>8. h[0] \in A
  <2>. HIDE DEF iter, step
  <2>1. 1 .. 0 = {}
    OBVIOUS
  <2>. QED
    BY <1>6, <2>1
<1>9. it = h[n]
  <2>. HIDE DEF iter, it
  <2>. QED
    BY <1>1
<1>. HIDE DEF h, it
<1>10. it \in A
  BY <1>7, <1>8, <1>9, StagesIn
<1>. QED
  BY <1>10 DEF it

\* What is added to a loaded configuration keeps it one that knows its instances.
LEMMA EditAdds ==
    ASSUME NEW s \in EditLists, NEW new \in InstType, NEW where,
           new.bootfs # NoFs => new.kind = "solaris"
    PROVE  AddOne(s, new, where) \in EditLists
<1>. DEFINE r == AddOne(s, new, where)
<1>1. s \in ImageLists
  BY DEF EditLists
<1>2. /\ r \in ImageLists
      /\ \A i \in DOMAIN r : r[i] = Placed(new) \/ \E k \in DOMAIN s : Like(r[i], s[k])
  BY <1>1, AddOneIs
<1>3. Placed(new).owned /\ Placed(new).kind = new.kind /\ Placed(new).bootfs = new.bootfs
  BY DEF Placed, InstType
<1>. HIDE DEF r
<1>4. r \in EditLists
  BY <1>2, <1>3 DEF EditLists, Like
<1>. QED
  BY <1>4 DEF r

\* After the entry of what was installed became the default, another default replaces it
\* only by an entry of the same file system.
LEMMA InstalledAdds ==
    ASSUME NEW t, NEW s \in InstalledLists(t), NEW new \in InstType, NEW where \in {"start", "end"},
           new.default => new.kind = "solaris" /\ new.bootfs = t
    PROVE  AddOne(s, new, where) \in InstalledLists(t)
<1>. DEFINE r == AddOne(s, new, where)
<1>1. s \in ImageLists
  BY DEF InstalledLists
<1>2. /\ r \in ImageLists
      /\ \A i \in DOMAIN r :
            \/ r[i] = Placed(new)
            \/ \E k \in DOMAIN s : Like(r[i], s[k]) /\ (r[i].default => s[k].default /\ ~new.default)
      /\ \E i \in DOMAIN r : r[i] = Placed(new)
      /\ ~new.default => \A k \in DOMAIN s : \E i \in DOMAIN r : r[i] = s[k]
  BY <1>1, AddOneIs
<1>3. /\ Placed(new).default = new.default /\ Placed(new).kind = new.kind
      /\ Placed(new).bootfs = new.bootfs
  BY DEF Placed, InstType
<1>. HIDE DEF r
<1>4. \E i \in DOMAIN r : r[i].default
  BY <1>2, <1>3 DEF InstalledLists
<1>5. \A i \in DOMAIN r : r[i].default => r[i].kind = "solaris" /\ r[i].bootfs = t
  BY <1>2, <1>3 DEF InstalledLists, Like
<1>6. r \in InstalledLists(t)
  BY <1>2, <1>4, <1>5 DEF InstalledLists
<1>. QED
  BY <1>6 DEF r

\* An instance becomes the default: of a configuration that knows its instances, or when
\* no other is.
LEMMA SetDefaultIs ==
    ASSUME NEW s \in Seq(InstType), NEW i \in DOMAIN s,
           (One(s) /\ s[i].owned) \/ Defaults(s) \subseteq {i}
    PROVE  LET r == SetDefault(s, i) IN
           /\ r \in ImageLists /\ DOMAIN r = DOMAIN s /\ r[i].default
           /\ \A k \in DOMAIN s : Like(r[k], s[k])
<1>. DEFINE others == Defaults(s) \ {i}
            x == [s[i] EXCEPT !.default = TRUE]
            set == [s EXCEPT ![i].default = TRUE]
            r == SetDefault(s, i)
<1>1. /\ Len(s) \in Nat /\ DOMAIN s = 1 .. Len(s) /\ i \in 1 .. Len(s)
      /\ \A k \in 1 .. Len(s) : s[k] \in InstType
  BY DefaultsIn
<1>2. x \in InstType /\ x.default /\ Like(x, s[i])
  BY <1>1 DEF InstType, Like
<1>3. set = [s EXCEPT ![i] = x]
  OBVIOUS
<1>4. /\ set \in Seq(InstType) /\ Len(set) = Len(s) /\ DOMAIN set = 1 .. Len(s)
      /\ \A k \in 1 .. Len(s) : k # i => set[k] = s[k]
      /\ set[i] = x
  <2>. HIDE DEF x
  <2>1. [s EXCEPT ![i] = x] \in Seq(InstType) /\ Len([s EXCEPT ![i] = x]) = Len(s)
    BY <1>1, <1>2, ExceptSeq
  <2>2. \A k \in 1 .. Len(s) : [s EXCEPT ![i] = x][k] = IF k = i THEN x ELSE s[k]
    BY <1>1, <1>2, ExceptSeq
  <2>. QED
    BY <1>1, <1>3, <2>1, <2>2, LenProperties
<1>5. r = IF s[i].default \/ ~s[i].owned \/ others = {} THEN set ELSE Clear(set, FirstOf(others))
  BY DEF SetDefault
<1>. HIDE DEF r, set, x
<1>6. CASE s[i].default \/ ~s[i].owned \/ others = {}
  <2>1. r = set
    BY <1>5, <1>6
  <2>2. \A k \in 1 .. Len(s) : s[k].default => k = i
    BY <1>1, <1>6 DEF One, Defaults
  <2>3. One(set)
    BY <1>4, <2>2 DEF One
  <2>. QED
    BY <1>1, <1>2, <1>4, <2>1, <2>3 DEF ImageLists, Like, r
<1>7. CASE ~(s[i].default \/ ~s[i].owned \/ others = {})
  <2>. DEFINE d == FirstOf(others)
  <2>1. others \in SUBSET (1 .. Len(s))
    BY <1>1 DEF Defaults
  <2>2. d \in others
    <3>. HIDE DEF others
    <3>. QED
      BY <1>1, <1>7, <2>1, FirstIn
  <2>3. d \in 1 .. Len(s) /\ s[d].default /\ d # i
    BY <1>1, <2>2 DEF Defaults
  <2>4. \A k \in 1 .. Len(s) : s[k].default => k = d
    BY <1>1, <1>7, <2>2, <2>3 DEF One
  <2>5. r = Clear(set, d)
    BY <1>5, <1>7
  <2>. HIDE DEF d, others
  <2>6. /\ r \in Seq(InstType) /\ Len(r) = Len(s)
        /\ \A k \in 1 .. Len(s) : k # d => r[k] = set[k]
        /\ ~r[d].default /\ Like(r[d], set[d])
    <3>1. set \in Seq(InstType) /\ d \in DOMAIN set /\ Len(set) = Len(s)
      BY <1>4, <2>3
    <3>2. /\ Clear(set, d) \in Seq(InstType) /\ Len(Clear(set, d)) = Len(set)
          /\ \A k \in 1 .. Len(set) : k # d => Clear(set, d)[k] = set[k]
          /\ ~Clear(set, d)[d].default /\ Like(Clear(set, d)[d], set[d])
      BY <3>1, Cleared DEF Like
    <3>. QED
      BY <2>5, <3>1, <3>2
  <2>7. DOMAIN r = 1 .. Len(s)
    BY <2>6, LenProperties
  <2>8. r[i].default /\ Like(r[i], s[i])
    BY <1>1, <1>2, <1>4, <2>3, <2>6
  <2>9. \A k \in 1 .. Len(s) : k # i => ~r[k].default /\ Like(r[k], s[k])
    BY <1>4, <2>3, <2>4, <2>6 DEF Like
  <2>10. One(r)
    BY <2>7, <2>9 DEF One
  <2>. QED
    BY <1>1, <2>6, <2>7, <2>8, <2>9, <2>10 DEF ImageLists, r
<1>. QED
  BY <1>6, <1>7

\* Making an instance of a loaded configuration the default leaves one default.
LEMMA EditDefaults ==
    ASSUME NEW s \in EditLists, NEW i \in DOMAIN s
    PROVE  SetDefault(s, i) \in EditLists /\ Clear(s, i) \in EditLists
<1>1. s \in ImageLists /\ s \in Seq(InstType) /\ One(s) /\ s[i].owned
      /\ Len(s) \in Nat /\ DOMAIN s = 1 .. Len(s)
  BY DefaultsIn DEF EditLists, ImageLists
<1>2. SetDefault(s, i) \in EditLists
  <2>. DEFINE r == SetDefault(s, i)
  <2>1. r \in ImageLists /\ DOMAIN r = DOMAIN s /\ \A k \in DOMAIN s : Like(r[k], s[k])
    BY <1>1, SetDefaultIs
  <2>. HIDE DEF r
  <2>2. r \in EditLists
    BY <2>1 DEF EditLists, Like
  <2>. QED
    BY <2>2 DEF r
<1>3. Clear(s, i) \in EditLists
  <2>. DEFINE r == Clear(s, i)
  <2>1. /\ r \in Seq(InstType) /\ Len(r) = Len(s) /\ ~r[i].default
        /\ \A k \in 1 .. Len(s) : k # i => r[k] = s[k]
        /\ r[i].owned = s[i].owned /\ r[i].kind = s[i].kind /\ r[i].bootfs = s[i].bootfs
    BY <1>1, Cleared
  <2>. HIDE DEF r
  <2>2. DOMAIN r = 1 .. Len(s)
    BY <2>1, LenProperties
  <2>3. One(r)
    BY <1>1, <2>1, <2>2 DEF One
  <2>4. r \in EditLists
    BY <1>1, <2>1, <2>2, <2>3 DEF EditLists, ImageLists
  <2>. QED
    BY <2>4 DEF r
<1>. QED
  BY <1>2, <1>3

\* The instances of other file systems are those of the list, in their order.
LEMMA NotOfIs ==
    ASSUME NEW s \in ImageLists, NEW fs
    PROVE  LET r == NotOf(s, fs) IN
           r \in ImageLists /\ \A k \in DOMAIN r : \E m \in DOMAIN s : r[k] = s[m]
<1>. DEFINE n == Len(s)
            e(i) == IF s[i].bootfs = fs THEN <<>> ELSE <<s[i]>>
            seqs == [i \in 1 .. n |-> e(i)]
<1>1. /\ n \in Nat /\ DOMAIN s = 1 .. n /\ One(s)
      /\ \A i \in 1 .. n : s[i] \in InstType
  BY DefaultsIn DEF ImageLists
<1>2. \A i \in 1 .. n : e(i) \in Seq(InstType)
  BY <1>1
<1>3. seqs \in [1 .. n -> Seq(InstType)]
  <2>. HIDE DEF e
  <2>. QED
    BY <1>2
<1>4. NotOf(s, fs) = FlattenSeq(seqs)
  BY <1>1 DEF NotOf
<1>. HIDE DEF n
<1>5. PICK h : /\ h \in [0 .. n -> Seq(InstType)]
               /\ h[0] = <<>>
               /\ \A i \in 1 .. n : h[i] = h[i - 1] \o seqs[i]
               /\ FlattenSeq(seqs) = h[n]
  <2>. HIDE DEF seqs
  <2>. QED
    BY <1>1, <1>3, FlattenStages
<1>. DEFINE From(i) == \A k \in DOMAIN h[i] : \E m \in 1 .. i : h[i][k] = s[m]
            Bad == {i \in 0 .. n : ~(One(h[i]) /\ From(i))}
<1>6. 0 \notin Bad
  <2>1. DOMAIN h[0] = {}
    BY <1>5
  <2>. QED
    BY <2>1 DEF One
<1>7. ASSUME NEW i \in 1 .. n, One(h[i - 1]), From(i - 1)
      PROVE  One(h[i]) /\ From(i)
  <2>. DEFINE a == h[i - 1]
              l == Len(a)
  <2>1. /\ i - 1 \in 0 .. n /\ a \in Seq(InstType) /\ l \in Nat /\ DOMAIN a = 1 .. l
        /\ s[i] \in InstType
    <3>1. i - 1 \in 0 .. n
      BY <1>1
    <3>2. a \in Seq(InstType) /\ s[i] \in InstType
      BY <1>1, <1>5, <3>1
    <3>. QED
      BY <3>1, <3>2, LenProperties
  <2>2. h[i] = a \o e(i)
    BY <1>5
  <2>3. \A k \in 1 .. l : \E m \in 1 .. i - 1 : a[k] = s[m]
    BY <1>7, <2>1
  <2>4. CASE s[i].bootfs = fs
    <3>1. h[i] = a
      BY <2>1, <2>2, <2>4, ConcatEmptySeq
    <3>2. \A m \in 1 .. i - 1 : m \in 1 .. i
      OBVIOUS
    <3>. QED
      BY <1>7, <2>1, <2>3, <3>1, <3>2
  <2>5. CASE s[i].bootfs # fs
    <3>1. h[i] = a \o <<s[i]>>
      BY <2>2, <2>5
    <3>2. /\ DOMAIN h[i] = 1 .. l + 1
          /\ \A k \in 1 .. l + 1 : h[i][k] = IF k = l + 1 THEN s[i] ELSE a[k]
      <4>1. <<s[i]>> \in Seq(InstType) /\ Len(<<s[i]>>) = 1 /\ <<s[i]>>[1] = s[i]
        BY <2>1
      <4>2. /\ h[i] \in Seq(InstType) /\ Len(h[i]) = l + 1
            /\ \A k \in 1 .. l + 1 :
                  h[i][k] = IF k <= l THEN a[k] ELSE <<s[i]>>[k - l]
        BY <2>1, <3>1, <4>1, ConcatProperties
      <4>3. DOMAIN h[i] = 1 .. l + 1
        BY <4>2, LenProperties
      <4>4. \A k \in 1 .. l + 1 : (k <= l <=> k # l + 1) /\ (k = l + 1 => k - l = 1)
        BY <2>1
      <4>. QED
        BY <4>1, <4>2, <4>3, <4>4
    <3>. HIDE DEF l, a, From
    <3>3. From(i)
      <4>1. ASSUME NEW k \in 1 .. l + 1 PROVE \E m \in 1 .. i : h[i][k] = s[m]
        <5>1. CASE k = l + 1
          BY <3>2, <5>1
        <5>2. CASE k # l + 1
          <6>1. k \in 1 .. l
            BY <2>1, <5>2
          <6>. QED
            BY <2>3, <3>2, <5>2, <6>1
        <5>. QED
          BY <5>1, <5>2
      <4>. QED
        BY <3>2, <4>1 DEF From
    <3>4. ASSUME NEW k \in 1 .. l + 1, NEW m \in 1 .. l + 1, h[i][k].default, h[i][m].default
          PROVE  k = m
      <4>1. \A x \in 1 .. l : a[x].default => ~s[i].default
        BY <1>1, <2>3 DEF One
      <4>2. \A x \in 1 .. l + 1 : x # l + 1 => x \in 1 .. l
        BY <2>1
      <4>3. CASE k = l + 1 \/ m = l + 1
        BY <3>2, <3>4, <4>1, <4>2, <4>3
      <4>4. CASE k # l + 1 /\ m # l + 1
        BY <1>7, <2>1, <3>2, <3>4, <4>2, <4>4 DEF One, a
      <4>. QED
        BY <4>3, <4>4
    <3>5. One(h[i])
      BY <3>2, <3>4 DEF One
    <3>. QED
      BY <3>3, <3>5
  <2>. QED
    BY <2>4, <2>5
<1>8. Bad = {}
  <2>1. SUFFICES ASSUME Bad # {} PROVE FALSE
    OBVIOUS
  <2>2. PICK m \in Bad : \A y \in Bad : m <= y
    <3>1. Bad \subseteq Nat
      OBVIOUS
    <3>. HIDE DEF Bad
    <3>. QED
      BY <2>1, <3>1, LeastNat
  <2>3. m \in 0 .. n /\ m # 0 /\ ~(One(h[m]) /\ From(m))
    BY <1>6, <2>2
  <2>4. m \in 1 .. n /\ m - 1 \in 0 .. n /\ ~(m <= m - 1)
    <3>. HIDE DEF From, Bad
    <3>. QED
      BY <1>1, <2>3
  <2>5. One(h[m - 1]) /\ From(m - 1)
    <3>1. m - 1 \notin Bad
      <4>. HIDE DEF Bad
      <4>. QED
        BY <2>2, <2>4
    <3>. QED
      BY <2>4, <3>1
  <2>. HIDE DEF From
  <2>. QED
    BY <1>7, <2>3, <2>4, <2>5
<1>9. n \in 0 .. n
  BY <1>1
<1>10. h[n] \in Seq(InstType) /\ One(h[n]) /\ From(n)
  BY <1>5, <1>8, <1>9
<1>. HIDE DEF seqs
<1>11. \A k \in DOMAIN h[n] : \E m \in DOMAIN s : h[n][k] = s[m]
  BY <1>1, <1>10
<1>12. h[n] \in ImageLists
  BY <1>10 DEF ImageLists
<1>13. NotOf(s, fs) = h[n]
  BY <1>4, <1>5
<1>. HIDE DEF From, Bad
<1>. QED
  BY <1>11, <1>12, <1>13

\* Deleting instances from a loaded configuration leaves no second default.
LEMMA EditDeletes ==
    ASSUME NEW s \in EditLists, NEW fs
    PROVE  NotOf(s, fs) \in EditLists
<1>. DEFINE r == NotOf(s, fs)
<1>1. s \in ImageLists
  BY DEF EditLists
<1>2. r \in ImageLists /\ \A k \in DOMAIN r : \E m \in DOMAIN s : r[k] = s[m]
  BY <1>1, NotOfIs
<1>. HIDE DEF r
<1>3. r \in EditLists
  BY <1>2 DEF EditLists
<1>. QED
  BY <1>3 DEF r

LEMMA NotOfSingle ==
    ASSUME NEW x \in InstType, NEW fs, x.bootfs # fs
    PROVE  NotOf(<<x>>, fs) = <<x>>
<1>. DEFINE seqs == [i \in 1 .. 1 |-> <<x>>]
<1>1. DOMAIN <<x>> = 1 .. 1 /\ \A i \in 1 .. 1 : <<x>>[i] = x
  OBVIOUS
<1>2. NotOf(<<x>>, fs) = FlattenSeq(seqs)
  BY <1>1 DEF NotOf
<1>3. seqs \in [1 .. 1 -> Seq(InstType)]
  OBVIOUS
<1>4. PICK h : h[0] = <<>> /\ (\A i \in 1 .. 1 : h[i] = h[i - 1] \o seqs[i]) /\ FlattenSeq(seqs) = h[1]
  <2>. DEFINE n == 1
  <2>1. n \in Nat /\ seqs \in [1 .. n -> Seq(InstType)]
    BY <1>3
  <2>. HIDE DEF seqs, n
  <2>2. PICK h : /\ h \in [0 .. n -> Seq(InstType)]
                 /\ h[0] = <<>>
                 /\ \A i \in 1 .. n : h[i] = h[i - 1] \o seqs[i]
                 /\ FlattenSeq(seqs) = h[n]
    BY <2>1, FlattenStages
  <2>. QED
    BY <2>2 DEF n
<1>5. h[1] = <<>> \o <<x>>
  BY <1>4
<1>6. <<>> \o <<x>> = <<x>>
  <2>1. <<x>> \in Seq(InstType)
    OBVIOUS
  <2>. QED
    BY <2>1, ConcatEmptySeq
<1>. QED
  BY <1>2, <1>4, <1>5, <1>6

--------------------------------------------------------------------------------
(* What the lists start from, and what a menu written from one starts.     *)

\* A job is of one of the kinds, and its parts are of their types.
LEMMA JobIs ==
    ASSUME NEW j \in Jobs
    PROVE  /\ j.kind \in {"edit", "system", "sparc", "image"}
           /\ j.menu.entries \in Seq(EntryType) /\ j.bes \in Seq([bootfs : STRING, active : BOOLEAN])
           /\ j.chains \in Nat /\ j.target \in FsType /\ j.devs \in Nat
           /\ j.custom \in Seq([default : BOOLEAN, at : {"start", "end"}])
           /\ j.dry \in BOOLEAN /\ j.ready \in BOOLEAN /\ j.others \in SUBSET STRING
           /\ j.kind = "edit" => ~j.dry
           /\ j.kind \in {"system", "sparc"} => j.target # NoFs
           /\ \A i, k \in DOMAIN j.bes : j.bes[i].bootfs = j.bes[k].bootfs => i = k
  BY BootAssumption DEF JobType

\* Adding instances one by one to a list of A stays in A when each addition does.
LEMMA AddAllIn ==
    ASSUME NEW A, NEW s \in A, NEW n \in Nat, NEW new, DOMAIN new = 1 .. n, NEW where,
           \A i \in 1 .. n : \A a \in A : AddOne(a, new[i], where) \in A
    PROVE  AddAll(s, new, where) \in A
<1>. DEFINE pairs == [i \in DOMAIN new |-> <<new[i], where>>]
            B == {<<new[i], where>> : i \in 1 .. n}
<1>1. DOMAIN pairs = 1 .. n /\ \A i \in 1 .. n : pairs[i] \in B
  OBVIOUS
<1>2. \A a \in A, b \in B : AddPlaced(a, b) \in A
  BY DEF AddPlaced
<1>3. AddAll(s, new, where) = AllPlaced(s, pairs)
  BY DEF AddAll, AllPlaced
<1>. HIDE DEF pairs, B
<1>. QED
  BY <1>1, <1>2, <1>3, PlacedIn

LEMMA EmptyLists ==
    <<>> \in EditLists /\ <<>> \in ImageLists
<1>1. <<>> \in Seq(InstType) /\ DOMAIN <<>> = {}
  BY EmptySeq
<1>. QED
  BY <1>1 DEF EditLists, ImageLists, One

LEMMA InstIs ==
    ASSUME NEW what \in {"solaris", "chain", "other", "odd"}, NEW fs \in FsType, NEW title \in Titles,
           NEW default \in BOOLEAN
    PROVE  LET x == [Inst(what, fs, title) EXCEPT !.default = default] IN
           /\ x \in InstType /\ Inst(what, fs, title) \in InstType
           /\ x.kind = what /\ x.bootfs = fs /\ x.default = default
           /\ Inst(what, fs, title).kind = what /\ ~Inst(what, fs, title).default
           /\ Inst(what, fs, title).bootfs = fs
  BY DEF Inst, InstType

\* What a client loads is a list that knows its instances, with one default at the most.
LEMMA LoadedIs ==
    ASSUME NEW m, m.menu.entries \in Seq(EntryType)
    PROVE  LoadBootConfig(m) \in EditLists
<1>. DEFINE es == m.menu.entries
            n == Len(es)
            x(i) == [Inst(LoadedKind(es[i]), es[i].bootfs, es[i].title) EXCEPT
                        !.default = (m.menu.default = i)]
            new == [i \in 1 .. n |-> x(i)]
            all == LoadConfigDisk(m.menu)
<1>1. n \in Nat /\ \A i \in 1 .. n : es[i] \in EntryType
  BY LenProperties, ElementOfSeq
<1>2. ASSUME NEW i \in 1 .. n
      PROVE  x(i) \in InstType /\ (x(i).bootfs # NoFs => x(i).kind = "solaris")
  <2>1. es[i].bootfs \in FsType /\ es[i].title \in Titles
    BY <1>1 DEF EntryType, Titles
  <2>2. /\ LoadedKind(es[i]) \in {"solaris", "chain", "other", "odd"}
        /\ es[i].bootfs # NoFs => LoadedKind(es[i]) = "solaris"
    BY DEF LoadedKind
  <2>3. (m.menu.default = i) \in BOOLEAN
    OBVIOUS
  <2>. QED
    BY <2>1, <2>2, <2>3 DEF Inst, InstType
<1>3. all = AddAll(<<>>, new, "end")
  BY DEF LoadConfigDisk
<1>4. DOMAIN new = 1 .. n /\ \A i \in 1 .. n : new[i] = x(i)
  OBVIOUS
<1>. HIDE DEF x, new, all
<1>5. all \in EditLists
  <2>1. \A i \in 1 .. n : \A a \in EditLists : AddOne(a, new[i], "end") \in EditLists
    BY <1>2, <1>4, EditAdds
  <2>. HIDE DEF n
  <2>. QED
    BY <1>1, <1>3, <1>4, <2>1, EmptyLists, AddAllIn
<1>. DEFINE named == {i \in DOMAIN all : all[i].bootfs = m.bootfs}
            pooled == {i \in DOMAIN all : all[i].bootfs # NoFs}
            pick == IF named # {} THEN named ELSE pooled
<1>6. LoadBootConfig(m) = IF Defaults(all) # {} \/ m.bootfs = NoFs \/ pick = {} THEN all
                          ELSE SetDefault(all, FirstOf(pick))
  BY DEF LoadBootConfig, all
<1>7. all \in Seq(InstType) /\ Len(all) \in Nat /\ DOMAIN all = 1 .. Len(all)
  BY <1>5, DefaultsIn DEF EditLists, ImageLists
<1>8. pick \in SUBSET (1 .. Len(all))
  BY <1>7
<1>. HIDE DEF pick
<1>9. pick # {} => FirstOf(pick) \in DOMAIN all
  BY <1>7, <1>8, FirstIn
<1>. QED
  BY <1>5, <1>6, <1>9, EditDefaults

\* What a checkpoint finds: one instance of each boot environment, of which the active
\* one is the default, and the other systems.
LEMMA FoundIs ==
    ASSUME NEW j \in Jobs
    PROVE  LET r == AutogenerateConfig(j) IN
           /\ r \in Seq(InstType)
           /\ \A i \in DOMAIN r : r[i].default =>
                 i \in DOMAIN j.bes /\ j.bes[i].active /\ r[i].kind = "solaris"
                 /\ r[i].bootfs = j.bes[i].bootfs
           /\ \A i, k \in DOMAIN r :
                 r[i].kind = "solaris" /\ r[k].kind = "solaris" /\ r[i].bootfs = r[k].bootfs => i = k
<1>. DEFINE n == Len(j.bes)
            l == j.chains
            x(i) == [Inst("solaris", j.bes[i].bootfs, "be") EXCEPT !.default = j.bes[i].active]
            a == AutogenSolaris(j.bes)
            c == Inst("chain", NoFs, "other")
            b == AutogenChain(j.chains)
            r == AutogenerateConfig(j)
<1>1. /\ n \in Nat /\ DOMAIN j.bes = 1 .. n /\ l \in Nat
      /\ \A i \in 1 .. n : j.bes[i].bootfs \in STRING /\ j.bes[i].active \in BOOLEAN
  <2>1. j.bes \in Seq([bootfs : STRING, active : BOOLEAN]) /\ l \in Nat
    BY JobIs
  <2>2. n \in Nat /\ DOMAIN j.bes = 1 .. n
    BY <2>1, LenProperties
  <2>3. \A i \in 1 .. n : j.bes[i] \in [bootfs : STRING, active : BOOLEAN]
    BY <2>1, ElementOfSeq
  <2>. QED
    BY <2>1, <2>2, <2>3
<1>2. \A i \in 1 .. n : /\ x(i) \in InstType /\ x(i).kind = "solaris"
                        /\ x(i).bootfs = j.bes[i].bootfs /\ x(i).default = j.bes[i].active
  <2>1. \A i \in 1 .. n : j.bes[i].bootfs \in FsType /\ j.bes[i].active \in BOOLEAN
    BY <1>1 DEF FsType
  <2>2. "be" \in Titles
    BY DEF Titles
  <2>. QED
    BY <2>1, <2>2 DEF Inst, InstType
<1>3. c \in InstType /\ c.kind = "chain" /\ ~c.default
  <2>1. NoFs \in FsType /\ "other" \in Titles
    BY DEF FsType, Titles
  <2>. QED
    BY <2>1 DEF Inst, InstType
<1>4. a = [i \in 1 .. n |-> x(i)] /\ b = [i \in 1 .. l |-> c] /\ r = a \o b
  BY DEF AutogenSolaris, AutogenChain, AutogenerateConfig
<1>. HIDE DEF n, l, x, a, b, c, r
<1>5. a \in Seq(InstType) /\ Len(a) = n /\ \A i \in 1 .. n : a[i] = x(i)
  <2>1. n \in Nat /\ \A i \in 1 .. n : x(i) \in InstType
    BY <1>1, <1>2
  <2>2. a = [i \in 1 .. n |-> x(i)]
    BY <1>4
  <2>. QED
    BY <2>1, <2>2
<1>6. b \in Seq(InstType) /\ Len(b) = l /\ \A i \in 1 .. l : b[i] = c
  <2>1. l \in Nat /\ c \in InstType
    BY <1>1, <1>3
  <2>2. b = [i \in 1 .. l |-> c]
    BY <1>4
  <2>. QED
    BY <2>1, <2>2
<1>7. /\ r \in Seq(InstType) /\ Len(r) = n + l
      /\ \A i \in 1 .. n + l : r[i] = IF i <= n THEN a[i] ELSE b[i - n]
  <2>1. /\ a \o b \in Seq(InstType) /\ Len(a \o b) = Len(a) + Len(b)
        /\ \A i \in 1 .. Len(a) + Len(b) : (a \o b)[i] = IF i <= Len(a) THEN a[i] ELSE b[i - Len(a)]
    BY <1>5, <1>6, ConcatProperties
  <2>. QED
    BY <1>4, <1>5, <1>6, <2>1
<1>8. DOMAIN r = 1 .. n + l
  BY <1>7, LenProperties
<1>9. \A i \in DOMAIN r : IF i <= n THEN i \in 1 .. n /\ r[i] = x(i) ELSE r[i] = c
  <2>1. \A i \in 1 .. n + l : IF i <= n THEN i \in 1 .. n ELSE i - n \in 1 .. l
    BY <1>1
  <2>. QED
    BY <1>5, <1>6, <1>7, <1>8, <2>1
<1>10. \A i \in DOMAIN r : r[i].kind = "solaris" \/ r[i].default => i \in 1 .. n /\ r[i] = x(i)
  BY <1>3, <1>9
<1>11. \A i, k \in 1 .. n : j.bes[i].bootfs = j.bes[k].bootfs => i = k
  BY <1>1, JobIs
<1>. QED
  BY <1>1, <1>2, <1>7, <1>10, <1>11 DEF r

\* The menu of a list: one entry for each instance, and the default is where it says.
LEMMA MenuStarts ==
    ASSUME NEW s \in ImageLists, s # <<>>
    PROVE  LET d == WriteMenuLst(s).default IN
           /\ d \in DOMAIN s /\ WriteMenuLst(s).entries[d] = MenuEntry(s[d])
           /\ DefaultFs(s) = s[d].bootfs
           /\ \A i \in DOMAIN s : s[i].default => i = d
<1>1. /\ s \in Seq(InstType) /\ One(s) /\ Len(s) \in Nat /\ DOMAIN s = 1 .. Len(s)
      /\ Defaults(s) \in SUBSET (1 .. Len(s))
  BY DefaultsIn DEF ImageLists
<1>2. Len(s) # 0
  BY <1>1, EmptySeq
<1>. DEFINE d == WriteMenuLst(s).default
<1>3. /\ WriteMenuLst(s).entries = [i \in 1 .. Len(s) |-> MenuEntry(s[i])]
      /\ d = IF Defaults(s) = {} THEN 1
             ELSE CHOOSE i \in Defaults(s) : \A k \in Defaults(s) : k <= i
  BY DEF WriteMenuLst
<1>4. CASE Defaults(s) = {}
  BY <1>1, <1>2, <1>3, <1>4 DEF DefaultFs, Defaults
<1>5. CASE Defaults(s) # {}
  <2>1. PICK i \in 1 .. Len(s) : Defaults(s) = {i}
    BY <1>1, <1>5 DEF One, Defaults
  <2>2. d = i
    BY <1>1, <1>3, <1>5, <2>1
  <2>3. FirstOf(Defaults(s)) = i
    BY <1>1, <2>1, FirstIn
  <2>4. DefaultFs(s) = s[i].bootfs
    BY <1>5, <2>3 DEF DefaultFs
  <2>. HIDE DEF d
  <2>5. WriteMenuLst(s).entries[d] = MenuEntry(s[d])
    BY <1>3, <2>2
  <2>6. \A k \in DOMAIN s : s[k].default => k = d
    BY <1>1, <2>1, <2>2 DEF Defaults
  <2>. QED
    BY <1>1, <2>2, <2>4, <2>5, <2>6 DEF d
<1>. QED
  BY <1>4, <1>5

--------------------------------------------------------------------------------
(* The steps of a job, in order.                                           *)

LEMMA CommitStepsAre ==
    ASSUME NEW j \in Jobs, NEW changed \in BOOLEAN
    PROVE  LET s == CommitSteps(j, changed) IN
           /\ s \in Seq(StepNames) /\ Len(s) = IF changed THEN j.devs + 4 ELSE 1
           /\ \A k \in 1 .. Len(s) :
                 s[k] = IF changed THEN CommitStage(j.devs, k) ELSE "bootfs"
<1>. DEFINE d == j.devs
            a == <<"vars">>
            b == <<"menu", "move">>
            c == [i \in 1 .. d |-> "loader"]
            t == <<"bootfs">>
            s == CommitSteps(j, changed)
<1>1. d \in Nat
  BY JobIs
<1>2. /\ a \in Seq(StepNames) /\ b \in Seq(StepNames) /\ t \in Seq(StepNames) /\ "loader" \in StepNames
      /\ Len(a) = 1 /\ Len(b) = 2 /\ Len(t) = 1 /\ a[1] = "vars" /\ b[1] = "menu" /\ b[2] = "move"
      /\ t[1] = "bootfs"
  BY DEF StepNames
<1>3. CASE changed
  <2>1. s = (a \o c \o b) \o t
    BY <1>3 DEF CommitSteps
  <2>. DEFINE m == a \o c \o b
              e == "loader"
  <2>. HIDE DEF d, a, b, c, t, s
  <2>2. c \in Seq(StepNames) /\ Len(c) = d /\ \A i \in 1 .. d : c[i] = "loader"
    <3>1. c = [i \in 1 .. d |-> "loader"]
      BY DEF c
    <3>. QED
      BY <1>1, <1>2, <3>1
  <2>3. /\ m \in Seq(StepNames) /\ Len(m) = Len(a) + d + Len(b)
        /\ \A k \in 1 .. Len(a) + d + Len(b) :
              m[k] = IF k <= Len(a) THEN a[k]
                     ELSE IF k <= Len(a) + d THEN "loader" ELSE b[k - (Len(a) + d)]
    <3>1. \A i \in 1 .. d : c[i] = e
      BY <2>2
    <3>. HIDE DEF e
    <3>2. /\ m \in Seq(StepNames) /\ Len(m) = Len(a) + d + Len(b)
          /\ \A k \in 1 .. Len(a) + d + Len(b) :
                m[k] = IF k <= Len(a) THEN a[k]
                       ELSE IF k <= Len(a) + d THEN e ELSE b[k - (Len(a) + d)]
      <4>1. a \in Seq(StepNames) /\ b \in Seq(StepNames) /\ c \in Seq(StepNames) /\ d = Len(c)
            /\ \A i \in 1 .. Len(c) : c[i] = e
        BY <1>2, <2>2, <3>1
      <4>. QED
        BY <4>1, Between, SMT DEF m
    <3>. QED
      BY <3>2 DEF e
  <2>. HIDE DEF m
  <2>4. Len(m) = d + 3 /\ \A k \in 1 .. d + 3 : m[k] = CommitStage(d, k)
    <3>1. Len(m) = d + 3
      BY <1>1, <1>2, <2>3
    <3>2. ASSUME NEW k \in 1 .. d + 3 PROVE m[k] = CommitStage(d, k)
      <4>1. CASE k = 1
        BY <1>1, <1>2, <2>3, <4>1 DEF CommitStage
      <4>2. CASE k # 1 /\ k <= d + 1
        BY <1>1, <1>2, <2>3, <4>2 DEF CommitStage
      <4>3. CASE k = d + 2 /\ k # 1
        <5>1. k - (Len(a) + d) = 1 /\ ~(k <= 1 + d) /\ ~(k <= 1)
          BY <1>1, <1>2, <4>3
        <5>. QED
          BY <1>1, <1>2, <2>3, <4>3, <5>1 DEF CommitStage
      <4>4. CASE k = d + 3 /\ k # 1
        <5>1. k - (Len(a) + d) = 2 /\ ~(k <= 1 + d) /\ ~(k <= 1) /\ k # d + 2
          BY <1>1, <1>2, <4>4
        <5>. QED
          BY <1>1, <1>2, <2>3, <4>4, <5>1 DEF CommitStage
      <4>. QED
        BY <1>1, <4>1, <4>2, <4>3, <4>4
    <3>. QED
      BY <3>1, <3>2
  <2>5. /\ m \o t \in Seq(StepNames) /\ Len(m \o t) = Len(m) + Len(t)
        /\ \A i \in 1 .. Len(m) + Len(t) : (m \o t)[i] = IF i <= Len(m) THEN m[i] ELSE t[i - Len(m)]
    BY <1>2, <2>3, ConcatProperties
  <2>6. Len(m \o t) = d + 4
    BY <1>1, <1>2, <2>4, <2>5
  <2>7. ASSUME NEW k \in 1 .. d + 4 PROVE (m \o t)[k] = CommitStage(d, k)
    <3>1. CASE k <= d + 3
      BY <1>1, <1>2, <2>4, <2>5, <3>1
    <3>2. CASE k = d + 4
      <4>1. k - (d + 3) = 1 /\ ~(k <= d + 3) /\ k # 1 /\ ~(k <= d + 1) /\ k # d + 2 /\ k # d + 3
        BY <1>1, <3>2
      <4>. QED
        BY <1>1, <1>2, <2>4, <2>5, <4>1 DEF CommitStage
    <3>3. k <= d + 3 \/ k = d + 4
      BY <1>1
    <3>. QED
      BY <3>1, <3>2, <3>3
  <2>8. s = m \o t
    BY <2>1 DEF m
  <2>. QED
    BY <1>3, <2>5, <2>6, <2>7, <2>8 DEF s, d
<1>4. CASE ~changed
  <2>1. s = <<>> \o t
    BY <1>4 DEF CommitSteps
  <2>2. s = t
    BY <1>2, <2>1, ConcatEmptySeq
  <2>. HIDE DEF s
  <2>3. s \in Seq(StepNames) /\ Len(s) = 1 /\ s[1] = "bootfs"
    BY <1>2, <2>2
  <2>4. \A k \in 1 .. 1 : k = 1
    OBVIOUS
  <2>. QED
    BY <1>4, <2>3, <2>4 DEF s
<1>. QED
  BY <1>3, <1>4

Script ==
    CASE job.kind = "edit" -> CommitSteps(job, dirty)
      [] job.kind = "system" -> SystemSteps(job)
      [] job.kind = "sparc" -> SparcSteps(job)
      [] OTHER -> ImageSteps(job)

\* The steps of each kind of job, by number.
LEMMA ScriptIs ==
    ASSUME job \in Jobs, dirty \in BOOLEAN
    PROVE  /\ Script \in Seq(StepNames) /\ Len(Script) = Total /\ Total \in Nat \ {0}
           /\ \A k \in 1 .. Total : Script[k] = Stage(k)
<1>1. job.devs \in Nat /\ job.kind \in {"edit", "system", "sparc", "image"} /\ job.dry \in BOOLEAN
  BY JobIs
<1>. DEFINE d == job.devs
<1>2. CASE job.kind = "edit"
  <2>1. Script = CommitSteps(job, dirty) /\ Total = IF dirty THEN d + 4 ELSE 1
    BY <1>2 DEF Script, Total
  <2>2. \A k : Stage(k) = IF dirty THEN CommitStage(d, k) ELSE "bootfs"
    BY <1>2 DEF Stage, StageOf
  <2>. QED
    BY <1>1, <2>1, <2>2, CommitStepsAre
<1>3. CASE job.kind = "system"
  <2>. DEFINE a == <<"parse", "autogen", "target", "custom">>
              b == IF job.dry THEN <<"temp">> ELSE CommitSteps(job, TRUE)
              n == IF job.dry THEN 1 ELSE d + 4
  <2>1. Script = a \o b /\ Total = 4 + n
    <3>1. Script = a \o b
      BY <1>3 DEF Script, SystemSteps
    <3>2. Total = IF job.dry THEN 5 ELSE d + 8
      BY <1>3 DEF Total
    <3>. HIDE DEF a, b
    <3>. QED
      BY <1>1, <3>1, <3>2
  <2>2. a \in Seq(StepNames) /\ Len(a) = 4
        /\ a[1] = "parse" /\ a[2] = "autogen" /\ a[3] = "target" /\ a[4] = "custom"
    BY DEF StepNames
  <2>3. /\ b \in Seq(StepNames) /\ Len(b) = n
        /\ \A k \in 1 .. n : b[k] = IF job.dry THEN "temp" ELSE CommitStage(d, k)
    <3>1. CASE job.dry
      BY <3>1 DEF StepNames
    <3>2. CASE ~job.dry
      BY <3>2, CommitStepsAre
    <3>. QED
      BY <3>1, <3>2
  <2>4. n \in Nat \ {0}
    BY <1>1
  <2>5. \A k : Stage(k) =
            IF k = 1 THEN "parse" ELSE IF k = 2 THEN "autogen" ELSE IF k = 3 THEN "target"
            ELSE IF k = 4 THEN "custom" ELSE IF job.dry THEN "temp" ELSE CommitStage(d, k - 4)
    BY <1>3 DEF Stage, StageOf
  <2>. HIDE DEF a, b, n, d
  <2>6. /\ a \o b \in Seq(StepNames) /\ Len(a \o b) = Len(a) + Len(b)
        /\ \A i \in 1 .. Len(a) + Len(b) : (a \o b)[i] = IF i <= Len(a) THEN a[i] ELSE b[i - Len(a)]
    BY <2>2, <2>3, ConcatProperties
  <2>7. ASSUME NEW k \in 1 .. 4 + n PROVE (a \o b)[k] = Stage(k)
    <3>1. CASE k <= 4
      <4>1. k \in {1, 2, 3, 4}
        BY <3>1
      <4>. QED
        BY <2>2, <2>3, <2>4, <2>5, <2>6, <3>1, <4>1
    <3>2. CASE ~(k <= 4)
      <4>1. k - 4 \in 1 .. n /\ k # 1 /\ k # 2 /\ k # 3 /\ k # 4
        BY <2>4, <3>2
      <4>2. (a \o b)[k] = b[k - 4]
        BY <2>2, <2>3, <2>4, <2>6, <3>2
      <4>. QED
        BY <2>3, <2>5, <4>1, <4>2
    <3>. QED
      BY <3>1, <3>2
  <2>. QED
    BY <2>1, <2>2, <2>3, <2>4, <2>6, <2>7
<1>4. CASE job.kind = "sparc"
  <2>. DEFINE a == <<"parse", "bootfs">>
              b == <<"prom", "sparc_menu", "bootlst">>
              c == [i \in 1 .. d |-> "loader"]
  <2>1. Script = a \o c \o b /\ Total = d + 5
    BY <1>4 DEF Script, Total, SparcSteps
  <2>2. /\ a \in Seq(StepNames) /\ b \in Seq(StepNames) /\ "loader" \in StepNames
        /\ Len(a) = 2 /\ Len(b) = 3 /\ a[1] = "parse" /\ a[2] = "bootfs"
        /\ b[1] = "prom" /\ b[2] = "sparc_menu" /\ b[3] = "bootlst"
    BY DEF StepNames
  <2>3. d \in Nat /\ c \in Seq(StepNames) /\ Len(c) = d /\ \A i \in 1 .. d : c[i] = "loader"
    BY <1>1, <2>2
  <2>4. \A k : Stage(k) = SparcStage(d, k)
    BY <1>4 DEF Stage, StageOf
  <2>. DEFINE e == "loader"
  <2>. HIDE DEF a, b, c, d
  <2>5. /\ a \o c \o b \in Seq(StepNames) /\ Len(a \o c \o b) = Len(a) + d + Len(b)
        /\ \A k \in 1 .. Len(a) + d + Len(b) :
              (a \o c \o b)[k] = IF k <= Len(a) THEN a[k]
                                 ELSE IF k <= Len(a) + d THEN "loader" ELSE b[k - (Len(a) + d)]
    <3>1. \A i \in 1 .. d : c[i] = e
      BY <2>3
    <3>. HIDE DEF e
    <3>2. /\ a \o c \o b \in Seq(StepNames) /\ Len(a \o c \o b) = Len(a) + d + Len(b)
          /\ \A k \in 1 .. Len(a) + d + Len(b) :
                (a \o c \o b)[k] = IF k <= Len(a) THEN a[k]
                                   ELSE IF k <= Len(a) + d THEN e ELSE b[k - (Len(a) + d)]
      <4>1. a \in Seq(StepNames) /\ b \in Seq(StepNames) /\ c \in Seq(StepNames) /\ d = Len(c)
            /\ \A i \in 1 .. Len(c) : c[i] = e
        BY <2>2, <2>3, <3>1
      <4>. QED
        BY <4>1, Between, SMT
    <3>. QED
      BY <3>2 DEF e
  <2>6. ASSUME NEW k \in 1 .. d + 5 PROVE (a \o c \o b)[k] = Stage(k)
    <3>1. CASE k = 1 \/ k = 2
      BY <2>2, <2>3, <2>4, <2>5, <3>1 DEF SparcStage
    <3>2. CASE k # 1 /\ k # 2 /\ k <= d + 2
      <4>1. ~(k <= Len(a)) /\ k <= Len(a) + d /\ k \in 1 .. Len(a) + d + Len(b)
        BY <2>2, <2>3, <3>2
      <4>2. (a \o c \o b)[k] = "loader"
        BY <2>5, <4>1
      <4>. QED
        BY <2>4, <3>2, <4>2 DEF SparcStage
    <3>3. CASE ~(k <= d + 2)
      <4>1. k \in {d + 3, d + 4, d + 5} /\ ~(k <= 2) /\ k # 1 /\ k # 2
            /\ k - (2 + d) \in {1, 2, 3} /\ (k - (2 + d) = 1 <=> k = d + 3)
            /\ (k - (2 + d) = 2 <=> k = d + 4) /\ ~(k <= 2 + d)
        BY <2>3, <3>3
      <4>2. (a \o c \o b)[k] = b[k - (2 + d)]
        BY <2>2, <2>3, <2>5, <3>3, <4>1
      <4>. QED
        BY <2>2, <2>4, <3>3, <4>1, <4>2 DEF SparcStage
    <3>. QED
      BY <3>1, <3>2, <3>3
  <2>7. Len(a \o c \o b) = d + 5
    BY <2>2, <2>3, <2>5
  <2>. QED
    BY <2>1, <2>3, <2>5, <2>6, <2>7
<1>5. CASE job.kind = "image"
  <2>1. Script = <<"parse", "default_entries", "custom", "temp", "put", "image_info">> /\ Total = 6
    BY <1>5 DEF Script, Total, ImageSteps
  <2>2. \A k : Stage(k) =
            IF k = 1 THEN "parse" ELSE IF k = 2 THEN "default_entries"
            ELSE IF k = 3 THEN "custom" ELSE IF k = 4 THEN "temp" ELSE IF k = 5 THEN "put"
            ELSE "image_info"
    BY <1>5 DEF Stage, StageOf
  <2>3. Script \in Seq(StepNames)
    BY <2>1 DEF StepNames
  <2>4. ASSUME NEW k \in 1 .. 6 PROVE Script[k] = Stage(k)
    <3>1. k \in {1, 2, 3, 4, 5, 6}
      OBVIOUS
    <3>. QED
      BY <2>1, <2>2, <3>1
  <2>. QED
    BY <2>1, <2>3, <2>4
<1>. QED
  BY <1>1, <1>2, <1>3, <1>4, <1>5

\* Which step of which job a step can be.
LEMMA StageIs ==
    ASSUME job \in Jobs, dirty \in BOOLEAN, NEW g \in Nat, g < Total
    PROVE  LET s == Stage(g + 1) IN
           /\ s = "parse" => job.kind # "edit" /\ g = 0
           /\ s = "autogen" => job.kind = "system" /\ g = 1
           /\ s = "target" => job.kind = "system" /\ g = 2
           /\ s = "default_entries" => job.kind = "image" /\ g = 1
           /\ s = "custom" => (job.kind = "system" /\ g = 3) \/ (job.kind = "image" /\ g = 2)
           /\ s = "vars" => Commits /\ g = Base - 1
           /\ s = "loader" => (Commits \/ job.kind = "sparc") /\ Base <= g /\ g < Base + job.devs
           /\ s = "menu" => Commits /\ g = Base + job.devs
           /\ s = "move" => Commits /\ g = Base + job.devs + 1
           /\ s = "bootfs" => \/ Commits /\ g = Base + job.devs + 2 /\ g + 1 = Total
                              \/ job.kind = "edit" /\ ~dirty
                              \/ job.kind = "sparc" /\ g = 1
           /\ s = "temp" => \/ job.kind = "system" /\ job.dry /\ g = 4
                            \/ job.kind = "image" /\ g = 3
           /\ s = "put" => job.kind = "image" /\ g = 4
           /\ s = "image_info" => job.kind = "image" /\ g = 5
           /\ s = "prom" => job.kind = "sparc" /\ g = job.devs + 2
           /\ s = "sparc_menu" => job.kind = "sparc" /\ g = job.devs + 3
           /\ s = "bootlst" => job.kind = "sparc" /\ g = job.devs + 4
<1>1. job.devs \in Nat /\ job.kind \in {"edit", "system", "sparc", "image"} /\ job.dry \in BOOLEAN
  BY JobIs
<1>2. CASE job.kind = "edit"
  BY <1>1, <1>2 DEF Stage, StageOf, CommitStage, Total, Commits, Base
<1>3. CASE job.kind = "system"
  <2>1. /\ Total = IF job.dry THEN 5 ELSE job.devs + 8
        /\ Base = 5 /\ (Commits <=> ~job.dry)
    BY <1>3 DEF Total, Base, Commits
  <2>2. Stage(g + 1) =
            IF g + 1 = 1 THEN "parse" ELSE IF g + 1 = 2 THEN "autogen"
            ELSE IF g + 1 = 3 THEN "target" ELSE IF g + 1 = 4 THEN "custom"
            ELSE IF job.dry THEN "temp" ELSE CommitStage(job.devs, g + 1 - 4)
    BY <1>3 DEF Stage, StageOf
  <2>3. CASE g < 4
    <3>1. /\ g = 0 => Stage(g + 1) = "parse"
          /\ g = 1 => Stage(g + 1) = "autogen"
          /\ g = 2 => Stage(g + 1) = "target"
          /\ g = 3 => Stage(g + 1) = "custom"
          /\ g \in {0, 1, 2, 3}
      BY <2>2, <2>3
    <3>. HIDE DEF Stage, Commits, Base, Total
    <3>2. CASE g = 0
      <4>1. Stage(g + 1) = "parse"
        BY <3>1, <3>2
      <4>. QED
        BY <1>3, <3>2, <4>1
    <3>3. CASE g = 1
      <4>1. Stage(g + 1) = "autogen"
        BY <3>1, <3>3
      <4>. QED
        BY <1>3, <3>3, <4>1
    <3>4. CASE g = 2
      <4>1. Stage(g + 1) = "target"
        BY <3>1, <3>4
      <4>. QED
        BY <1>3, <3>4, <4>1
    <3>5. CASE g = 3
      <4>1. Stage(g + 1) = "custom"
        BY <3>1, <3>5
      <4>. QED
        BY <1>3, <3>5, <4>1
    <3>. QED
      BY <3>1, <3>2, <3>3, <3>4, <3>5
  <2>4. CASE g >= 4 /\ job.dry
    <3>1. g = 4 /\ Stage(g + 1) = "temp"
      BY <2>1, <2>2, <2>4
    <3>. QED
      BY <1>3, <2>4, <3>1
  <2>5. CASE g >= 4 /\ ~job.dry
    <3>1. Stage(g + 1) = CommitStage(job.devs, g - 3)
      BY <2>2, <2>5
    <3>2. g < job.devs + 8 /\ Commits /\ Base = 5 /\ Total = job.devs + 8
      BY <2>1, <2>5
    <3>. HIDE DEF Stage, Commits, Base, Total
    <3>. QED
      BY <1>1, <2>5, <3>1, <3>2 DEF CommitStage
  <2>. QED
    BY <2>3, <2>4, <2>5
<1>5. CASE job.kind = "sparc"
  BY <1>1, <1>5 DEF Stage, StageOf, SparcStage, Total, Commits, Base
<1>6. CASE job.kind = "image"
  BY <1>1, <1>6 DEF Stage, StageOf, Total, Commits, Base
<1>. QED
  BY <1>1, <1>2, <1>3, <1>5, <1>6

--------------------------------------------------------------------------------
(* A step, from one place in the script to the next.                       *)

\* What is the next step is known from how many are behind.
LEMMA AtIs ==
    ASSUME BootTypes, StepShape, NEW s, At(s)
    PROVE  /\ Gone \in Nat /\ Gone < Total /\ Total \in Nat /\ Stage(Gone + 1) = s /\ Going
           /\ Len(steps) \in Nat \ {0} /\ Gone = Total - Len(steps)
<1>1. /\ steps \in Seq(StepNames) /\ steps # <<>> /\ Head(steps) = s /\ Going
      /\ job \in Jobs /\ dirty \in BOOLEAN
  BY DEF At, BootTypes, Going
<1>2. Len(steps) \in Nat \ {0} /\ Head(steps) = steps[1] /\ Total \in Nat
  BY <1>1, ScriptIs, EmptySeq, LenProperties
<1>3. Len(steps) <= Total /\ \A k \in 1 .. Len(steps) : steps[k] = Stage(Gone + k)
  BY <1>1 DEF StepShape
<1>4. Gone = Total - Len(steps)
  BY DEF Gone
<1>5. Gone \in Nat /\ Gone < Total
  BY <1>2, <1>3, <1>4
<1>6. steps[1] = Stage(Gone + 1)
  BY <1>2, <1>3
<1>. QED
  BY <1>1, <1>2, <1>4, <1>5, <1>6

\* A job stays what it is.
Fixed == UNCHANGED <<job, dirty>>
\* What does not change where the job and the dirty flag do not.
LEMMA FixedIs ==
    ASSUME Fixed
    PROVE  /\ Total' = Total /\ Base' = Base /\ Commits' = Commits /\ Writes' = Writes
           /\ MenuAt' = MenuAt
<1>1. job' = job /\ dirty' = dirty
  BY DEF Fixed
<1>2. Total' = Total /\ Base' = Base /\ Commits' = Commits
  BY <1>1 DEF Total, Base, Commits
<1>3. Writes' = Writes /\ MenuAt' = MenuAt
  BY <1>1, <1>2 DEF Writes, MenuAt
<1>. QED
  BY <1>2, <1>3

\* A step leaves one step fewer, and the next one is what the script says.
LEMMA StepIs ==
    ASSUME BootTypes, StepShape, NEW s, At(s), Step
    PROVE  /\ Fixed /\ Going' /\ Gone' = Gone + 1 /\ steps' \in Seq(StepNames)
           /\ state' \in {"running", "done"} /\ StepShape'
           /\ state' = "done" => Gone' = Total
<1>1. /\ steps \in Seq(StepNames) /\ steps # <<>> /\ Fixed /\ steps' = Tail(steps)
      /\ state' = IF Len(steps) = 1 THEN "done" ELSE "running"
  BY DEF At, BootTypes, Step, Fixed
<1>2. Len(steps) \in Nat \ {0} /\ Gone \in Nat /\ Gone = Total - Len(steps) /\ Total \in Nat /\ Going
  BY AtIs
<1>3. /\ steps' \in Seq(StepNames) /\ Len(steps') = Len(steps) - 1
      /\ \A k \in 1 .. Len(steps) - 1 : steps'[k] = steps[k + 1]
  BY <1>1, HeadTailProperties
<1>4. Total' = Total
  BY <1>1, FixedIs
<1>5. Gone' = Total' - Len(steps')
  BY DEF Gone
<1>6. Gone' = Gone + 1
  BY <1>2, <1>3, <1>4, <1>5
<1>7. state' \in {"running", "done"} /\ Going'
  BY <1>1 DEF Going
<1>8. \A k \in 1 .. Len(steps) : steps[k] = Stage(Gone + k)
  BY <1>2 DEF StepShape
<1>9. ASSUME NEW k \in 1 .. Len(steps') PROVE steps'[k] = StageOf(job', dirty', Gone' + k)
  <2>1. k \in 1 .. Len(steps) - 1 /\ k + 1 \in 1 .. Len(steps) /\ Gone' + k = Gone + (k + 1)
    BY <1>2, <1>3, <1>6
  <2>2. steps'[k] = Stage(Gone + (k + 1))
    BY <1>3, <1>8, <2>1
  <2>3. StageOf(job', dirty', Gone' + k) = StageOf(job, dirty, Gone + (k + 1))
    BY <1>1, <2>1 DEF Fixed
  <2>. QED
    BY <2>2, <2>3 DEF Stage
<1>10. Len(steps') <= Total'
  BY <1>2, <1>3, <1>4
<1>11. (steps' = <<>>) <=> Len(steps) = 1
  BY <1>2, <1>3, EmptySeq
<1>12. StepShape'
  BY <1>1, <1>7, <1>9, <1>10, <1>11 DEF StepShape, Stage
<1>13. state' = "done" => Gone' = Total
  BY <1>1, <1>2, <1>6
<1>. QED
  BY <1>1, <1>3, <1>6, <1>7, <1>12, <1>13

MediaIs(m) ==
    /\ m = [menu |-> m.menu, temp |-> m.temp, loaders |-> m.loaders, bootfs |-> m.bootfs,
            info |-> m.info]
    /\ m.loaders \in Nat /\ m.info \in Nat

\* A step of a job whose configuration, menu, loaders and bootfs are right after it.
LEMMA Stepped ==
    ASSUME BootInv, NEW s, At(s), Step, insts' \in Seq(InstType), MediaIs(media'),
           Configured', Menus', Loaders', Bootfs'
    PROVE  BootInv'
<1>1. /\ Fixed /\ steps' \in Seq(StepNames) /\ state' \in {"running", "done"} /\ StepShape'
  BY StepIs DEF BootInv
<1>2. job' \in Jobs /\ dirty' \in BOOLEAN /\ edits' \in Nat
  BY <1>1 DEF BootInv, BootTypes, Step, Fixed
<1>3. BootTypes'
  BY <1>1, <1>2 DEF BootTypes, MediaIs
<1>. QED
  BY <1>1, <1>3 DEF BootInv

\* One that fails.
LEMMA Raised ==
    ASSUME BootInv, Raise, insts' = insts, MediaIs(media'),
           job.kind # "sparc" => media'.menu \in {job.menu, WriteMenuLst(insts)}
    PROVE  BootInv'
<1>1. /\ state' = "failed" /\ steps' = <<>> /\ job' = job /\ dirty' = dirty /\ edits' = edits
      /\ insts' = insts
  BY DEF Raise
<1>2. BootTypes'
  BY <1>1 DEF BootInv, BootTypes, MediaIs
<1>3. StepShape'
  BY <1>1 DEF StepShape, Going
<1>4. Configured'
  <2>1. /\ job.kind = "edit" => insts \in EditLists
        /\ job.kind = "image" => insts \in ImageLists
        /\ job.kind = "sparc" => insts = <<>>
        /\ OthersInactive => One(insts)
    BY DEF BootInv, Configured
  <2>2. ~Going'
    BY <1>1 DEF Going
  <2>. QED
    BY <1>1, <2>1, <2>2 DEF Configured, OthersInactive
<1>5. Menus' /\ Loaders' /\ Bootfs'
  <2>1. ~Going'
    BY <1>1 DEF Going
  <2>2. MenuWhole'
    BY <1>1 DEF MenuWhole
  <2>. QED
    BY <1>1, <2>1, <2>2 DEF Menus, Loaders, Bootfs
<1>. QED
  BY <1>2, <1>3, <1>4, <1>5 DEF BootInv

\* Which part of the invariant a step leaves as it is, by what it is not.
LEMMA ListsKept ==
    ASSUME BootInv, NEW s, At(s), Step, insts' = insts, s # "autogen", s # "target"
    PROVE  Configured'
<1>1. /\ Gone \in Nat /\ Stage(Gone + 1) = s /\ Going
      /\ Fixed /\ Going' /\ Gone' = Gone + 1
  BY AtIs, StepIs DEF BootInv
<1>2. job' = job
  BY <1>1 DEF Fixed
<1>3. job.kind = "system" => Gone # 1 /\ Gone # 2
  BY <1>1 DEF Stage, StageOf
<1>4. Configured
  BY DEF BootInv
<1>5. job.kind = "system" =>
        /\ Gone' < 2 => insts' = <<>>
        /\ Gone' # 2
        /\ Gone' > 2 /\ OthersInactive => insts' \in InstalledLists(job.target)
  BY <1>1, <1>3, <1>4 DEF Configured
<1>. QED
  BY <1>2, <1>4, <1>5 DEF Configured, OthersInactive

LEMMA MenusKept ==
    ASSUME BootInv, NEW s, At(s), Step, media'.menu = media.menu, job.kind # "sparc",
           \/ insts' = insts /\ Writes /\ Gone >= MenuAt
           \/ ~Writes \/ Gone + 1 < MenuAt - 1
    PROVE  Menus'
<1>1. /\ Gone \in Nat /\ Going /\ Fixed /\ Going' /\ Gone' = Gone + 1
      /\ Writes' = Writes /\ MenuAt' = MenuAt /\ state' \in {"running", "done"}
  BY AtIs, StepIs, FixedIs DEF BootInv
<1>2. job' = job
  BY <1>1 DEF Fixed
<1>3. MenuAt \in Nat
  BY JobIs DEF MenuAt, Base, BootInv, BootTypes
<1>4. MenuWhole /\ (Going /\ job.kind # "sparc" =>
          /\ ~Writes \/ Gone < MenuAt => media.menu = job.menu
          /\ Writes /\ Gone >= MenuAt => media.menu = WriteMenuLst(insts))
  BY DEF BootInv, Menus
<1>5. CASE insts' = insts /\ Writes /\ Gone >= MenuAt
  <2>1. media'.menu = WriteMenuLst(insts') /\ Gone' > MenuAt
    BY <1>1, <1>3, <1>4, <1>5
  <2>2. MenuWhole'
    BY <2>1 DEF MenuWhole
  <2>. QED
    BY <1>1, <1>2, <1>3, <1>5, <2>1, <2>2 DEF Menus
<1>6. CASE ~Writes \/ Gone + 1 < MenuAt - 1
  <2>1. media'.menu = job.menu /\ (~Writes \/ Gone' < MenuAt - 1)
    BY <1>1, <1>3, <1>4, <1>6
  <2>2. MenuWhole'
    BY <1>2, <2>1 DEF MenuWhole
  <2>. QED
    BY <1>1, <1>2, <1>3, <2>1, <2>2 DEF Menus
<1>. QED
  BY <1>5, <1>6

LEMMA SparcMenusKept ==
    ASSUME BootInv, NEW s, At(s), Step, job.kind = "sparc",
           \/ media'.menu = media.menu /\ s # "sparc_menu"
           \/ job.dry
           \/ media'.menu = WriteSparcMenu(<<Inst("solaris", job.target, "installed")>>)
    PROVE  Menus'
<1>1. /\ Gone \in Nat /\ Going /\ Fixed /\ Going' /\ Gone' = Gone + 1 /\ Stage(Gone + 1) = s
      /\ state' \in {"running", "done"}
  BY AtIs, StepIs DEF BootInv
<1>2. job' = job /\ job.devs \in Nat
  BY <1>1, JobIs DEF Fixed, BootInv, BootTypes
<1>3. Gone = job.devs + 3 => s = "sparc_menu"
  BY <1>1, <1>2 DEF Stage, StageOf, SparcStage
<1>4. ~job.dry /\ Gone >= job.devs + 4 =>
          media.menu = WriteSparcMenu(<<Inst("solaris", job.target, "installed")>>)
  BY <1>1 DEF BootInv, Menus
<1>5. ~job.dry /\ Gone' >= job.devs + 4 =>
          media'.menu = WriteSparcMenu(<<Inst("solaris", job.target, "installed")>>)
  BY <1>1, <1>2, <1>3, <1>4
<1>. QED
  BY <1>1, <1>2, <1>5 DEF Menus, MenuWhole

LEMMA LoadersKept ==
    ASSUME BootInv, NEW s, At(s), Step, media'.loaders = media.loaders, s # "loader"
    PROVE  Loaders'
<1>1. /\ Gone \in Nat /\ Going /\ Fixed /\ Going' /\ Gone' = Gone + 1 /\ Stage(Gone + 1) = s
      /\ Commits' = Commits /\ Base' = Base
  BY AtIs, StepIs, FixedIs DEF BootInv
<1>2. job' = job /\ job.devs \in Nat /\ job.kind \in {"edit", "system", "sparc", "image"}
      /\ Base \in Nat
  BY <1>1, JobIs DEF Fixed, BootInv, BootTypes, Base
<1>3. ~((Commits \/ job.kind = "sparc") /\ Base <= Gone /\ Gone < Base + job.devs)
  <2>1. CASE job.kind = "edit"
    BY <1>1, <1>2, <2>1 DEF Stage, StageOf, CommitStage, Commits, Base
  <2>2. CASE job.kind = "system"
    <3>1. SUFFICES ASSUME ~job.dry, 5 <= Gone, Gone < 5 + job.devs PROVE FALSE
      BY <2>2 DEF Commits, Base
    <3>2. Stage(Gone + 1) = CommitStage(job.devs, Gone + 1 - 4)
      BY <1>1, <2>2, <3>1 DEF Stage, StageOf
    <3>3. Gone + 1 - 4 # 1 /\ Gone + 1 - 4 <= job.devs + 1
      BY <1>1, <1>2, <3>1
    <3>. QED
      BY <1>1, <3>2, <3>3 DEF CommitStage
  <2>3. CASE job.kind = "sparc"
    BY <1>1, <1>2, <2>3 DEF Stage, StageOf, SparcStage, Commits, Base
  <2>4. CASE job.kind = "image"
    BY <2>4 DEF Commits
  <2>. QED
    BY <1>2, <2>1, <2>2, <2>3, <2>4
<1>4. (Commits \/ job.kind = "sparc") =>
          media.loaders = IF Gone <= Base THEN 0
                          ELSE IF Gone >= Base + job.devs THEN job.devs ELSE Gone - Base
  BY <1>1 DEF BootInv, Loaders
<1>5. (Commits \/ job.kind = "sparc") =>
          media'.loaders = IF Gone' <= Base THEN 0
                           ELSE IF Gone' >= Base + job.devs THEN job.devs ELSE Gone' - Base
  BY <1>1, <1>2, <1>3, <1>4
<1>. QED
  BY <1>1, <1>2, <1>5 DEF Loaders

LEMMA BootfsKept ==
    ASSUME BootInv, NEW s, At(s), Step, media'.bootfs = media.bootfs, s # "bootfs"
    PROVE  Bootfs'
<1>1. /\ Gone \in Nat /\ Going /\ Fixed /\ Going' /\ Gone' = Gone + 1 /\ Stage(Gone + 1) = s
      /\ Commits' = Commits /\ Total' = Total
  BY AtIs, StepIs, FixedIs DEF BootInv
<1>2. job' = job /\ job.devs \in Nat /\ job.kind \in {"edit", "system", "sparc", "image"}
  BY <1>1, JobIs DEF Fixed, BootInv, BootTypes
<1>3. Commits => Gone + 1 # Total
  <2>1. CASE job.kind = "edit"
    <3>1. SUFFICES ASSUME dirty, Gone + 1 = job.devs + 4 PROVE FALSE
      BY <2>1 DEF Commits, Total
    <3>. QED
      BY <1>1, <1>2, <2>1, <3>1 DEF Stage, StageOf, CommitStage
  <2>2. CASE job.kind = "system"
    <3>1. SUFFICES ASSUME ~job.dry, Gone + 1 = job.devs + 8 PROVE FALSE
      BY <2>2 DEF Commits, Total
    <3>2. Stage(Gone + 1) = CommitStage(job.devs, Gone + 1 - 4)
      BY <1>1, <1>2, <2>2, <3>1 DEF Stage, StageOf
    <3>3. Gone + 1 - 4 = job.devs + 4
      BY <1>1, <1>2, <3>1
    <3>. QED
      BY <1>1, <1>2, <3>2, <3>3 DEF CommitStage
  <2>. QED
    BY <1>2, <2>1, <2>2 DEF Commits
<1>4. job.kind = "sparc" => Gone # 1
  BY <1>1 DEF Stage, StageOf, SparcStage
<1>5. job.kind = "sparc" /\ ~job.dry /\ Gone >= 2 => media.bootfs = job.target
  BY <1>1 DEF BootInv, Bootfs
<1>6. job.kind = "sparc" /\ ~job.dry /\ Gone' >= 2 => media'.bootfs = job.target
  BY <1>1, <1>4, <1>5
<1>7. ~(Commits' /\ Gone' = Total')
  BY <1>1, <1>3
<1>. QED
  BY <1>2, <1>6, <1>7 DEF Bootfs

--------------------------------------------------------------------------------
(* Editing and committing.                                                 *)

\* A client that edits.
LEMMA EditKeeps ==
    ASSUME BootInv, NEW new \in EditLists, NEW changes \in BOOLEAN, Edit(new, changes)
    PROVE  BootInv'
<1>1. /\ state = "editing" /\ state' = state /\ insts' = new /\ dirty' \in BOOLEAN
      /\ job' = job /\ media' = media /\ steps' = steps /\ edits' = edits + 1
  BY DEF Edit, BootInv, BootTypes
<1>2. new \in Seq(InstType) /\ One(new)
  BY DEF EditLists, ImageLists
<1>3. BootTypes'
  BY <1>1, <1>2 DEF BootInv, BootTypes
<1>4. job.kind = "edit" /\ steps = <<>> /\ media.loaders = 0 /\ media.menu = job.menu
  BY <1>1 DEF BootInv, StepShape, Menus
<1>5. ~Going'
  BY <1>1 DEF Going
<1>6. StepShape' /\ Loaders' /\ Bootfs'
  BY <1>1, <1>4, <1>5 DEF StepShape, Loaders, Bootfs
<1>7. Configured'
  BY <1>1, <1>2, <1>4 DEF Configured
<1>8. Menus'
  BY <1>1, <1>4, <1>5 DEF Menus, MenuWhole
<1>. QED
  BY <1>3, <1>6, <1>7, <1>8 DEF BootInv

LEMMA EditingIs ==
    ASSUME BootInv, state = "editing"
    PROVE  /\ insts \in EditLists /\ job.kind = "edit" /\ job \in Jobs
           /\ \A i \in DOMAIN insts : insts[i] \in InstType /\ insts[i].owned \in BOOLEAN
<1>1. insts \in EditLists /\ job.kind = "edit" /\ insts \in Seq(InstType) /\ job \in Jobs
  BY DEF BootInv, BootTypes, StepShape, Configured
<1>2. \A i \in DOMAIN insts : insts[i] \in InstType
  BY <1>1, DefaultsIn
<1>. QED
  BY <1>1, <1>2 DEF InstType

LEMMA EditSteps ==
    ASSUME BootInv
    PROVE  /\ \A where : \A bootfs \in job.others, default \in BOOLEAN :
                AddInstance(bootfs, default, where) => BootInv'
           /\ \A bootfs \in job.others : DeleteInstances(bootfs) => BootInv'
           /\ \A i \in DOMAIN insts : MakeDefault(i) \/ DropDefault(i) \/ SetTitle(i) => BootInv'
           /\ SetProp => BootInv'
<1>1. ASSUME NEW bootfs \in job.others, NEW default \in BOOLEAN, NEW where,
             AddInstance(bootfs, default, where)
      PROVE  BootInv'
  <2>. DEFINE x == [Inst("solaris", bootfs, "new") EXCEPT !.default = default]
              new == AddOne(insts, x, where)
  <2>1. state = "editing" /\ Edit(new, new # insts)
    BY <1>1 DEF AddInstance, Edit
  <2>2. bootfs \in FsType
    BY <2>1, EditingIs, JobIs DEF FsType
  <2>3. x \in InstType /\ x.kind = "solaris"
    <3>1. "new" \in Titles
      BY DEF Titles
    <3>. QED
      BY <2>2, <3>1, InstIs
  <2>. HIDE DEF x
  <2>4. new \in EditLists
    BY <2>1, <2>3, EditingIs, EditAdds
  <2>5. (new # insts) \in BOOLEAN
    OBVIOUS
  <2>. HIDE DEF new
  <2>. QED
    BY <2>1, <2>4, <2>5, EditKeeps
<1>2. ASSUME NEW bootfs \in job.others, DeleteInstances(bootfs) PROVE BootInv'
  <2>. DEFINE left == NotOf(insts, bootfs)
  <2>1. state = "editing" /\ Edit(left, Len(left) # Len(insts))
    BY <1>2 DEF DeleteInstances, Edit
  <2>2. left \in EditLists
    BY <2>1, EditingIs, EditDeletes
  <2>3. (Len(left) # Len(insts)) \in BOOLEAN
    OBVIOUS
  <2>. HIDE DEF left
  <2>. QED
    BY <2>1, <2>2, <2>3, EditKeeps
<1>3. ASSUME NEW i \in DOMAIN insts, MakeDefault(i) PROVE BootInv'
  <2>1. state = "editing" /\ Edit(SetDefault(insts, i), insts[i].owned)
    BY <1>3 DEF MakeDefault, Edit
  <2>. QED
    BY <2>1, EditingIs, EditDefaults, EditKeeps
<1>4. ASSUME NEW i \in DOMAIN insts, DropDefault(i) PROVE BootInv'
  <2>1. state = "editing" /\ Edit(Clear(insts, i), insts[i].owned)
    BY <1>4 DEF DropDefault, Edit
  <2>. QED
    BY <2>1, EditingIs, EditDefaults, EditKeeps
<1>5. ASSUME NEW i \in DOMAIN insts, SetTitle(i) PROVE BootInv'
  <2>. DEFINE new == [insts EXCEPT ![i].title = "renamed"]
              x == [insts[i] EXCEPT !.title = "renamed"]
  <2>1. state = "editing" /\ Edit(new, insts[i].owned)
    BY <1>5 DEF SetTitle, Edit
  <2>2. insts \in Seq(InstType) /\ One(insts) /\ insts \in EditLists /\ insts[i].owned \in BOOLEAN
        /\ insts[i] \in InstType
    BY <2>1, EditingIs DEF EditLists, ImageLists
  <2>3. /\ x \in InstType /\ x.default = insts[i].default /\ x.owned = insts[i].owned
        /\ x.kind = insts[i].kind /\ x.bootfs = insts[i].bootfs
    <3>1. "renamed" \in Titles
      BY DEF Titles
    <3>. QED
      BY <2>2, <3>1 DEF InstType
  <2>4. new = [insts EXCEPT ![i] = x]
    OBVIOUS
  <2>. HIDE DEF x, new
  <2>5. Len(insts) \in Nat /\ DOMAIN insts = 1 .. Len(insts)
    BY <2>2, LenProperties
  <2>6. /\ new \in Seq(InstType) /\ Len(new) = Len(insts)
        /\ \A k \in 1 .. Len(insts) : new[k] = IF k = i THEN x ELSE insts[k]
    BY <2>2, <2>3, <2>4, <2>5, ExceptSeq
  <2>7. DOMAIN new = DOMAIN insts
    BY <2>5, <2>6, LenProperties
  <2>8. \A k \in DOMAIN insts : /\ new[k].default = insts[k].default /\ new[k].owned = insts[k].owned
                                /\ new[k].kind = insts[k].kind /\ new[k].bootfs = insts[k].bootfs
    BY <2>3, <2>5, <2>6
  <2>9. One(new)
    BY <2>2, <2>7, <2>8 DEF One
  <2>10. new \in EditLists
    BY <2>2, <2>6, <2>7, <2>8, <2>9 DEF EditLists, ImageLists
  <2>. QED
    BY <2>1, <2>2, <2>10, EditKeeps
<1>6. ASSUME SetProp PROVE BootInv'
  <2>1. state = "editing" /\ Edit(insts, TRUE)
    BY <1>6 DEF SetProp, Edit
  <2>. QED
    BY <2>1, EditingIs, EditKeeps
<1>. QED
  BY <1>1, <1>2, <1>3, <1>4, <1>5, <1>6

\* The commit starts with everything of its own to do.
LEMMA CommitKeeps ==
    ASSUME BootInv, CommitBootConfig
    PROVE  BootInv'
<1>1. /\ state = "editing" /\ job.kind = "edit" /\ steps' = CommitSteps(job, dirty) /\ state' = "running"
      /\ Fixed /\ insts' = insts /\ edits' = edits /\ media' = media
  BY DEF CommitBootConfig, Fixed
<1>2. job' = job /\ dirty' = dirty /\ job \in Jobs /\ dirty \in BOOLEAN /\ job.devs \in Nat
  BY <1>1, JobIs DEF Fixed, BootInv, BootTypes
<1>3. steps' = Script
  BY <1>1 DEF Script
<1>4. /\ steps' \in Seq(StepNames) /\ Len(steps') = Total /\ Total \in Nat \ {0}
      /\ \A k \in 1 .. Total : steps'[k] = Stage(k)
  BY <1>2, <1>3, ScriptIs
<1>5. Total' = Total /\ Base' = Base /\ Commits' = Commits /\ Writes' = Writes /\ MenuAt' = MenuAt
  BY <1>1, FixedIs
<1>6. Gone' = 0
  <2>1. Gone' = Total' - Len(steps')
    BY DEF Gone
  <2>. QED
    BY <1>4, <1>5, <2>1
<1>7. BootTypes'
  BY <1>1, <1>2, <1>4 DEF BootInv, BootTypes
<1>8. StepShape'
  <2>1. \A k \in 1 .. Len(steps') : Gone' + k = k
    BY <1>6
  <2>2. \A k \in 1 .. Len(steps') : steps'[k] = StageOf(job', dirty', Gone' + k)
    BY <1>2, <1>4, <2>1 DEF Stage
  <2>3. steps' # <<>>
    BY <1>4, EmptySeq
  <2>4. Len(steps') <= Total'
    BY <1>4, <1>5
  <2>. QED
    BY <1>1, <2>2, <2>3, <2>4 DEF StepShape, Stage
<1>9. Configured'
  <2>1. job' = job /\ job.kind = "edit" /\ insts' = insts /\ (OthersInactive' <=> OthersInactive)
    BY <1>1, <1>2 DEF OthersInactive
  <2>. QED
    BY <2>1 DEF BootInv, Configured
<1>10. media.menu = job.menu /\ media.loaders = 0
  BY <1>1 DEF BootInv, Menus, StepShape
<1>11. Menus'
  <2>1. MenuAt' \in Nat /\ MenuAt' >= 3
    BY <1>1, <1>2, <1>5 DEF MenuAt, Base
  <2>2. MenuWhole'
    BY <1>1, <1>2, <1>10 DEF MenuWhole
  <2>. QED
    BY <1>1, <1>2, <1>6, <1>10, <2>1, <2>2 DEF Menus
<1>12. Loaders'
  <2>1. Base' = 1
    BY <1>1, <1>5 DEF Base
  <2>. QED
    BY <1>1, <1>6, <1>10, <2>1 DEF Loaders
<1>13. Bootfs'
  BY <1>1, <1>2, <1>4, <1>5, <1>6 DEF Bootfs
<1>. QED
  BY <1>7, <1>8, <1>9, <1>11, <1>12, <1>13 DEF BootInv

--------------------------------------------------------------------------------
(* The steps of the checkpoints and of a commit.                           *)

MenuSet(m, v) == [m EXCEPT !.menu = v]
TempSet(m, v) == [m EXCEPT !.temp = v]
BootfsSet(m, v) == [m EXCEPT !.bootfs = v]
LEMMA MediaSet ==
    ASSUME NEW m, MediaIs(m), NEW v
    PROVE  /\ MediaIs(MenuSet(m, v)) /\ MenuSet(m, v).menu = v
           /\ MenuSet(m, v).loaders = m.loaders /\ MenuSet(m, v).bootfs = m.bootfs
           /\ MediaIs(TempSet(m, v)) /\ TempSet(m, v).menu = m.menu /\ TempSet(m, v).temp = v
           /\ TempSet(m, v).loaders = m.loaders /\ TempSet(m, v).bootfs = m.bootfs
           /\ MediaIs(BootfsSet(m, v)) /\ BootfsSet(m, v).menu = m.menu
           /\ BootfsSet(m, v).loaders = m.loaders /\ BootfsSet(m, v).bootfs = v
<1>. DEFINE R(a, b, c, d, e) == [menu |-> a, temp |-> b, loaders |-> c, bootfs |-> d, info |-> e]
<1>1. m = R(m.menu, m.temp, m.loaders, m.bootfs, m.info) /\ m.loaders \in Nat /\ m.info \in Nat
  BY DEF MediaIs
<1>2. MenuSet(m, v) = R(v, m.temp, m.loaders, m.bootfs, m.info)
  BY <1>1 DEF MenuSet
<1>3. TempSet(m, v) = R(m.menu, v, m.loaders, m.bootfs, m.info)
  BY <1>1 DEF TempSet
<1>4. BootfsSet(m, v) = R(m.menu, m.temp, m.loaders, v, m.info)
  BY <1>1 DEF BootfsSet
<1>5. \A a, b, d : \A c, e \in Nat : LET r == R(a, b, c, d, e) IN
          MediaIs(r) /\ r.menu = a /\ r.temp = b /\ r.loaders = c /\ r.bootfs = d /\ r.info = e
  BY DEF MediaIs
<1>. HIDE DEF R
<1>. QED
  BY <1>1, <1>2, <1>3, <1>4, <1>5

LEMMA MediaCounts ==
    ASSUME NEW m, MediaIs(m)
    PROVE  /\ MediaIs([m EXCEPT !.loaders = m.loaders + 1])
           /\ [m EXCEPT !.loaders = m.loaders + 1].menu = m.menu
           /\ [m EXCEPT !.loaders = m.loaders + 1].loaders = m.loaders + 1
           /\ [m EXCEPT !.loaders = m.loaders + 1].bootfs = m.bootfs
           /\ MediaIs([m EXCEPT !.info = m.info + 1])
           /\ [m EXCEPT !.info = m.info + 1].menu = m.menu
           /\ [m EXCEPT !.info = m.info + 1].loaders = m.loaders
           /\ [m EXCEPT !.info = m.info + 1].bootfs = m.bootfs
<1>. DEFINE R(a, b, c, d, e) == [menu |-> a, temp |-> b, loaders |-> c, bootfs |-> d, info |-> e]
<1>1. m = R(m.menu, m.temp, m.loaders, m.bootfs, m.info) /\ m.loaders \in Nat /\ m.info \in Nat
  BY DEF MediaIs
<1>2. m.loaders + 1 \in Nat /\ m.info + 1 \in Nat
  BY <1>1
<1>3. [m EXCEPT !.loaders = m.loaders + 1] = R(m.menu, m.temp, m.loaders + 1, m.bootfs, m.info)
  BY <1>1
<1>4. [m EXCEPT !.info = m.info + 1] = R(m.menu, m.temp, m.loaders, m.bootfs, m.info + 1)
  BY <1>1
<1>5. \A a, b, d : \A c, e \in Nat : LET r == R(a, b, c, d, e) IN
          MediaIs(r) /\ r.menu = a /\ r.temp = b /\ r.loaders = c /\ r.bootfs = d /\ r.info = e
  BY DEF MediaIs
<1>. HIDE DEF R
<1>. QED
  BY <1>1, <1>2, <1>3, <1>4, <1>5

LEMMA FailKeeps ==
    ASSUME BootInv, NEW m, Fail(m), MediaIs(m),
           job.kind # "sparc" => m.menu \in {media.menu, job.menu, WriteMenuLst(insts)}
    PROVE  BootInv'
<1>1. Raise /\ insts' = insts /\ media' = m
  BY DEF Fail
<1>2. job.kind # "sparc" => media.menu \in {job.menu, WriteMenuLst(insts)}
  BY DEF BootInv, Menus, MenuWhole
<1>. QED
  BY <1>1, <1>2, Raised

LEMMA SameFails ==
    ASSUME BootInv, Fail(media)
    PROVE  BootInv'
<1>1. MediaIs(media)
  BY DEF BootInv, BootTypes, MediaIs
<1>. QED
  BY <1>1, FailKeeps

\* A step that writes nothing, but maybe changes the configuration.
LEMMA QuietStep ==
    ASSUME BootInv, NEW s, At(s), Step, insts' \in Seq(InstType), Configured', media' = media,
           s \notin {"loader", "bootfs", "sparc_menu"},
           job.kind # "sparc" =>
              \/ insts' = insts /\ Writes /\ Gone >= MenuAt
              \/ ~Writes \/ Gone + 1 < MenuAt - 1
    PROVE  BootInv'
<1>1. MediaIs(media)
  BY DEF BootInv, BootTypes, MediaIs
<1>2. Loaders' /\ Bootfs'
  BY LoadersKept, BootfsKept
<1>3. Menus'
  BY MenusKept, SparcMenusKept
<1>. QED
  BY <1>1, <1>2, <1>3, Stepped

LEMMA RunningIs ==
    ASSUME BootInv, NEW s, At(s)
    PROVE  /\ Gone \in Nat /\ Gone < Total /\ Stage(Gone + 1) = s /\ Going
           /\ job \in Jobs /\ dirty \in BOOLEAN /\ insts \in Seq(InstType) /\ job.devs \in Nat
           /\ job.kind \in {"edit", "system", "sparc", "image"} /\ MediaIs(media)
<1>1. BootTypes /\ StepShape /\ job \in Jobs
  BY DEF BootInv, BootTypes
<1>2. Gone \in Nat /\ Gone < Total /\ Stage(Gone + 1) = s /\ Going
  BY <1>1, AtIs
<1>3. job.devs \in Nat /\ job.kind \in {"edit", "system", "sparc", "image"}
  BY <1>1, JobIs
<1>. QED
  BY <1>1, <1>2, <1>3 DEF BootTypes, MediaIs

LEMMA ParseKeeps ==
    ASSUME BootInv, ParseDoc
    PROVE  BootInv'
<1>1. At("parse") /\ (Config(insts) \/ Fail(media))
  BY DEF ParseDoc
<1>2. CASE Config(insts)
  <2>1. Step /\ insts' = insts /\ media' = media
    BY <1>2 DEF Config
  <2>2. job.kind # "edit" /\ Gone = 0 /\ job.devs \in Nat /\ insts \in Seq(InstType)
        /\ job.kind \in {"edit", "system", "sparc", "image"}
    BY <1>1, RunningIs, StageIs
  <2>3. Configured'
    BY <1>1, <2>1, ListsKept
  <2>4. job.kind # "sparc" => Gone + 1 < MenuAt - 1
    BY <2>2 DEF MenuAt, Base
  <2>. QED
    BY <1>1, <2>1, <2>2, <2>3, <2>4, QuietStep
<1>3. CASE Fail(media)
  BY <1>3, SameFails
<1>. QED
  BY <1>1, <1>2, <1>3

LEMMA WriteVarsKeeps ==
    ASSUME BootInv, WriteVars
    PROVE  BootInv'
<1>1. At("vars") /\ (Media(media) \/ Fail(media))
  BY DEF WriteVars
<1>2. CASE Media(media)
  <2>1. Step /\ insts' = insts /\ media' = media
    BY <1>2 DEF Media
  <2>2. Commits /\ Gone = Base - 1 /\ job.devs \in Nat /\ insts \in Seq(InstType)
    BY <1>1, RunningIs, StageIs
  <2>3. Configured'
    BY <1>1, <2>1, ListsKept
  <2>4. Gone + 1 < MenuAt - 1
    BY <2>2 DEF MenuAt, Base, Commits
  <2>. QED
    BY <1>1, <2>1, <2>2, <2>3, <2>4, QuietStep
<1>3. CASE Fail(media)
  BY <1>3, SameFails
<1>. QED
  BY <1>1, <1>2, <1>3

LEMMA SparcQuiet ==
    ASSUME BootInv
    PROVE  SetProm \/ CopyBootlst => BootInv'
<1>1. ASSUME NEW s \in {"prom", "bootlst"}, At(s), Media(media) PROVE BootInv'
  <2>1. Step /\ insts' = insts /\ media' = media
    BY <1>1 DEF Media
  <2>2. job.kind = "sparc" /\ insts \in Seq(InstType)
    BY <1>1, RunningIs, StageIs
  <2>3. Configured'
    BY <1>1, <2>1, ListsKept
  <2>. QED
    BY <1>1, <2>1, <2>2, <2>3, QuietStep
<1>. QED
  BY <1>1, SameFails DEF SetProm, CopyBootlst

\* One device has its loader.
LEMMA WriteLoaderKeeps ==
    ASSUME BootInv, WriteLoader
    PROVE  BootInv'
<1>. DEFINE m == [media EXCEPT !.loaders = media.loaders + 1]
<1>1. At("loader") /\ (Media(m) \/ Fail(media))
  BY DEF WriteLoader
<1>2. CASE Media(m)
  <2>1. Step /\ insts' = insts /\ media' = m
    BY <1>2 DEF Media
  <2>2. /\ Commits \/ job.kind = "sparc"
        /\ Base <= Gone /\ Gone < Base + job.devs /\ Base \in Nat
        /\ Gone \in Nat /\ job.devs \in Nat /\ insts \in Seq(InstType) /\ MediaIs(media) /\ Going
    BY <1>1, RunningIs, StageIs DEF Base
  <2>4. MediaIs(m) /\ m.menu = media.menu /\ m.loaders = media.loaders + 1 /\ m.bootfs = media.bootfs
    BY <2>2, MediaCounts
  <2>. HIDE DEF m
  <2>5. Configured'
    BY <1>1, <2>1, ListsKept
  <2>6. Bootfs'
    BY <1>1, <2>1, <2>4, BootfsKept
  <2>7. Menus'
    <3>1. job.kind # "sparc" => Gone + 1 < MenuAt - 1
      BY <2>2 DEF MenuAt, Commits
    <3>. QED
      BY <1>1, <2>1, <2>4, <3>1, MenusKept, SparcMenusKept
  <2>8. Loaders'
    <3>1. Going' /\ Gone' = Gone + 1 /\ Base' = Base /\ Commits' = Commits /\ job' = job
      BY <1>1, <2>1, StepIs, FixedIs DEF BootInv, Fixed
    <3>2. media.loaders = IF Gone <= Base THEN 0
                          ELSE IF Gone >= Base + job.devs THEN job.devs ELSE Gone - Base
      BY <2>2 DEF BootInv, Loaders
    <3>3. media.loaders = Gone - Base
      BY <2>2, <3>2
    <3>4. media'.loaders = Gone' - Base
      BY <2>1, <2>2, <2>4, <3>1, <3>3
    <3>5. Gone' > Base /\ (Gone' >= Base + job.devs => Gone' - Base = job.devs)
      BY <2>2, <3>1
    <3>. QED
      BY <2>2, <3>1, <3>4, <3>5 DEF Loaders
  <2>. QED
    BY <1>1, <2>1, <2>2, <2>4, <2>5, <2>6, <2>7, <2>8, Stepped
<1>3. CASE Fail(media)
  BY <1>3, SameFails
<1>. QED
  BY <1>1, <1>2, <1>3

\* The menus after a step that leaves the new one in its temporary place, and after one that
\* moves it where it belongs.
LEMMA MenuNext ==
    ASSUME BootInv, NEW s, At(s), Step, insts' = insts, media'.menu = media.menu,
           media'.temp = WriteMenuLst(insts), job.kind # "sparc", Writes, Gone + 1 = MenuAt - 1
    PROVE  Menus'
<1>1. /\ Gone \in Nat /\ Going /\ job' = job /\ Going' /\ Gone' = Gone + 1
      /\ Writes' = Writes /\ MenuAt' = MenuAt /\ state' \in {"running", "done"}
  BY AtIs, StepIs, FixedIs DEF BootInv, Fixed
<1>2. MenuAt \in Nat
  BY JobIs DEF MenuAt, Base, BootInv, BootTypes
<1>3. media.menu = job.menu
  BY <1>1, <1>2 DEF BootInv, Menus
<1>4. MenuWhole'
  BY <1>1, <1>3 DEF MenuWhole
<1>. QED
  BY <1>1, <1>2, <1>3, <1>4 DEF Menus

LEMMA MenuMoves ==
    ASSUME BootInv, NEW s, At(s), Step, insts' = insts, media'.menu = WriteMenuLst(insts),
           job.kind # "sparc", Writes, Gone + 1 = MenuAt
    PROVE  Menus'
<1>1. /\ Gone \in Nat /\ Going /\ job' = job /\ Going' /\ Gone' = Gone + 1
      /\ Writes' = Writes /\ MenuAt' = MenuAt /\ state' \in {"running", "done"}
  BY AtIs, StepIs, FixedIs DEF BootInv, Fixed
<1>2. MenuAt \in Nat
  BY JobIs DEF MenuAt, Base, BootInv, BootTypes
<1>3. MenuWhole'
  BY <1>1 DEF MenuWhole
<1>. QED
  BY <1>1, <1>2, <1>3 DEF Menus

\* The new menu is written next to its place.
LEMMA WriteMenuKeeps ==
    ASSUME BootInv, WriteMenu
    PROVE  BootInv'
<1>. DEFINE m == [media EXCEPT !.temp = WriteMenuLst(insts)]
            f == [media EXCEPT !.temp = NoMenu]
<1>1. At("menu") /\ (Media(m) \/ Fail(f))
  BY DEF WriteMenu
<1>2. /\ Commits /\ Gone = Base + job.devs /\ Base \in Nat /\ job.devs \in Nat
      /\ insts \in Seq(InstType) /\ MediaIs(media)
  BY <1>1, RunningIs, StageIs DEF Base
<1>3. /\ MediaIs(m) /\ m.menu = media.menu /\ m.temp = WriteMenuLst(insts)
      /\ m.loaders = media.loaders /\ m.bootfs = media.bootfs /\ MediaIs(f) /\ f.menu = media.menu
  <2>1. m = TempSet(media, WriteMenuLst(insts)) /\ f = TempSet(media, NoMenu)
    BY DEF TempSet
  <2>. QED
    BY <1>2, <2>1, MediaSet
<1>. HIDE DEF m, f
<1>4. CASE Media(m)
  <2>1. Step /\ insts' = insts /\ media' = m
    BY <1>4 DEF Media
  <2>2. Configured' /\ Loaders' /\ Bootfs'
    BY <1>1, <1>3, <2>1, ListsKept, LoadersKept, BootfsKept
  <2>3. job.kind # "sparc" /\ Writes /\ Gone + 1 = MenuAt - 1
    BY <1>2 DEF Commits, Writes, MenuAt
  <2>4. Menus'
    BY <1>1, <1>3, <2>1, <2>3, MenuNext
  <2>. QED
    BY <1>1, <1>2, <1>3, <2>1, <2>2, <2>4, Stepped
<1>5. CASE Fail(f)
  BY <1>3, <1>5, FailKeeps
<1>. QED
  BY <1>1, <1>4, <1>5

\* And moved into it, at once.
LEMMA MoveMenuKeeps ==
    ASSUME BootInv, MoveMenu
    PROVE  BootInv'
<1>. DEFINE m == [media EXCEPT !.menu = media.temp, !.temp = NoMenu]
            f == [media EXCEPT !.temp = NoMenu]
<1>1. At("move") /\ (Media(m) \/ Fail(f) \/ Fail(m))
  BY DEF MoveMenu
<1>2. /\ Commits /\ Gone = Base + job.devs + 1 /\ Base \in Nat /\ job.devs \in Nat
      /\ insts \in Seq(InstType) /\ MediaIs(media) /\ Going
  BY <1>1, RunningIs, StageIs DEF Base
<1>3. job.kind # "sparc" /\ Writes /\ Gone + 1 = MenuAt
  BY <1>2 DEF Commits, Writes, MenuAt
<1>4. media.temp = WriteMenuLst(insts)
  BY <1>2, <1>3 DEF BootInv, Menus
<1>5. m = TempSet(MenuSet(media, media.temp), NoMenu) /\ f = TempSet(media, NoMenu)
  BY DEF MenuSet, TempSet
<1>. HIDE DEF m, f
<1>6. /\ MediaIs(m) /\ m.menu = media.temp /\ m.loaders = media.loaders /\ m.bootfs = media.bootfs
      /\ MediaIs(f) /\ f.menu = media.menu
  <2>. DEFINE n == MenuSet(media, media.temp)
  <2>1. MediaIs(n) /\ n.menu = media.temp /\ n.loaders = media.loaders /\ n.bootfs = media.bootfs
    BY <1>2, MediaSet
  <2>2. m = TempSet(n, NoMenu)
    BY <1>5
  <2>. HIDE DEF n
  <2>. QED
    BY <1>2, <1>5, <2>1, <2>2, MediaSet
<1>7. CASE Media(m)
  <2>1. Step /\ insts' = insts /\ media' = m
    BY <1>7 DEF Media
  <2>2. Configured' /\ Loaders' /\ Bootfs'
    BY <1>1, <1>6, <2>1, ListsKept, LoadersKept, BootfsKept
  <2>3. Menus'
    BY <1>1, <1>3, <1>4, <1>6, <2>1, MenuMoves
  <2>. QED
    BY <1>1, <1>2, <1>6, <2>1, <2>2, <2>3, Stepped
<1>8. CASE Fail(f)
  BY <1>6, <1>8, FailKeeps
<1>9. CASE Fail(m)
  BY <1>4, <1>6, <1>9, FailKeeps
<1>. QED
  BY <1>1, <1>7, <1>8, <1>9

\* The last step: the pool starts what the menu starts.
LEMMA SetBootfsKeeps ==
    ASSUME BootInv, SetBootfs
    PROVE  BootInv'
<1>. DEFINE fs == IF job.kind = "edit" THEN DefaultFs(insts) ELSE job.target
            m == [media EXCEPT !.bootfs = fs]
<1>1. /\ At("bootfs")
      /\ \/ Media(media) /\ (fs = NoFs \/ job.dry \/ ~BootfsAsked)
         \/ Media(m) /\ ~(fs = NoFs \/ job.dry \/ ~BootfsAsked)
         \/ Fail(media)
  BY DEF SetBootfs
<1>2. /\ insts \in Seq(InstType) /\ MediaIs(media) /\ Going /\ job.devs \in Nat /\ job \in Jobs
      /\ job.kind \in {"edit", "system", "sparc", "image"} /\ Gone \in Nat
      /\ \/ Commits /\ Gone = Base + job.devs + 2 /\ Gone + 1 = Total
         \/ job.kind = "edit" /\ ~dirty
         \/ job.kind = "sparc" /\ Gone = 1
  BY <1>1, RunningIs, StageIs
<1>3. MediaIs(m) /\ m.menu = media.menu /\ m.loaders = media.loaders /\ m.bootfs = fs
  <2>1. m = BootfsSet(media, fs)
    BY DEF BootfsSet
  <2>. HIDE DEF fs, m
  <2>. QED
    BY <1>2, <2>1, MediaSet
<1>4. /\ job.kind = "edit" => ~job.dry
      /\ job.kind \in {"system", "sparc"} => job.target # NoFs
  BY <1>2, JobIs
<1>. HIDE DEF m
<1>5. CASE \/ Media(media) /\ (fs = NoFs \/ job.dry \/ ~BootfsAsked)
           \/ Media(m) /\ ~(fs = NoFs \/ job.dry \/ ~BootfsAsked)
  <2>1. /\ Step /\ insts' = insts /\ media'.menu = media.menu /\ media'.loaders = media.loaders
        /\ MediaIs(media') /\ (fs # NoFs /\ ~job.dry /\ BootfsAsked => media'.bootfs = fs)
    BY <1>2, <1>3, <1>5 DEF Media
  <2>2. Configured' /\ Loaders'
    BY <1>1, <2>1, ListsKept, LoadersKept
  <2>3. job.kind # "sparc" => (Writes /\ Gone >= MenuAt) \/ ~Writes
    <3>1. CASE Commits /\ Gone = Base + job.devs + 2
      BY <1>2, <3>1 DEF Commits, Writes, MenuAt, Base
    <3>2. CASE job.kind = "edit" /\ ~dirty
      BY <3>2 DEF Writes, Commits
    <3>. QED
      BY <1>2, <3>1, <3>2
  <2>4. Menus'
    BY <1>1, <2>1, <2>3, MenusKept, SparcMenusKept
  <2>5. Bootfs'
    <3>1. Going' /\ Gone' = Gone + 1 /\ Commits' = Commits /\ job' = job /\ Total' = Total
      BY <1>1, <2>1, StepIs, FixedIs DEF BootInv, Fixed
    <3>2. DefaultFs(insts)' = DefaultFs(insts)
      BY <2>1
    <3>3. job.kind = "edit" /\ job.setBootfs =>
              (DefaultFs(insts) # NoFs => media'.bootfs = DefaultFs(insts))
      BY <1>4, <2>1 DEF BootfsAsked
    <3>4. job.kind = "system" /\ Commits => media'.bootfs = job.target
      BY <1>4, <2>1 DEF Commits, BootfsAsked
    <3>5. job.kind = "sparc" /\ ~job.dry => media'.bootfs = job.target
      BY <1>4, <2>1 DEF BootfsAsked
    <3>. QED
      BY <3>1, <3>2, <3>3, <3>4, <3>5 DEF Bootfs
  <2>. QED
    BY <1>1, <1>2, <2>1, <2>2, <2>4, <2>5, Stepped
<1>6. CASE Fail(media)
  BY <1>6, SameFails
<1>. QED
  BY <1>1, <1>5, <1>6

\* The menu of an image in a temporary directory.
LEMMA WriteTempKeeps ==
    ASSUME BootInv, WriteTemp
    PROVE  BootInv'
<1>. DEFINE v == IF job.dry THEN NoMenu ELSE WriteMenuLst(insts)
            m == [media EXCEPT !.temp = v]
<1>1. At("temp") /\ (Media(m) \/ Fail(media))
  BY DEF WriteTemp
<1>2. /\ insts \in Seq(InstType) /\ MediaIs(media) /\ Going /\ Gone \in Nat /\ job \in Jobs
      /\ \/ job.kind = "system" /\ job.dry /\ Gone = 4
         \/ job.kind = "image" /\ Gone = 3
  BY <1>1, RunningIs, StageIs
<1>3. m = TempSet(media, v)
  BY DEF TempSet
<1>. HIDE DEF m, v
<1>4. MediaIs(m) /\ m.menu = media.menu /\ m.temp = v /\ m.loaders = media.loaders
      /\ m.bootfs = media.bootfs
  BY <1>2, <1>3, MediaSet
<1>5. CASE Media(m)
  <2>1. Step /\ insts' = insts /\ media' = m
    BY <1>5 DEF Media
  <2>2. Configured' /\ Loaders' /\ Bootfs'
    BY <1>1, <1>4, <2>1, ListsKept, LoadersKept, BootfsKept
  <2>3. Menus'
    <3>1. CASE job.dry
      <4>1. job.kind # "sparc" /\ ~Writes
        BY <1>2, <3>1 DEF Writes, Commits
      <4>. QED
        BY <1>1, <1>4, <2>1, <4>1, MenusKept
    <3>2. CASE ~job.dry
      <4>1. job.kind # "sparc" /\ Writes /\ Gone + 1 = MenuAt - 1 /\ v = WriteMenuLst(insts)
        BY <1>2, <3>2 DEF Writes, MenuAt, v
      <4>. QED
        BY <1>1, <1>4, <2>1, <4>1, MenuNext
    <3>. QED
      BY <3>1, <3>2
  <2>. QED
    BY <1>1, <1>2, <1>4, <2>1, <2>2, <2>3, Stepped
<1>6. CASE Fail(media)
  BY <1>6, SameFails
<1>. QED
  BY <1>1, <1>5, <1>6

\* And in the image.
LEMMA PutInImageKeeps ==
    ASSUME BootInv, PutInImage
    PROVE  BootInv'
<1>. DEFINE v == IF job.dry THEN media.menu ELSE media.temp
            n == MenuSet(media, v)
            m == [media EXCEPT !.menu = v, !.temp = NoMenu]
<1>1. At("put") /\ (Media(m) \/ Fail(media))
  BY DEF PutInImage
<1>2. /\ insts \in Seq(InstType) /\ MediaIs(media) /\ Going /\ Gone \in Nat /\ job \in Jobs
      /\ job.kind = "image" /\ Gone = 4
  BY <1>1, RunningIs, StageIs
<1>3. m = TempSet(n, NoMenu)
  BY DEF MenuSet, TempSet
<1>. HIDE DEF m, v
<1>4. MediaIs(n) /\ n.menu = v /\ n.loaders = media.loaders /\ n.bootfs = media.bootfs
  BY <1>2, MediaSet
<1>. HIDE DEF n
<1>5. MediaIs(m) /\ m.menu = v /\ m.loaders = media.loaders /\ m.bootfs = media.bootfs
  BY <1>3, <1>4, MediaSet
<1>6. CASE Media(m)
  <2>1. Step /\ insts' = insts /\ media' = m
    BY <1>6 DEF Media
  <2>2. Configured' /\ Loaders' /\ Bootfs'
    BY <1>1, <1>5, <2>1, ListsKept, LoadersKept, BootfsKept
  <2>3. Menus'
    <3>1. CASE job.dry
      <4>1. ~Writes /\ v = media.menu
        BY <1>2, <3>1 DEF Writes, Commits, v
      <4>. QED
        BY <1>1, <1>2, <1>5, <2>1, <4>1, MenusKept
    <3>2. CASE ~job.dry
      <4>1. Writes /\ Gone + 1 = MenuAt /\ v = media.temp
        BY <1>2, <3>2 DEF Writes, MenuAt, v
      <4>2. media.temp = WriteMenuLst(insts)
        BY <1>2, <4>1 DEF BootInv, Menus
      <4>. QED
        BY <1>1, <1>2, <1>5, <2>1, <4>1, <4>2, MenuMoves
    <3>. QED
      BY <3>1, <3>2
  <2>. QED
    BY <1>1, <1>2, <1>5, <2>1, <2>2, <2>3, Stepped
<1>7. CASE Fail(media)
  BY <1>7, SameFails
<1>. QED
  BY <1>1, <1>6, <1>7

LEMMA UpdateImageInfoKeeps ==
    ASSUME BootInv, UpdateImageInfo
    PROVE  BootInv'
<1>. DEFINE m == [media EXCEPT !.info = media.info + 1]
<1>1. At("image_info") /\ Media(m)
  BY DEF UpdateImageInfo
<1>2. /\ insts \in Seq(InstType) /\ MediaIs(media) /\ job.kind = "image" /\ Gone = 5
  BY <1>1, RunningIs, StageIs
<1>3. MediaIs(m) /\ m.menu = media.menu /\ m.loaders = media.loaders /\ m.bootfs = media.bootfs
  BY <1>2, MediaCounts
<1>. HIDE DEF m
<1>4. Step /\ insts' = insts /\ media' = m
  BY <1>1 DEF Media
<1>5. Configured' /\ Loaders' /\ Bootfs'
  BY <1>1, <1>3, <1>4, ListsKept, LoadersKept, BootfsKept
<1>6. job.kind # "sparc" /\ Gone >= MenuAt
  BY <1>2 DEF MenuAt
<1>7. Menus'
  BY <1>1, <1>3, <1>4, <1>6, MenusKept
<1>. QED
  BY <1>1, <1>2, <1>3, <1>4, <1>5, <1>7, Stepped

\* The menu of a SPARC system, written in its place.
LEMMA CreateSparcMenuKeeps ==
    ASSUME BootInv, CreateSparcMenu
    PROVE  BootInv'
<1>. DEFINE w == WriteSparcMenu(<<Inst("solaris", job.target, "installed")>>)
            m == IF job.dry THEN media ELSE [media EXCEPT !.menu = w]
<1>1. At("sparc_menu") /\ Media(m)
  BY DEF CreateSparcMenu
<1>2. insts \in Seq(InstType) /\ MediaIs(media) /\ job.kind = "sparc"
  BY <1>1, RunningIs, StageIs
<1>3. /\ MediaIs(m) /\ m.loaders = media.loaders /\ m.bootfs = media.bootfs
      /\ ~job.dry => m.menu = w
  <2>. DEFINE n == MenuSet(media, w)
  <2>1. MediaIs(n) /\ n.menu = w /\ n.loaders = media.loaders /\ n.bootfs = media.bootfs
    BY <1>2, MediaSet
  <2>2. m = IF job.dry THEN media ELSE n
    BY DEF MenuSet
  <2>. HIDE DEF n, m, w
  <2>. QED
    BY <1>2, <2>1, <2>2
<1>. HIDE DEF m
<1>4. Step /\ insts' = insts /\ media' = m
  BY <1>1 DEF Media
<1>5. Configured' /\ Loaders' /\ Bootfs'
  BY <1>1, <1>3, <1>4, ListsKept, LoadersKept, BootfsKept
<1>6. Menus'
  BY <1>1, <1>2, <1>3, <1>4, SparcMenusKept
<1>. QED
  BY <1>1, <1>2, <1>3, <1>4, <1>5, <1>6, Stepped

\* Whatever the defaults are, the list stays one of instances.
LEMMA SetDefaultIn ==
    ASSUME NEW s \in Seq(InstType), NEW i \in DOMAIN s
    PROVE  /\ SetDefault(s, i) \in Seq(InstType) /\ Len(SetDefault(s, i)) = Len(s)
<1>. DEFINE others == Defaults(s) \ {i}
            x == [s[i] EXCEPT !.default = TRUE]
            set == [s EXCEPT ![i].default = TRUE]
            r == SetDefault(s, i)
<1>1. /\ Len(s) \in Nat /\ DOMAIN s = 1 .. Len(s) /\ i \in 1 .. Len(s)
      /\ \A k \in 1 .. Len(s) : s[k] \in InstType
  BY DefaultsIn
<1>2. x \in InstType
  BY <1>1 DEF InstType
<1>3. set = [s EXCEPT ![i] = x]
  OBVIOUS
<1>4. set \in Seq(InstType) /\ Len(set) = Len(s) /\ DOMAIN set = 1 .. Len(s)
  <2>. HIDE DEF x
  <2>1. [s EXCEPT ![i] = x] \in Seq(InstType) /\ Len([s EXCEPT ![i] = x]) = Len(s)
    BY <1>1, <1>2, ExceptSeq
  <2>. QED
    BY <1>1, <1>3, <2>1, LenProperties
<1>5. r = IF s[i].default \/ ~s[i].owned \/ others = {} THEN set ELSE Clear(set, FirstOf(others))
  BY DEF SetDefault
<1>6. others # {} => FirstOf(others) \in 1 .. Len(s)
  <2>1. others \in SUBSET (1 .. Len(s))
    BY <1>1 DEF Defaults
  <2>. HIDE DEF others
  <2>. QED
    BY <1>1, <2>1, FirstIn
<1>. HIDE DEF r, set, others
<1>7. others # {} => LET c == Clear(set, FirstOf(others)) IN c \in Seq(InstType) /\ Len(c) = Len(s)
  BY <1>4, <1>6, Cleared
<1>8. r \in Seq(InstType) /\ Len(r) = Len(s)
  BY <1>4, <1>5, <1>7
<1>. QED
  BY <1>8 DEF r

LEMMA AddOneIn ==
    ASSUME NEW s \in Seq(InstType), NEW new \in InstType, NEW where
    PROVE  AddOne(s, new, where) \in Seq(InstType)
<1>. DEFINE drop == new.default /\ Defaults(s) # {}
            C == IF drop THEN Clear(s, FirstOf(Defaults(s))) ELSE s
            q == Place(s, where) + 1
            p == Placed(new)
            r == AddOne(s, new, where)
<1>1. Len(s) \in Nat /\ DOMAIN s = 1 .. Len(s) /\ Place(s, where) \in 0 .. Len(s) + 1
  BY DefaultsIn, PlaceIn
<1>2. C \in Seq(InstType) /\ Len(C) = Len(s)
  <2>1. Defaults(s) # {} => FirstOf(Defaults(s)) \in DOMAIN s
    BY <1>1, DefaultsIn
  <2>2. Defaults(s) # {} => LET c == Clear(s, FirstOf(Defaults(s))) IN
                            c \in Seq(InstType) /\ Len(c) = Len(s)
    BY <2>1, Cleared
  <2>. QED
    BY <2>2
<1>3. p \in InstType
  BY DEF Placed, InstType
<1>4. r = IF Place(s, where) > Len(s) THEN C ELSE InsertAt(C, q, p)
  BY DEF AddOne, Placed
<1>5. ~(Place(s, where) > Len(s)) => q \in 1 .. Len(C) + 1
  BY <1>1, <1>2
<1>. HIDE DEF C, q, p, r
<1>6. ~(Place(s, where) > Len(s)) => InsertAt(C, q, p) \in Seq(InstType)
  BY <1>2, <1>3, <1>5, InsertedAt
<1>7. r \in Seq(InstType)
  BY <1>2, <1>4, <1>6
<1>. QED
  BY <1>7 DEF r

\* The lists of a system that found other boot environments, none of them active.
LEMMA FoundOne ==
    ASSUME job \in Jobs, job.kind = "system", OthersInactive
    PROVE  LET r == AutogenerateConfig(job) IN
           /\ One(r)
           /\ \A i, k \in DOMAIN r : r[i].default /\ r[k].kind = "solaris" /\ r[k].bootfs = job.target => i = k
<1>. DEFINE r == AutogenerateConfig(job)
<1>1. /\ \A i \in DOMAIN r : r[i].default =>
            i \in DOMAIN job.bes /\ job.bes[i].active /\ r[i].kind = "solaris"
            /\ r[i].bootfs = job.bes[i].bootfs
      /\ \A i, k \in DOMAIN r :
            r[i].kind = "solaris" /\ r[k].kind = "solaris" /\ r[i].bootfs = r[k].bootfs => i = k
  BY FoundIs
<1>2. \A i \in DOMAIN job.bes : job.bes[i].active => job.bes[i].bootfs = job.target
  BY DEF OthersInactive
<1>. HIDE DEF r
<1>3. \A i \in DOMAIN r : r[i].default => r[i].kind = "solaris" /\ r[i].bootfs = job.target
  BY <1>1, <1>2
<1>4. One(r) /\ \A i, k \in DOMAIN r :
          r[i].default /\ r[k].kind = "solaris" /\ r[k].bootfs = job.target => i = k
  BY <1>1, <1>3 DEF One
<1>. QED
  BY <1>4 DEF r

\* The boot environments that are found become the list.
LEMMA InitBootConfigKeeps ==
    ASSUME BootInv, InitBootConfig
    PROVE  BootInv'
<1>1. At("autogen") /\ (Config(AutogenerateConfig(job)) \/ Fail(media))
  BY DEF InitBootConfig
<1>2. CASE Config(AutogenerateConfig(job))
  <2>1. Step /\ insts' = AutogenerateConfig(job) /\ media' = media
    BY <1>2 DEF Config
  <2>2. job.kind = "system" /\ Gone = 1 /\ job.devs \in Nat /\ job \in Jobs
    BY <1>1, RunningIs, StageIs
  <2>3. job' = job /\ Going' /\ Gone' = 2
    BY <1>1, <2>1, <2>2, StepIs DEF BootInv, Fixed
  <2>4. insts' \in Seq(InstType)
    BY <2>1, <2>2, FoundIs
  <2>5. OthersInactive => One(insts')
    BY <2>1, <2>2, FoundOne
  <2>6. Configured'
    BY <2>1, <2>2, <2>3, <2>5 DEF Configured, OthersInactive
  <2>7. Gone + 1 < MenuAt - 1
    BY <2>2 DEF MenuAt, Base
  <2>. QED
    BY <1>1, <2>1, <2>2, <2>4, <2>6, <2>7, QuietStep
<1>3. CASE Fail(media)
  BY <1>3, SameFails
<1>. QED
  BY <1>1, <1>2, <1>3

\* The entry of what was installed becomes the default, or the checkpoint fails.
LEMMA BuildDefaultEntriesKeeps ==
    ASSUME BootInv, BuildDefaultEntries
    PROVE  BootInv'
<1>. DEFINE mine == {i \in DOMAIN insts : insts[i].kind = "solaris" /\ insts[i].bootfs = job.target}
            it == CHOOSE i \in mine : \A k \in mine : k <= i
            new == [SetDefault(insts, it) EXCEPT ![it].title = "installed"]
<1>1. At("target") /\ (Fail(media) \/ (mine # {} /\ Config(new)))
  BY DEF BuildDefaultEntries
<1>2. CASE mine # {} /\ Config(new)
  <2>. DEFINE r == SetDefault(insts, it)
              x == [r[it] EXCEPT !.title = "installed"]
  <2>1. Step /\ insts' = new /\ media' = media
    BY <1>2 DEF Config
  <2>2. job.kind = "system" /\ Gone = 2 /\ job.devs \in Nat /\ job \in Jobs /\ insts \in Seq(InstType)
        /\ Going
    BY <1>1, RunningIs, StageIs
  <2>3. insts = AutogenerateConfig(job) /\ (OthersInactive => One(insts))
    BY <2>2 DEF BootInv, Configured
  <2>4. Len(insts) \in Nat /\ DOMAIN insts = 1 .. Len(insts)
    BY <2>2, DefaultsIn
  <2>5. it \in mine
    <3>1. mine \in SUBSET (1 .. Len(insts))
      BY <2>4
    <3>2. \A i, k \in mine : i = k
      <4>1. \A i, k \in DOMAIN insts :
                insts[i].kind = "solaris" /\ insts[k].kind = "solaris"
                /\ insts[i].bootfs = insts[k].bootfs => i = k
        BY <2>2, <2>3, FoundIs
      <4>. QED
        BY <4>1
    <3>. HIDE DEF mine
    <3>3. PICK i \in mine : TRUE
      BY <1>2
    <3>4. i \in mine /\ \A k \in mine : k <= i
      BY <2>4, <3>1, <3>2, <3>3
    <3>. QED
      BY <3>4
  <2>6. it \in DOMAIN insts /\ insts[it].kind = "solaris" /\ insts[it].bootfs = job.target
    BY <2>5
  <2>. HIDE DEF it, mine
  <2>7. r \in Seq(InstType) /\ Len(r) = Len(insts)
    BY <2>2, <2>6, SetDefaultIn
  <2>8. DOMAIN r = DOMAIN insts /\ r[it] \in InstType
    BY <2>4, <2>6, <2>7, LenProperties, ElementOfSeq
  <2>9. x \in InstType /\ x.default = r[it].default /\ x.owned = r[it].owned
        /\ x.kind = r[it].kind /\ x.bootfs = r[it].bootfs
    <3>1. "installed" \in Titles
      BY DEF Titles
    <3>. HIDE DEF r
    <3>. QED
      BY <2>8, <3>1 DEF InstType
  <2>10. new = [r EXCEPT ![it] = x]
    OBVIOUS
  <2>. HIDE DEF x, r, new
  <2>11. /\ new \in Seq(InstType) /\ Len(new) = Len(insts)
         /\ \A k \in 1 .. Len(insts) : new[k] = IF k = it THEN x ELSE r[k]
    BY <2>4, <2>6, <2>7, <2>9, <2>10, ExceptSeq
  <2>12. DOMAIN new = DOMAIN insts
    BY <2>4, <2>11, LenProperties
  <2>13. OthersInactive => new \in InstalledLists(job.target)
    <3>1. SUFFICES ASSUME OthersInactive PROVE new \in InstalledLists(job.target)
      OBVIOUS
    <3>2. Defaults(insts) \subseteq {it}
      <4>1. \A i, k \in DOMAIN insts :
                insts[i].default /\ insts[k].kind = "solaris" /\ insts[k].bootfs = job.target => i = k
        BY <2>2, <2>3, <3>1, FoundOne
      <4>. QED
        BY <2>6, <4>1 DEF Defaults
    <3>3. r \in ImageLists /\ r[it].default /\ \A k \in DOMAIN insts : Like(r[k], insts[k])
      BY <2>2, <2>6, <3>2, SetDefaultIs DEF r
    <3>4. \A k \in DOMAIN insts : /\ new[k].default = r[k].default /\ new[k].kind = r[k].kind
                                  /\ new[k].bootfs = r[k].bootfs
      BY <2>4, <2>9, <2>11
    <3>5. One(r)
      BY <3>3 DEF ImageLists
    <3>6. One(new)
      BY <2>8, <2>12, <3>4, <3>5 DEF One
    <3>7. new[it].default /\ \A k \in DOMAIN new : new[k].default => k = it
      BY <2>6, <2>12, <3>3, <3>4, <3>6 DEF One
    <3>8. new[it].kind = "solaris" /\ new[it].bootfs = job.target
      BY <2>6, <3>3, <3>4 DEF Like
    <3>. QED
      BY <2>6, <2>11, <2>12, <3>6, <3>7, <3>8 DEF InstalledLists, ImageLists
  <2>14. job' = job /\ Going' /\ Gone' = 3
    BY <1>1, <2>1, <2>2, StepIs DEF BootInv, Fixed
  <2>15. Configured'
    BY <2>1, <2>2, <2>13, <2>14 DEF Configured, InstalledLists, ImageLists, OthersInactive
  <2>16. Gone + 1 < MenuAt - 1
    BY <2>2 DEF MenuAt, Base
  <2>. QED
    BY <1>1, <2>1, <2>2, <2>11, <2>15, <2>16, QuietStep
<1>3. CASE Fail(media)
  BY <1>3, SameFails
<1>. QED
  BY <1>1, <1>2, <1>3

\* The entries of an image are added, the first of them the default.
LEMMA BuildImageEntriesKeeps ==
    ASSUME BootInv, BuildImageEntries
    PROVE  BootInv'
<1>. DEFINE n == job.chains
            f == [i \in 1 .. n |-> [Inst("odd", NoFs, "image") EXCEPT !.default = (i = 1)]]
            x == Inst("chain", NoFs, "disk")
            new == f \o <<x>>
            r == AddAll(insts, new, "end")
<1>1. At("default_entries") /\ Step /\ insts' = r /\ media' = media
  BY DEF BuildImageEntries, Config, ImageEntries
<1>2. job.kind = "image" /\ Gone = 1 /\ job \in Jobs /\ n \in Nat
  BY <1>1, RunningIs, StageIs, JobIs
<1>3. insts \in ImageLists
  BY <1>2 DEF BootInv, Configured
<1>4. f \in Seq(InstType) /\ Len(f) = n
  <2>1. "image" \in Titles /\ NoFs \in FsType
    BY DEF Titles, FsType
  <2>2. ASSUME NEW i \in 1 .. n
        PROVE  [Inst("odd", NoFs, "image") EXCEPT !.default = (i = 1)] \in InstType
    <3>1. (i = 1) \in BOOLEAN
      OBVIOUS
    <3>. QED
      BY <2>1, <3>1, InstIs
  <2>. QED
    BY <1>2, <2>2
<1>5. x \in InstType
  <2>1. "disk" \in Titles /\ NoFs \in FsType
    BY DEF Titles, FsType
  <2>. QED
    BY <2>1, InstIs
<1>. HIDE DEF f, x, n
<1>6. new \in Seq(InstType) /\ Len(new) = n + 1
  <2>1. <<x>> \in Seq(InstType) /\ Len(<<x>>) = 1
    BY <1>5
  <2>. QED
    BY <1>4, <2>1, ConcatProperties
<1>7. n + 1 \in Nat /\ DOMAIN new = 1 .. n + 1 /\ \A i \in 1 .. n + 1 : new[i] \in InstType
  BY <1>2, <1>6, LenProperties, ElementOfSeq
<1>. HIDE DEF new
<1>8. r \in ImageLists
  <2>1. \A i \in 1 .. n + 1 : \A a \in ImageLists : AddOne(a, new[i], "end") \in ImageLists
    BY <1>7, AddOneIs
  <2>. QED
    BY <1>3, <1>7, <2>1, AddAllIn
<1>. HIDE DEF r
<1>9. insts' \in Seq(InstType) /\ One(insts') /\ job' = job
  BY <1>1, <1>8, StepIs DEF ImageLists, BootInv, Fixed
<1>10. Configured'
  BY <1>1, <1>2, <1>8, <1>9 DEF Configured
<1>11. Gone + 1 < MenuAt - 1
  BY <1>2 DEF MenuAt
<1>. QED
  BY <1>1, <1>9, <1>10, <1>11, QuietStep

\* The entries of the manifest, each at its end of the list.
LEMMA CustomIn ==
    ASSUME NEW A, NEW base \in A, job \in Jobs,
           \A i \in DOMAIN job.custom : \A a \in A :
                AddOne(a, Custom(job)[i], job.custom[i].at) \in A
    PROVE  FoldLeft(AddPlaced, base,
                    [i \in DOMAIN job.custom |-> <<Custom(job)[i], job.custom[i].at>>]) \in A
<1>. DEFINE n == Len(job.custom)
            pairs == [i \in DOMAIN job.custom |-> <<Custom(job)[i], job.custom[i].at>>]
            B == {<<Custom(job)[i], job.custom[i].at>> : i \in DOMAIN job.custom}
<1>1. n \in Nat /\ DOMAIN job.custom = 1 .. n
  BY JobIs, LenProperties
<1>2. DOMAIN pairs = 1 .. n /\ \A i \in 1 .. n : pairs[i] \in B
  BY <1>1
<1>3. \A a \in A, b \in B : AddPlaced(a, b) \in A
  BY DEF AddPlaced
<1>. HIDE DEF pairs, B, n
<1>4. AllPlaced(base, pairs) \in A
  BY <1>1, <1>2, <1>3, PlacedIn
<1>. QED
  BY <1>4 DEF AllPlaced, pairs

LEMMA CustomIs ==
    ASSUME job \in Jobs, job.kind \in {"system", "image"}, NEW i \in DOMAIN job.custom
    PROVE  /\ Custom(job)[i] \in InstType /\ job.custom[i].at \in {"start", "end"}
           /\ job.kind = "system" => Custom(job)[i].kind = "solaris"
           /\ Custom(job)[i].bootfs = job.target
<1>. DEFINE k == IF job.kind = "image" THEN "odd" ELSE "solaris"
            d == job.custom[i].default
            x == [Inst(k, job.target, "custom") EXCEPT !.default = d]
<1>1. job.custom \in Seq([default : BOOLEAN, at : {"start", "end"}]) /\ job.target \in FsType
  BY JobIs
<1>2. Len(job.custom) \in Nat /\ DOMAIN job.custom = 1 .. Len(job.custom)
  BY <1>1, LenProperties
<1>3. d \in BOOLEAN /\ job.custom[i].at \in {"start", "end"}
  <2>1. job.custom[i] \in [default : BOOLEAN, at : {"start", "end"}]
    BY <1>1, <1>2, ElementOfSeq
  <2>. QED
    BY <2>1
<1>4. Custom(job)[i] = x
  BY <1>2 DEF Custom
<1>5. "custom" \in Titles /\ k \in {"solaris", "chain", "other", "odd"}
  BY DEF Titles
<1>. HIDE DEF d
<1>6. x \in InstType /\ x.kind = k /\ x.bootfs = job.target
  BY <1>1, <1>3, <1>5, InstIs
<1>. HIDE DEF x
<1>. QED
  BY <1>3, <1>4, <1>6

\* The entries of the manifest are added, each at its place.
LEMMA BuildCustomEntriesKeeps ==
    ASSUME BootInv, BuildCustomEntries
    PROVE  BootInv'
<1>. DEFINE r == FoldLeft(AddPlaced, insts,
                          [i \in DOMAIN job.custom |-> <<Custom(job)[i], job.custom[i].at>>])
<1>1. At("custom") /\ Step /\ insts' = r /\ media' = media
  BY DEF BuildCustomEntries, Config
<1>2. /\ (job.kind = "system" /\ Gone = 3) \/ (job.kind = "image" /\ Gone = 2)
      /\ job \in Jobs /\ insts \in Seq(InstType) /\ job.devs \in Nat /\ Going
  BY <1>1, RunningIs, StageIs
<1>3. \A i \in DOMAIN job.custom :
          /\ Custom(job)[i] \in InstType /\ job.custom[i].at \in {"start", "end"}
          /\ job.kind = "system" => Custom(job)[i].kind = "solaris"
          /\ Custom(job)[i].bootfs = job.target
  BY <1>2, CustomIs
<1>4. r \in Seq(InstType)
  <2>1. \A i \in DOMAIN job.custom : \A a \in Seq(InstType) :
            AddOne(a, Custom(job)[i], job.custom[i].at) \in Seq(InstType)
    BY <1>3, AddOneIn
  <2>. QED
    BY <1>2, <2>1, CustomIn
<1>5. job.kind = "image" => r \in ImageLists
  <2>1. \A i \in DOMAIN job.custom : \A a \in ImageLists :
            AddOne(a, Custom(job)[i], job.custom[i].at) \in ImageLists
    BY <1>3, AddOneIs
  <2>2. job.kind = "image" => insts \in ImageLists
    BY DEF BootInv, Configured
  <2>. QED
    BY <1>2, <2>1, <2>2, CustomIn
<1>6. job.kind = "system" /\ OthersInactive => r \in InstalledLists(job.target)
  <2>1. SUFFICES ASSUME job.kind = "system", OthersInactive PROVE r \in InstalledLists(job.target)
    OBVIOUS
  <2>2. insts \in InstalledLists(job.target)
    BY <1>2, <2>1 DEF BootInv, Configured
  <2>3. \A i \in DOMAIN job.custom : \A a \in InstalledLists(job.target) :
            AddOne(a, Custom(job)[i], job.custom[i].at) \in InstalledLists(job.target)
    BY <1>3, <2>1, InstalledAdds
  <2>. QED
    BY <1>2, <2>2, <2>3, CustomIn
<1>. HIDE DEF r
<1>7. job' = job /\ Going' /\ Gone' = Gone + 1
  BY <1>1, StepIs DEF BootInv, Fixed
<1>8. OthersInactive => One(r)
  BY <1>2, <1>5, <1>6 DEF InstalledLists, ImageLists
<1>9. Configured'
  BY <1>1, <1>2, <1>5, <1>6, <1>7, <1>8 DEF Configured, OthersInactive
<1>10. Gone + 1 < MenuAt - 1
  BY <1>2 DEF MenuAt, Base
<1>. QED
  BY <1>1, <1>2, <1>4, <1>9, <1>10, QuietStep

--------------------------------------------------------------------------------
(* The configuration from the start to the end.                            *)

\* The invariant holds of what a client loads and of the start of a checkpoint.
LEMMA BootStarts ==
    ASSUME BootInit
    PROVE  BootInv
<1>1. /\ job \in Jobs /\ dirty = FALSE /\ edits = 0
      /\ media = [menu |-> job.menu, temp |-> NoMenu, loaders |-> 0, bootfs |-> job.bootfs,
                  info |-> 0]
      /\ insts = IF job.kind = "edit" THEN LoadBootConfig(media) ELSE <<>>
      /\ state = IF job.kind = "edit" THEN "editing" ELSE "running"
      /\ steps = IF job.kind = "edit" THEN <<>> ELSE Script
  BY DEF BootInit, Script
<1>2. job.devs \in Nat /\ job.kind \in {"edit", "system", "sparc", "image"}
      /\ job.menu.entries \in Seq(EntryType)
  BY <1>1, JobIs
<1>3. /\ Script \in Seq(StepNames) /\ Len(Script) = Total /\ Total \in Nat \ {0}
      /\ \A k \in 1 .. Total : Script[k] = Stage(k)
  BY <1>1, ScriptIs
<1>4. job.kind = "edit" => insts \in EditLists
  BY <1>1, <1>2, LoadedIs
<1>5. media.menu = job.menu /\ media.loaders = 0 /\ media.info = 0 /\ MediaIs(media)
  BY <1>1 DEF MediaIs
<1>6. insts \in Seq(InstType) /\ One(insts) /\ (job.kind # "edit" => insts = <<>>)
      /\ insts \in ImageLists
  BY <1>1, <1>2, <1>4, EmptyLists DEF EditLists, ImageLists
<1>7. BootTypes
  <2>1. steps \in Seq(StepNames)
    BY <1>1, <1>3
  <2>. QED
    BY <1>1, <1>5, <1>6, <2>1 DEF BootTypes, MediaIs
<1>8. Going => job.kind # "edit" /\ steps = Script /\ Gone = 0 /\ state = "running"
  BY <1>1, <1>3 DEF Going, Gone
<1>9. StepShape
  <2>1. state = "running" => steps # <<>>
    BY <1>1, <1>3, EmptySeq
  <2>2. Going => Len(steps) <= Total /\ \A k \in 1 .. Len(steps) : steps[k] = Stage(Gone + k)
    BY <1>3, <1>8
  <2>. QED
    BY <1>1, <1>5, <2>1, <2>2 DEF StepShape
<1>10. Configured
  BY <1>2, <1>4, <1>6, <1>8 DEF Configured
<1>11. Menus
  <2>1. Going /\ job.kind # "sparc" => MenuAt \in Nat /\ MenuAt >= 3
    BY <1>2, <1>8 DEF MenuAt, Base
  <2>2. MenuWhole
    BY <1>5 DEF MenuWhole
  <2>. QED
    BY <1>2, <1>5, <1>8, <2>1, <2>2 DEF Menus
<1>12. Loaders
  <2>1. Base \in Nat
    BY DEF Base
  <2>. QED
    BY <1>5, <1>8, <2>1 DEF Loaders
<1>13. Bootfs
  BY <1>3, <1>8 DEF Bootfs
<1>. QED
  BY <1>7, <1>9, <1>10, <1>11, <1>12, <1>13 DEF BootInv

\* The invariant is about nothing but the variables of the module.
LEMMA BootStutters ==
    ASSUME BootInv, UNCHANGED bootVars
    PROVE  BootInv'
<1>1. /\ job' = job /\ insts' = insts /\ dirty' = dirty /\ edits' = edits /\ media' = media
      /\ steps' = steps /\ state' = state
  BY DEF bootVars
<1>2. /\ Fixed /\ Going' = Going /\ Total' = Total /\ Commits' = Commits /\ Writes' = Writes
      /\ Base' = Base /\ MenuAt' = MenuAt
  BY <1>1, FixedIs DEF Fixed, Going
<1>3. Gone' = Gone
  BY <1>1, <1>2 DEF Gone
<1>4. BootTypes' /\ Configured' /\ Loaders' /\ Bootfs'
  BY <1>1, <1>2, <1>3 DEF BootInv, BootTypes, Configured, OthersInactive, Loaders, Bootfs
<1>5. Menus'
  BY <1>1, <1>2, <1>3 DEF BootInv, Menus, MenuWhole
<1>6. StepShape'
  BY <1>1, <1>2, <1>3 DEF BootInv, StepShape, Stage
<1>. QED
  BY <1>4, <1>5, <1>6 DEF BootInv

\* Every step keeps the invariant.
LEMMA BootSteps ==
    ASSUME BootInv, [BootNext]_bootVars
    PROVE  BootInv'
<1>1. ASSUME NEW bootfs \in job.others, NEW default \in BOOLEAN,
             NEW where \in {"start", "end"} \cup job.others, AddInstance(bootfs, default, where)
      PROVE  BootInv'
  BY <1>1, EditSteps
<1>2. ASSUME NEW bootfs \in job.others, DeleteInstances(bootfs) PROVE BootInv'
  BY <1>2, EditSteps
<1>3. ASSUME NEW i \in DOMAIN insts, MakeDefault(i) \/ DropDefault(i) \/ SetTitle(i) PROVE BootInv'
  BY <1>3, EditSteps
<1>4. CASE SetProp
  BY <1>4, EditSteps
<1>5. CASE CommitBootConfig
  BY <1>5, CommitKeeps
<1>6. CASE ParseDoc
  BY <1>6, ParseKeeps
<1>7. CASE InitBootConfig
  BY <1>7, InitBootConfigKeeps
<1>8. CASE BuildDefaultEntries
  BY <1>8, BuildDefaultEntriesKeeps
<1>9. CASE BuildImageEntries
  BY <1>9, BuildImageEntriesKeeps
<1>10. CASE BuildCustomEntries
  BY <1>10, BuildCustomEntriesKeeps
<1>11. CASE WriteVars
  BY <1>11, WriteVarsKeeps
<1>12. CASE WriteLoader
  BY <1>12, WriteLoaderKeeps
<1>13. CASE WriteMenu
  BY <1>13, WriteMenuKeeps
<1>14. CASE MoveMenu
  BY <1>14, MoveMenuKeeps
<1>15. CASE SetBootfs
  BY <1>15, SetBootfsKeeps
<1>16. CASE WriteTemp
  BY <1>16, WriteTempKeeps
<1>17. CASE PutInImage
  BY <1>17, PutInImageKeeps
<1>18. CASE UpdateImageInfo
  BY <1>18, UpdateImageInfoKeeps
<1>19. CASE SetProm \/ CopyBootlst
  BY <1>19, SparcQuiet
<1>20. CASE CreateSparcMenu
  BY <1>20, CreateSparcMenuKeeps
<1>21. CASE UNCHANGED bootVars
  BY <1>21, BootStutters
<1>. QED
  BY <1>1, <1>2, <1>3, <1>4, <1>5, <1>6, <1>7, <1>8, <1>9, <1>10, <1>11, <1>12, <1>13, <1>14,
     <1>15, <1>16, <1>17, <1>18, <1>19, <1>20, <1>21 DEF BootNext

\* What the menu and bootfs are when everything is done.
LEMMA DoneIs ==
    ASSUME BootInv, state = "done"
    PROVE  /\ job \in Jobs /\ insts \in Seq(InstType) /\ Going /\ Gone = Total /\ Total \in Nat
           /\ job.devs \in Nat
<1>1. job \in Jobs /\ dirty \in BOOLEAN /\ insts \in Seq(InstType) /\ steps = <<>>
  BY DEF BootInv, BootTypes, StepShape
<1>2. Total \in Nat /\ job.devs \in Nat
  BY <1>1, ScriptIs, JobIs
<1>3. Len(steps) = 0
  BY <1>1, EmptySeq
<1>. QED
  BY <1>1, <1>2, <1>3 DEF Gone, Going

\* What the invariant says of the menu, at any time and when a commit has returned.
LEMMA WrittenIs ==
    ASSUME BootInv
    PROVE  MenuWhole /\ CommittedIsWritten
<1>1. MenuWhole
  BY DEF BootInv, Menus
<1>2. CommittedIsWritten
  <2>1. SUFFICES ASSUME state = "done", job.kind = "edit", dirty
                 PROVE  /\ media.menu = WriteMenuLst(insts)
                        /\ media.loaders = job.devs
                        /\ insts # <<>> /\ DefaultFs(insts) # NoFs =>
                              /\ media.menu.entries[media.menu.default].bootfs = DefaultFs(insts)
                              /\ job.setBootfs => media.bootfs = DefaultFs(insts)
    BY DEF CommittedIsWritten
  <2>2. Going /\ Gone = Total /\ job.devs \in Nat /\ insts \in Seq(InstType)
    BY <2>1, DoneIs
  <2>3. Commits /\ Writes /\ Base = 1 /\ Total = job.devs + 4 /\ MenuAt = job.devs + 3
    BY <2>1, <2>2 DEF Commits, Writes, Base, Total, MenuAt
  <2>4. media.menu = WriteMenuLst(insts)
    BY <2>1, <2>2, <2>3 DEF BootInv, Menus
  <2>5. media.loaders = job.devs
    BY <2>2, <2>3 DEF BootInv, Loaders
  <2>6. DefaultFs(insts) # NoFs /\ job.setBootfs => media.bootfs = DefaultFs(insts)
    BY <2>1, <2>2, <2>3 DEF BootInv, Bootfs
  <2>7. insts \in EditLists
    BY <2>1 DEF BootInv, Configured
  <2>8. ASSUME insts # <<>>, DefaultFs(insts) # NoFs
        PROVE  media.menu.entries[media.menu.default].bootfs = DefaultFs(insts)
    <3>. DEFINE d == WriteMenuLst(insts).default
    <3>1. insts \in ImageLists
      BY <2>7 DEF EditLists
    <3>2. /\ d \in DOMAIN insts /\ WriteMenuLst(insts).entries[d] = MenuEntry(insts[d])
          /\ DefaultFs(insts) = insts[d].bootfs
      BY <2>8, <3>1, MenuStarts
    <3>. HIDE DEF d
    <3>3. insts[d].kind = "solaris"
      BY <2>7, <2>8, <3>2 DEF EditLists
    <3>4. MenuEntry(insts[d]).bootfs = insts[d].bootfs
      BY <3>3 DEF MenuEntry, SolarisEntry, GenericEntry
    <3>. QED
      BY <2>4, <2>8, <3>2, <3>4 DEF d
  <2>. QED
    BY <2>4, <2>5, <2>6, <2>8
<1>. QED
  BY <1>1, <1>2

\* What it says of the defaults and of what the machine starts.
LEMMA InstalledIs ==
    ASSUME BootInv
    PROVE  OneDefault /\ InstalledStarts
<1>1. OneDefault
  BY OneCounted DEF BootInv, BootTypes, Configured, OneDefault
<1>2. ASSUME state = "done", ~job.dry, job.kind = "system"
      PROVE  /\ media.bootfs = job.target /\ media.loaders = job.devs
             /\ OthersInactive => media.menu.entries[media.menu.default].bootfs = job.target
  <2>1. Going /\ Gone = Total /\ job.devs \in Nat /\ insts \in Seq(InstType)
    BY <1>2, DoneIs
  <2>2. Commits /\ Writes /\ Base = 5 /\ Total = job.devs + 8 /\ MenuAt = job.devs + 7
    BY <1>2, <2>1 DEF Commits, Writes, Base, Total, MenuAt
  <2>3. media.menu = WriteMenuLst(insts)
    BY <1>2, <2>1, <2>2 DEF BootInv, Menus
  <2>4. media.loaders = job.devs
    BY <2>1, <2>2 DEF BootInv, Loaders
  <2>5. media.bootfs = job.target
    BY <1>2, <2>1, <2>2 DEF BootInv, Bootfs
  <2>6. ASSUME OthersInactive
        PROVE  media.menu.entries[media.menu.default].bootfs = job.target
    <3>1. insts \in InstalledLists(job.target)
      BY <1>2, <2>1, <2>2, <2>6 DEF BootInv, Configured
    <3>. DEFINE d == WriteMenuLst(insts).default
    <3>2. PICK i \in DOMAIN insts : insts[i].default
      BY <3>1 DEF InstalledLists
    <3>3. insts \in ImageLists /\ insts # <<>>
      BY <3>1, <3>2 DEF InstalledLists
    <3>4. /\ d \in DOMAIN insts /\ WriteMenuLst(insts).entries[d] = MenuEntry(insts[d])
          /\ \A k \in DOMAIN insts : insts[k].default => k = d
      BY <3>3, MenuStarts
    <3>. HIDE DEF d
    <3>5. insts[d].kind = "solaris" /\ insts[d].bootfs = job.target
      BY <3>1, <3>2, <3>4 DEF InstalledLists
    <3>6. MenuEntry(insts[d]).bootfs = job.target
      BY <3>5 DEF MenuEntry, SolarisEntry, GenericEntry
    <3>. QED
      BY <2>3, <3>4, <3>6 DEF d
  <2>. QED
    BY <2>4, <2>5, <2>6
<1>3. ASSUME state = "done", ~job.dry, job.kind = "sparc"
      PROVE  /\ media.bootfs = job.target /\ media.loaders = job.devs
             /\ media.menu.entries[media.menu.default].bootfs = job.target
  <2>1. Going /\ Gone = Total /\ job.devs \in Nat /\ job \in Jobs
    BY <1>3, DoneIs
  <2>2. Base = 2 /\ Total = job.devs + 5
    BY <1>3 DEF Base, Total
  <2>. DEFINE x == Inst("solaris", job.target, "installed")
              s == <<x>>
              d == WriteMenuLst(s).default
  <2>3. media.menu = WriteSparcMenu(s)
    BY <1>3, <2>1, <2>2 DEF BootInv, Menus
  <2>4. media.loaders = job.devs
    BY <1>3, <2>1, <2>2 DEF BootInv, Loaders
  <2>5. media.bootfs = job.target
    BY <1>3, <2>1, <2>2 DEF BootInv, Bootfs
  <2>6. job.target \in FsType /\ job.target # NoFs /\ "installed" \in Titles
    BY <1>3, <2>1, JobIs DEF Titles
  <2>7. x \in InstType /\ x.kind = "solaris" /\ x.bootfs = job.target /\ ~x.default
    BY <2>6, InstIs DEF Inst
  <2>. HIDE DEF x
  <2>8. WriteSparcMenu(s) = WriteMenuLst(s)
    BY <2>6, <2>7, NotOfSingle DEF WriteSparcMenu
  <2>9. s \in ImageLists /\ s # <<>> /\ DOMAIN s = {1} /\ s[1] = x
    BY <2>7 DEF ImageLists, One
  <2>. HIDE DEF s
  <2>10. d = 1 /\ WriteMenuLst(s).entries[d] = MenuEntry(s[d])
    BY <2>9, MenuStarts
  <2>. HIDE DEF d
  <2>11. MenuEntry(x).bootfs = job.target
    BY <2>7 DEF MenuEntry, SolarisEntry, GenericEntry
  <2>. QED
    BY <2>3, <2>4, <2>5, <2>8, <2>9, <2>10, <2>11 DEF d
<1>4. InstalledStarts
  BY <1>2, <1>3 DEF InstalledStarts
<1>. QED
  BY <1>1, <1>4

\* However a commit ends, and wherever it is cut off, the menu of an image or a disk is
\* the one that was there or the whole of the new one; after a commit that returned, no
\* change that was made is missing from the menu, each device has its loader, and the
\* menu starts the default, the pool's bootfs too if that was asked for; after the
\* checkpoint bootfs is what was installed; and as long as no other boot environment is
\* found active, no sequence of calls leaves two defaults and the menu starts what was
\* installed: for any menus, edits, boot environments, devices and custom entries.
THEOREM BootIsSound == BootSpec => []BootSound
<1>1. BootInit => BootInv
  BY BootStarts
<1>2. BootInv /\ [BootNext]_bootVars => BootInv'
  BY BootSteps
<1>3. BootInv => BootSound
  BY WrittenIs, InstalledIs DEF BootSound
<1>. QED
  BY <1>1, <1>2, <1>3, PTL DEF BootSpec

================================================================================
