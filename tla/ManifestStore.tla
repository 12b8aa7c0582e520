---------------------------- MODULE ManifestStore ----------------------------
(***************************************************************************)
(* The manifests and profiles of one install service: the database and the *)
(* thread that runs its requests (AI_database.py), the commands that edit  *)
(* it (publish_manifest.py, delete_manifest.py, set_criteria.py,           *)
(* create_profile.py, delete_profile.py, over data_files.py, verifyXML.py  *)
(* and common_profile.py) and the choice made for a client                 *)
(* (cgi_get_manifest.py).                                                  *)
(*                                                                         *)
(* One criterion stands for those that are lists of values ("arch"), one   *)
(* for those that are ranges ("ipv4"); "arch" is the earlier column of the *)
(* table.  Addresses are numbers of one digit, so that the places where    *)
(* the code compares the characters of a number compare the number.        *)
(***************************************************************************)
EXTENDS Naturals, FiniteSets, Sequences

CONSTANTS MNames,     \* manifest names
          ArchVals,   \* values of the list criterion
          Addrs,      \* values of the range criterion, 0 excluded
          PNames,     \* profile names
          PCrits,     \* criteria given with a profile
          MaxPFiles,  \* bound on the number of internal profile files
          MaxInstances, \* bound on the rows of one manifest name
          Timeouts,   \* may waitAns() give up before the answer comes?
          Appends     \* is set-criteria -a used?

ASSUME StoreAssumption == /\ Addrs \subseteq 1 .. 9 /\ MaxPFiles \in Nat
                          /\ Timeouts \in BOOLEAN /\ Appends \in BOOLEAN

VARIABLES db,      \* the two tables, [m |-> manifests, p |-> profiles]
          mfiles,  \* the files of AI_data
          dflt,    \* the default manifest of the service
          pfiles,  \* the files under /var/ai/profile
          cmd,     \* the command that runs
          pend,    \* its requests the database thread has not run yet
          lost     \* [m |-> manifest names, p |-> profile files]: those whose
                   \* request was not executed, or not answered in time
storeVars == <<db, mfiles, dflt, pfiles, cmd, pend, lost>>

Original == "orig_default"
ManifestNames == MNames \cup {Original}
Unbounded == 0
(* A range of the command line is a pair, a value the pair of itself.      *)
Ranges == {r \in (Addrs \cup {Unbounded}) \X (Addrs \cup {Unbounded}) :
              /\ r # <<Unbounded, Unbounded>>
              /\ r[1] # Unbounded /\ r[2] # Unbounded => r[1] <= r[2]}
NoRange == <<Unbounded, Unbounded>>
CriteriaSet == [arch : SUBSET ArchVals, ipv4 : Ranges \cup {NoRange}]
NoCriteria == [arch |-> {}, ipv4 |-> NoRange]
ClientSet == [arch : ArchVals, ipv4 : Addrs]

----------------------------------------------------------------------------
(* The database *)

(* What the thread does with a request.  Taking an instance out and         *)
(* counting down those behind it are one request.                          *)
Executed(d, req) ==
    CASE req.op = "insert" -> [d EXCEPT !.m = @ \cup {req.row}]
      [] req.op = "delete" ->
            [d EXCEPT !.m = {r \in @ : r.name # req.name}]
      [] req.op = "delete_instance" ->
            [d EXCEPT !.m =
                {IF r.name = req.name /\ r.inst > req.inst
                 THEN [r EXCEPT !.inst = @ - 1] ELSE r :
                    r \in {s \in @ : ~(s.name = req.name /\ s.inst = req.inst)}}]
      [] req.op = "update" ->
            [d EXCEPT !.m = {IF r.name = req.name
                             THEN [r EXCEPT !.crit = req.crit] ELSE r : r \in @}]
      [] req.op = "update_profile" ->
            [d EXCEPT !.p = {IF r.name = req.name
                             THEN [r EXCEPT !.crit = req.crit] ELSE r : r \in @}]
      [] req.op = "insert_profile" -> [d EXCEPT !.p = @ \cup {req.row}]
      [] req.op = "delete_profile" ->
            [d EXCEPT !.p = {r \in @ : ~(r.name = req.name /\ r.crit = req.crit)}]
      [] req.op = "delete_row" -> [d EXCEPT !.p = @ \ {req.row}]

ManNames == {r.name : r \in db.m}
NumInstances(name) == Cardinality({r \in db.m : r.name = name})
IsNameInTable(p) == \E r \in db.p : r.name = p

(* The columns of a row that a client's value has to fit.                  *)
RangeFits(r, v) == /\ r[1] # Unbounded => r[1] <= v
                   /\ r[2] # Unbounded => v <= r[2]
Fits(crit, c) == /\ crit.arch # {} => c.arch \in crit.arch
                 /\ RangeFits(crit.ipv4, c.ipv4)

(* build_query_str() and findManifest(): of the rows that fit and have any *)
(* criteria, the ones that name an address first, then the ones that name  *)
(* an architecture.                                                        *)
Weight(crit) == (IF crit.ipv4 # NoRange THEN 2 ELSE 0)
                + (IF crit.arch # {} THEN 1 ELSE 0)
FindManifests(c) ==
    LET fit == {r \in db.m : r.crit # NoCriteria /\ Fits(r.crit, c)}
    IN  {r.name : r \in {s \in fit : \A t \in fit : Weight(s.crit) >= Weight(t.crit)}}

(* send_manifest(): the default when nothing fits; every profile that fits *)
ManifestSent(c) == IF FindManifests(c) = {} THEN {dflt} ELSE FindManifests(c)
ProfilesSent(c) == {r \in db.p : Fits(r.crit, c)}

----------------------------------------------------------------------------
(* Requests of a command, and their answers *)

Idle == [op |-> "idle", step |-> "", name |-> "", crit |-> NoCriteria,
         flag |-> FALSE, inst |-> 0, file |-> 0, todo |-> <<>>, got |-> FALSE]

Put(c, step, req) ==
    /\ cmd' = [c EXCEPT !.step = step, !.got = FALSE]
    /\ pend' = Append(pend, req)

Waits == {"insert", "delete", "update", "pdelete", "pinsert", "prow"}
Waiting == cmd.step \in Waits
After(step) == CASE step = "insert" -> "after_insert"
                 [] step = "delete" -> "after_delete"
                 [] step = "update" -> "after_update"
                 [] step = "pdelete" -> "after_pdelete"
                 [] step = "pinsert" -> "after_pinsert"
                 [] step = "prow" -> "after_prow"

(* A command about a manifest or a profile does not learn what became of   *)
(* its request, and goes on.                                               *)
Forfeit(steps) ==
    lost' = CASE cmd.step \in steps \cap {"insert", "delete"} ->
                    [lost EXCEPT !.m = @ \cup {cmd.name}]
              [] cmd.step \in steps \cap {"pinsert", "prow"} ->
                    [lost EXCEPT !.p = @ \cup {cmd.file}]
              [] OTHER -> lost

(* The thread answers in order; the answer the command waits for is the    *)
(* last one.                                                               *)
DbRun ==
    /\ pend # <<>>
    /\ db' = Executed(db, Head(pend))
    /\ pend' = Tail(pend)
    /\ cmd' = IF Waiting /\ Len(pend) = 1
              THEN [cmd EXCEPT !.step = After(@), !.got = TRUE] ELSE cmd
    /\ UNCHANGED <<mfiles, dflt, pfiles, lost>>

(* The statement fails: the answer is the text of the error, of which      *)
(* getResponse() makes None.  insert_SQL() and delete_manifest_from_db()   *)
(* do not look at it, and place or remove their file all the same.         *)
DbFails ==
    /\ pend # <<>>
    /\ pend' = Tail(pend)
    /\ IF Waiting /\ Len(pend) = 1
       THEN /\ cmd' = [cmd EXCEPT !.step = After(@)]
            /\ Forfeit(IF cmd.op = "delete_instance" THEN {} ELSE {"insert", "delete"})
       ELSE UNCHANGED <<cmd, lost>>
    /\ UNCHANGED <<db, mfiles, dflt, pfiles>>

(* waitAns() returns after 15 seconds; getResponse() then returns None,    *)
(* and the request may still be executed.                                  *)
WaitTimesOut ==
    /\ Timeouts /\ Waiting /\ ~cmd.got
    /\ cmd' = [cmd EXCEPT !.step = After(@)]
    /\ Forfeit(Waits)
    /\ UNCHANGED <<db, mfiles, dflt, pfiles, pend>>

(* The thread is a daemon: what it has not run is dropped with the process *)
Exit == cmd' = Idle /\ pend' = <<>>

----------------------------------------------------------------------------
(* Collisions of criteria *)

Overlap(a, b) ==
    LET Hi(r) == IF r[2] = Unbounded THEN 10 ELSE r[2]
    IN  Hi(a) >= b[1] /\ Hi(b) >= a[1]

(* find_colliding_criteria(): the criteria that meet one of each row.      *)
FindCollidingCriteria(crit, exclude) ==
    [r \in {s \in db.m : s.name \notin exclude} |->
        (IF crit.arch \cap r.crit.arch # {} THEN {"arch"} ELSE {})
        \cup (IF /\ crit.ipv4 # NoRange /\ r.crit.ipv4 # NoRange
                 /\ Overlap(crit.ipv4, r.crit.ipv4)
              THEN {"ipv4"} ELSE {})]

(* The verdict on one column: an "error" ends the command, a "difference"  *)
(* ends the comparison.  Criteria taken from the manifest itself (append)  *)
(* come as the text of the column, whose characters are no architecture,   *)
(* or as a number, which cannot be iterated over.                          *)
ArchVerdict(mine, theirs, published) ==
    CASE mine = {} /\ theirs = {} -> "same"
      [] (mine = {}) # (theirs = {}) -> "difference"
      [] mine # {} /\ theirs # {} ->
            IF ~published /\ mine \cap theirs # {} THEN "same" ELSE "difference"
BoundVerdict(mine, theirs, collides, published) ==
    CASE collides -> IF mine = theirs THEN "same" ELSE "error"
      [] ~collides /\ mine = Unbounded /\ theirs = Unbounded -> "same"
      [] ~collides /\ (mine = Unbounded) # (theirs = Unbounded) -> "difference"
      [] ~collides /\ mine # Unbounded /\ theirs # Unbounded ->
            IF published THEN "error"
            ELSE IF mine = theirs THEN "same" ELSE "difference"

(* The criteria compared: own is the row that is appended to, if any.      *)
Mine(crit, own) ==
    [arch |-> IF crit.arch = {} /\ own # {} THEN UNION {o.crit.arch : o \in own}
              ELSE crit.arch,
     ipv4 |-> IF crit.ipv4 = NoRange /\ own # {} THEN (CHOOSE o \in own : TRUE).crit.ipv4
              ELSE crit.ipv4]
Verdicts(crit, own, theirs, collides) ==
    LET mine == Mine(crit, own)
    IN  [i \in 1 .. 3 |->
            IF i = 1 THEN ArchVerdict(mine.arch, theirs.arch, crit.arch = {} /\ own # {})
            ELSE BoundVerdict(mine.ipv4[i - 1], theirs.ipv4[i - 1], "ipv4" \in collides,
                              crit.ipv4 = NoRange /\ own # {})]
(* find_colliding_manifests(): an error for the first column that is not   *)
(* the same, or because none differs.                                      *)
Refused(v) ==
    \/ \A i \in DOMAIN v : v[i] = "same"
    \/ \E i \in DOMAIN v : v[i] = "error" /\ \A j \in DOMAIN v : j < i => v[j] = "same"

(* Faulty variant: only the range columns are compared.                    *)
RangesCollideOnly(crit, collisions, own) ==
    \E r \in DOMAIN collisions :
        "ipv4" \in collisions[r] /\ crit.ipv4 # r.crit.ipv4
FindCollidingManifests(crit, collisions, own) ==
    \E r \in {s \in DOMAIN collisions : collisions[s] # {}} :
        Refused(Verdicts(crit, own, r.crit, collisions[r]))

----------------------------------------------------------------------------
(* create-manifest, delete-manifest, set-criteria *)

(* The request for a row of the next instance of the manifest, with nulls  *)
(* for the criteria that are not given.                                    *)
InsertSQL(name, crit) ==
    [op |-> "insert",
     row |-> [name |-> name, inst |-> NumInstances(name), crit |-> crit]]

StartCreate(name, crit, asDefault) ==
    /\ cmd = Idle
    /\ name \notin mfiles /\ NumInstances(name) < MaxInstances
    /\ crit # NoCriteria =>
            ~FindCollidingManifests(crit, FindCollidingCriteria(crit, {}), {})
    /\ Put([Idle EXCEPT !.op = "create", !.name = name, !.flag = asDefault],
           "insert", InsertSQL(name, crit))
    /\ UNCHANGED <<db, mfiles, dflt, pfiles, lost>>

(* insert_SQL() does not look at its answer; place_manifest(), and the     *)
(* default when asked.                                                     *)
FinishCreate ==
    /\ cmd.step = "after_insert"
    /\ mfiles' = mfiles \cup {cmd.name}
    /\ dflt' = IF cmd.flag THEN cmd.name ELSE dflt
    /\ Exit
    /\ UNCHANGED <<db, pfiles, lost>>

(* Faulty variant: the default manifest is not protected.                  *)
DeleteAnyOf(name) == name \in ManNames
DeleteAllowed(name) == name \in ManNames /\ name # dflt

StartDelete(name) ==
    /\ cmd = Idle /\ DeleteAllowed(name)
    /\ Put([Idle EXCEPT !.op = "delete", !.name = name], "delete",
           [op |-> "delete", name |-> name])
    /\ UNCHANGED <<db, mfiles, dflt, pfiles, lost>>

StartDeleteInstance(name, inst) ==
    /\ cmd = Idle /\ DeleteAllowed(name)
    /\ inst \in 0 .. NumInstances(name)
    /\ Put([Idle EXCEPT !.op = "delete_instance", !.name = name], "delete",
           [op |-> "delete_instance", name |-> name, inst |-> inst])
    /\ UNCHANGED <<db, mfiles, dflt, pfiles, lost>>

(* The file goes with the name, after an instance only when the name is    *)
(* no longer found.  While the thread is late, or when it fails, no name   *)
(* is.                                                                     *)
FinishDelete ==
    /\ cmd.step = "after_delete"
    /\ \/ /\ mfiles' = IF \/ cmd.op = "delete"
                          \/ pend # <<>> \/ cmd.name \notin ManNames
                       THEN mfiles \ {cmd.name} ELSE mfiles
          /\ UNCHANGED lost
       \/ /\ cmd.op = "delete_instance"
          /\ mfiles' = mfiles \ {cmd.name}
          /\ lost' = [lost EXCEPT !.m = @ \cup {cmd.name}]
    /\ Exit
    /\ UNCHANGED <<db, dflt, pfiles>>

(* set_criteria(): with append, what is not given stays.                   *)
NewCriteria(old, crit, append) ==
    [arch |-> IF crit.arch = {} /\ append THEN old.arch ELSE crit.arch,
     ipv4 |-> IF crit.ipv4 = NoRange /\ append THEN old.ipv4 ELSE crit.ipv4]

StartSetCriteria(name, crit, append) ==
    LET own == {r \in db.m : r.name = name /\ r.inst = 0}
    IN  /\ cmd = Idle
        /\ name \in ManNames /\ name \in mfiles /\ own # {}
        /\ crit # NoCriteria
        /\ ~FindCollidingManifests(crit, FindCollidingCriteria(crit, {name}),
                                   IF append THEN own ELSE {})
        /\ Put([Idle EXCEPT !.op = "set", !.name = name], "update",
               [op |-> "update", name |-> name,
                crit |-> NewCriteria((CHOOSE o \in own : TRUE).crit, crit, append)])
        /\ UNCHANGED <<db, mfiles, dflt, pfiles, lost>>

StartSetProfileCriteria(p, crit) ==
    /\ cmd = Idle /\ IsNameInTable(p)
    /\ Put([Idle EXCEPT !.op = "set", !.name = p], "update",
           [op |-> "update_profile", name |-> p, crit |-> crit])
    /\ UNCHANGED <<db, mfiles, dflt, pfiles, lost>>

FinishSetCriteria ==
    /\ cmd.step = "after_update"
    /\ Exit
    /\ UNCHANGED <<db, mfiles, dflt, pfiles, lost>>

(* set-service: set_default_manifest() wants the file.                     *)
SetDefaultManifest(name) ==
    /\ cmd = Idle /\ name \in mfiles
    /\ dflt' = name
    /\ UNCHANGED <<db, mfiles, pfiles, cmd, pend, lost>>

----------------------------------------------------------------------------
(* create-profile, delete-profile *)

StartCreateProfiles(names, crit) ==
    /\ cmd = Idle
    /\ cmd' = [Idle EXCEPT !.op = "profiles", !.crit = crit, !.step = "next",
                           !.todo = names]
    /\ UNCHANGED <<db, mfiles, dflt, pfiles, pend, lost>>

FreeFile == {f \in 1 .. MaxPFiles : f \notin pfiles}

(* The next file of the command line: skipped when the name is taken (a    *)
(* question that waits for its turn), copied internally, and whatever has  *)
(* the name and criteria deleted from the table.                           *)
NextProfile ==
    /\ cmd.step = "next" /\ cmd.todo # <<>> /\ pend = <<>>
    /\ IF IsNameInTable(Head(cmd.todo))
       THEN /\ cmd' = [cmd EXCEPT !.todo = Tail(@)]
            /\ UNCHANGED <<pfiles, pend>>
       ELSE /\ FreeFile # {}
            /\ LET f == CHOOSE g \in FreeFile : \A h \in FreeFile : g <= h
               IN  /\ pfiles' = pfiles \cup {f}
                   /\ Put([cmd EXCEPT !.name = Head(cmd.todo), !.file = f,
                                      !.todo = Tail(@)], "pdelete",
                          [op |-> "delete_profile", name |-> Head(cmd.todo),
                           crit |-> cmd.crit])
    /\ UNCHANGED <<db, mfiles, dflt, lost>>

(* add_profile(): without an answer the copy is removed again.             *)
InsertProfile ==
    /\ cmd.step = "after_pdelete"
    /\ IF cmd.got
       THEN /\ Put(cmd, "pinsert",
                   [op |-> "insert_profile",
                    row |-> [name |-> cmd.name, crit |-> cmd.crit, file |-> cmd.file]])
            /\ UNCHANGED pfiles
       ELSE /\ cmd' = [cmd EXCEPT !.step = "next"]
            /\ pfiles' = pfiles \ {cmd.file}
            /\ UNCHANGED pend
    /\ UNCHANGED <<db, mfiles, dflt, lost>>

(* Faulty variant: the copy is removed whatever the answer was.            *)
ProfileAlwaysUndone ==
    /\ cmd.step = "after_pinsert"
    /\ cmd' = [cmd EXCEPT !.step = "next"]
    /\ pfiles' = pfiles \ {cmd.file}
    /\ UNCHANGED <<db, mfiles, dflt, pend, lost>>
ProfileAdded ==
    /\ cmd.step = "after_pinsert"
    /\ cmd' = [cmd EXCEPT !.step = "next"]
    /\ pfiles' = IF cmd.got THEN pfiles ELSE pfiles \ {cmd.file}
    /\ UNCHANGED <<db, mfiles, dflt, pend, lost>>

(* The end of the command line; or a question the thread is too late for,  *)
(* or fails at, whose missing answer ends the command with a traceback.    *)
EndProfiles ==
    /\ cmd.step = "next"
    /\ Exit
    /\ UNCHANGED <<db, mfiles, dflt, pfiles, lost>>

(* delete_profiles(): the rows of the name, then the file of each row      *)
(* whose deletion was answered.                                            *)
StartDeleteProfile(row) ==
    /\ cmd = Idle /\ row \in db.p
    /\ Put([Idle EXCEPT !.op = "delete_profile", !.file = row.file], "prow",
           [op |-> "delete_row", row |-> row])
    /\ UNCHANGED <<db, mfiles, dflt, pfiles, lost>>

FinishDeleteProfile ==
    /\ cmd.step = "after_prow"
    /\ pfiles' = IF cmd.got THEN pfiles \ {cmd.file} ELSE pfiles
    /\ Exit
    /\ UNCHANGED <<db, mfiles, dflt, lost>>

----------------------------------------------------------------------------
(* The service is created with its original manifest, which has no         *)
(* criteria and is the default.                                            *)
StoreInit ==
    /\ db = [m |-> {[name |-> Original, inst |-> 0, crit |-> NoCriteria]}, p |-> {}]
    /\ mfiles = {Original} /\ dflt = Original /\ pfiles = {}
    /\ cmd = Idle /\ pend = <<>> /\ lost = [m |-> {}, p |-> {}]

ManifestNext ==
    \/ DbRun \/ DbFails \/ WaitTimesOut
    \/ \E n \in MNames, crit \in CriteriaSet, d \in BOOLEAN : StartCreate(n, crit, d)
    \/ FinishCreate
    \/ \E n \in ManifestNames : \/ StartDelete(n)
                                \/ \E i \in 0 .. 2 : StartDeleteInstance(n, i)
                                \/ SetDefaultManifest(n)
    \/ FinishDelete
    \/ \E n \in ManifestNames, crit \in CriteriaSet,
          append \in (IF Appends THEN BOOLEAN ELSE {FALSE}) :
            StartSetCriteria(n, crit, append)
    \/ FinishSetCriteria

ProfileNext ==
    \/ DbRun \/ DbFails \/ WaitTimesOut
    \/ \E p \in PNames, crit \in PCrits : StartSetProfileCriteria(p, crit)
    \/ FinishSetCriteria
    \/ \E p, q \in PNames, crit \in PCrits : StartCreateProfiles(<<p, q>>, crit)
    \/ NextProfile \/ InsertProfile \/ ProfileAdded \/ EndProfiles
    \/ \E row \in db.p : StartDeleteProfile(row)
    \/ FinishDeleteProfile

StoreSpec == StoreInit /\ [][ManifestNext \/ ProfileNext]_storeVars

----------------------------------------------------------------------------
(* Properties *)

(* Whatever criteria were published, set and deleted, and whichever        *)
(* requests were late, no client fits two manifests of the same weight, so *)
(* that the manifest sent does not depend on the order of the table.       *)
OneManifestEach == \A c \in ClientSet : Cardinality(ManifestSent(c)) = 1

(* The default manifest is there to be sent.  Between commands a manifest   *)
(* is in the table when its file is in the directory, and a profile's file *)
(* is one row's, and only its: whatever fails or is late in a command, no   *)
(* other manifest or profile is touched, create-profile undoes its copy    *)
(* and delete-profile keeps the file of a row it could not delete.         *)
(* Excepted are the names and files in "lost", of which the code knows no  *)
(* better: a manifest whose INSERT or DELETE failed, and a manifest or     *)
(* profile whose request was not answered in time.                         *)
StoreAgrees ==
    /\ dflt \in mfiles
    /\ cmd = Idle =>
        /\ ManNames \ lost.m = mfiles \ lost.m
        /\ pfiles \ lost.p = {r.file : r \in db.p} \ lost.p
        /\ \A r, s \in db.p : r.file = s.file => r = s \/ r.file \in lost.p

(* A profile that is sent has its file, also after a command that backed   *)
(* out ("failure, back out internal profile").                             *)
SentProfilesExist ==
    cmd = Idle => \A c \in ClientSet : \A r \in ProfilesSent(c) : r.file \in pfiles
============================================================================
