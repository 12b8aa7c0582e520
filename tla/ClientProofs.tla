----------------------------- MODULE ClientProofs -----------------------------
(***************************************************************************)
(* Theorems about what runs on the machine that is being installed: the    *)
(* automated installer and its services (AIClient), the checkpoints that   *)
(* complete the installation (CompletionTasks), the one that makes the     *)
(* pools and datasets (PoolInstantiation), and the ones that transfer the  *)
(* software (Transfer).                                                    *)
(***************************************************************************)
EXTENDS AIClient, Transfer, PoolInstantiation, BootMenu, CompletionTasks, DataLemmas

-----------------------------------------------------------------------------
(* The automated installer (AIClient).                                     *)

OwnNames ==
    {"derived-manifest", "manifest-parser", "target-discovery", "target-selection",
     "ai-configuration", "var-shared-dataset", "target-instantiation", "initialize-smf-zone",
     "initialize-smf", "boot-configuration", "update-dump-adm", "setup-swap", "device-config",
     "apply-sysconfig", "transfer-zpool-cache", "boot-archive", "transfer-ai-files",
     "create-snapshot"}
CheckpointNames ==
    OwnNames \cup UNION {{Names(m)[i] : i \in 1 .. Len(m.sw)} : m \in Manifests}
StopNames == {o.stop : o \in Options} \cup {"none"} \cup CheckpointNames
AITypes ==
    [pc : {"off", "run", "exit", "over"}, opt : Options \cup {ServiceOptions, NoFile},
     m : Manifests \cup {NoFile}, stop : StopNames, todo : Seq(CheckpointNames),
     done : Seq(CheckpointNames),
     code : {0, 1, 64, 99}, log : {"ram", "be", "elsewhere"},
     be : {"none", "mounted", "unmounted"}, phase : {"none", "manifest", "install"},
     images : Seq({"dir", "create", "use_existing"})]
ClientTypes ==
    /\ loc \in [at : {"off", "prompt", "media", "discover", "ask", "ok", "fatal"},
                boot : Boots \cup {NoFile}, runs : Nat,
                list : Seq({"named", "default", "fallback"}),
                host : Hosts, sent : {NoFile} \cup {Known(h) : h \in Hosts}]
    /\ vol \in [manifest : Manifests \cup {NoFile}, from : Nat,
                profiles : SUBSET [of : Nat, name : Profiles], sci : BOOLEAN,
                services : BOOLEAN]
    /\ ai \in AITypes
    /\ smf \in {"off", "waiting", "running", "by hand", "maintenance", "online",
                "rebooted", "shell"}

\* What the second execution of the engine has to do, and what it has done.
Executing(p) ==
    /\ p.done \o p.todo = Registered(p.opt, p.m)
    /\ p.images = ImageActions(p.m)
    /\ p.stop = StopAt(p.opt, p.m) /\ ~p.opt.list
    /\ "target-instantiation" \in ToSet(p.done) /\ ~p.opt.dry => p.be = "mounted"
Complete(p) == p.todo = <<>> /\ p.log = "be" /\ p.be = "unmounted" /\ p.m.reboot
Truthful(p) ==
    /\ p.done \o p.todo = Registered(p.opt, p.m)
    /\ p.todo # <<>> => Head(p.todo) = p.stop
    /\ p.images = ImageActions(p.m)

AIInv(p) ==
    /\ p.pc = "run" => /\ p.code = 99 /\ p.m \in Manifests /\ p.phase # "none"
                       /\ p.opt \in Options \cup {ServiceOptions}
                       /\ p.phase = "manifest" => p.stop = p.opt.stop
                       /\ p.phase = "install" => Executing(p)
    /\ (p.pc = "exit" /\ p.code \in {0, 64} /\ p.phase = "install" /\ ~p.opt.list) =>
          p.m \in Manifests /\ Truthful(p)
    /\ (p.pc = "exit" /\ p.code = 64 /\ p.opt = ServiceOptions) => Complete(p)

ClientInv ==
    /\ ClientTypes
    /\ loc.sent \in {NoFile, Known(loc.host)}
    /\ loc.at = "ok" => vol.manifest \in Manifests
    /\ ProfilesOfOneAnswer
    /\ AIInv(ai)
    /\ ai.pc \in {"run", "exit"} => smf \in {"running", "by hand"}
    /\ smf = "running" => ai.pc \in {"run", "exit"} /\ ai.opt = ServiceOptions
    /\ smf = "rebooted" => ai.pc = "over" /\ Complete(ai)

\* The names of the transfers of a manifest, given or generated.
LEMMA NamesOfTransfers ==
    ASSUME NEW m \in Manifests
    PROVE  /\ Names(m) \in Seq(CheckpointNames) /\ Len(m.sw) \in Nat
           /\ DOMAIN m.sw = 1 .. Len(m.sw)
<1>1. Len(m.sw) \in Nat /\ DOMAIN m.sw = 1 .. Len(m.sw)
  BY AIClientAssumption
<1>2. ASSUME NEW i \in 1 .. Len(m.sw) PROVE Names(m)[i] \in CheckpointNames
  BY DEF CheckpointNames
<1>3. Names(m) = [i \in 1 .. Len(m.sw) |-> Names(m)[i]]
  BY <1>1 DEF Names
<1>. QED
  BY <1>1, <1>2, <1>3

\* No checkpoint is called what a command line without a stop has for it.
LEMMA NamesAreNames == "none" \notin CheckpointNames
<1>1. ASSUME NEW m \in Manifests, NEW i \in 1 .. Len(m.sw)
      PROVE  Names(m)[i] # "none"
  <2>1. DOMAIN m.sw = 1 .. Len(m.sw) /\ Generated[i] # "none"
    BY AIClientAssumption
  <2>2. Names(m)[i] = IF m.sw[i].name = "none" THEN Generated[i] ELSE m.sw[i].name
    BY <2>1 DEF Names
  <2>. QED
    BY <2>1, <2>2
<1>2. "none" \notin OwnNames
  BY DEF OwnNames
<1>. QED
  BY <1>1, <1>2 DEF CheckpointNames

LEMMA OwnOnes == \A n \in OwnNames : n \in CheckpointNames
  BY DEF CheckpointNames

\* The checkpoints registered for an installation have names, and target
\* instantiation is one of them.
LEMMA NamesRegistered ==
    ASSUME NEW o, NEW m \in Manifests
    PROVE  /\ Registered(o, m) \in Seq(CheckpointNames)
           /\ "target-instantiation" \in ToSet(Registered(o, m))
<1>1. Names(m) \in Seq(CheckpointNames)
  BY NamesOfTransfers
<1>2. IctCheckpoints(o) \in Seq(CheckpointNames)
  <2>1. SysconfigCheckpoint(o) \in Seq(CheckpointNames)
    <3>1. "apply-sysconfig" \in CheckpointNames
      BY DEF CheckpointNames, OwnNames
    <3>. QED
      BY <3>1 DEF SysconfigCheckpoint
  <2>2. /\ <<"initialize-smf-zone", "setup-swap">> \in Seq(CheckpointNames)
        /\ <<"transfer-ai-files", "create-snapshot">> \in Seq(CheckpointNames)
        /\ <<"initialize-smf", "boot-configuration", "update-dump-adm", "setup-swap",
             "device-config">> \in Seq(CheckpointNames)
        /\ <<"transfer-zpool-cache", "boot-archive", "transfer-ai-files",
             "create-snapshot">> \in Seq(CheckpointNames)
    BY OwnOnes DEF OwnNames
  <2>3. CASE o.zone
    BY <2>1, <2>2, <2>3, ConcatProperties DEF IctCheckpoints
  <2>4. CASE ~o.zone
    BY <2>1, <2>2, <2>4, ConcatProperties DEF IctCheckpoints
  <2>. QED
    BY <2>3, <2>4
<1>. DEFINE a == IF o.zone THEN <<>> ELSE <<"target-discovery">>
            b == <<"target-selection", "ai-configuration", "var-shared-dataset",
                   "target-instantiation">>
<1>3. /\ a \in Seq(CheckpointNames) /\ b \in Seq(CheckpointNames) /\ Len(b) = 4
      /\ b[4] = "target-instantiation"
  BY OwnOnes DEF OwnNames
<1>. HIDE DEF a, b
<1>4. /\ a \o b \in Seq(CheckpointNames) /\ Len(a \o b) = Len(a) + 4
      /\ (a \o b)[Len(a) + 4] = "target-instantiation"
  <2>1. Len(a) \in Nat /\ Len(a) + 4 \in 1 .. Len(a) + Len(b) /\ ~(Len(a) + 4 <= Len(a))
        /\ (Len(a) + 4) - Len(a) = 4
    BY <1>3, LenProperties
  <2>2. /\ a \o b \in Seq(CheckpointNames) /\ Len(a \o b) = Len(a) + Len(b)
        /\ (a \o b)[Len(a) + 4] = b[(Len(a) + 4) - Len(a)]
    BY <1>3, <2>1, ConcatProperties
  <2>. QED
    BY <1>3, <2>1, <2>2
<1>. DEFINE c == Names(m) \o IctCheckpoints(o)
            all == (a \o b) \o c
<1>5. c \in Seq(CheckpointNames)
  BY <1>1, <1>2, ConcatProperties
<1>6. Registered(o, m) = all
  <2>1. Registered(o, m) = ((a \o b) \o Names(m)) \o IctCheckpoints(o)
    BY DEF Registered, TargetCheckpoints, a, b
  <2>2. \A x, y, z \in Seq(CheckpointNames) : (x \o y) \o z = x \o (y \o z)
    BY ConcatAssociative
  <2>. QED
    BY <2>1, <2>2, <1>1, <1>2, <1>4
<1>. HIDE DEF c
<1>7. all \in Seq(CheckpointNames) /\ all[Len(a) + 4] = "target-instantiation" /\ Len(a) + 4 \in DOMAIN all
  <2>1. Len(a) + 4 \in 1 .. Len(a \o b) /\ Len(c) \in Nat
    BY <1>3, <1>4, <1>5, LenProperties
  <2>2. all \in Seq(CheckpointNames) /\ Len(all) = Len(a \o b) + Len(c)
    BY <1>4, <1>5, ConcatProperties
  <2>3. all[Len(a) + 4] = (a \o b)[Len(a) + 4]
    BY <1>4, <1>5, <2>1, ConcatProperties
  <2>4. DOMAIN all = 1 .. Len(all) /\ Len(a \o b) \in Nat
    BY <1>4, <2>2, LenProperties
  <2>. QED
    BY <1>4, <2>1, <2>2, <2>3, <2>4
<1>. HIDE DEF all
<1>8. "target-instantiation" \in ToSet(all)
  BY <1>7 DEF ToSet
<1>. QED
  BY <1>6, <1>7, <1>8

\* Only the first of the IPS transfers creates the image.
LEMMA OneImage ==
    ASSUME NEW m \in Manifests
    PROVE  /\ ImageActions(m) \in Seq({"dir", "create", "use_existing"})
           /\ Cardinality({i \in DOMAIN ImageActions(m) : ImageActions(m)[i] = "create"}) <= 1
<1>. DEFINE n == Len(m.sw)
            C == {i \in DOMAIN ImageActions(m) : ImageActions(m)[i] = "create"}
<1>1. n \in Nat /\ DOMAIN m.sw = 1 .. n
  BY NamesOfTransfers
<1>2. /\ DOMAIN ImageActions(m) = 1 .. n
      /\ \A i \in 1 .. n : ImageActions(m)[i] =
            IF m.sw[i].type # "IPS" THEN "dir"
            ELSE IF \E j \in 1 .. i - 1 : m.sw[j].type = "IPS" THEN "use_existing"
            ELSE "create"
  BY <1>1 DEF ImageActions
<1>3. ImageActions(m) \in Seq({"dir", "create", "use_existing"})
  <2>1. ImageActions(m) = [i \in 1 .. n |-> ImageActions(m)[i]]
    BY <1>1 DEF ImageActions
  <2>2. \A i \in 1 .. n : ImageActions(m)[i] \in {"dir", "create", "use_existing"}
    BY <1>2
  <2>. HIDE DEF n
  <2>. QED
    BY <2>1, <2>2, <1>1
<1>4. \A i, j \in C : i = j
  <2>1. SUFFICES ASSUME NEW i \in C, NEW j \in C, i < j PROVE FALSE
    BY <1>1, <1>2
  <2>2. i \in 1 .. n /\ j \in 1 .. n /\ i \in 1 .. j - 1
    BY <2>1, <1>1, <1>2
  <2>3. m.sw[i].type = "IPS" /\ ~\E k \in 1 .. j - 1 : m.sw[k].type = "IPS"
    BY <2>2, <1>2
  <2>. QED
    BY <2>2, <2>3
<1>5. Cardinality(C) <= 1
  <2>. HIDE DEF C
  <2>1. CASE C = {}
    BY <2>1, FS_EmptySet
  <2>2. CASE C # {}
    <3>1. PICK x \in C : TRUE
      BY <2>2
    <3>2. C = {x}
      BY <3>1, <1>4
    <3>. QED
      BY <3>2, FS_Singleton
  <2>. QED
    BY <2>1, <2>2
<1>. QED
  BY <1>3, <1>5

\* Moving the first element of one sequence to the end of the one before it.
LEMMA MoveOne ==
    ASSUME NEW S, NEW d \in Seq(S), NEW t \in Seq(S), t # <<>>
    PROVE  /\ Append(d, Head(t)) \in Seq(S) /\ Tail(t) \in Seq(S) /\ Head(t) \in S
           /\ Append(d, Head(t)) \o Tail(t) = d \o t
           /\ ToSet(Append(d, Head(t))) = ToSet(d) \cup {Head(t)}
<1>. DEFINE h == Head(t)
            r == Tail(t)
            e == Append(d, h)
<1>1. h \in S /\ r \in Seq(S) /\ e \in Seq(S) /\ Len(d) \in Nat /\ Len(t) \in Nat
  OBVIOUS
<1>2. /\ Len(r) = Len(t) - 1 /\ Len(t) >= 1 /\ t[1] = h
      /\ \A i \in 1 .. Len(t) - 1 : r[i] = t[i + 1]
      /\ Len(e) = Len(d) + 1 /\ e[Len(d) + 1] = h
      /\ \A i \in 1 .. Len(d) : e[i] = d[i]
  <2>1. t \in Seq(S) /\ t # <<>>
    OBVIOUS
  <2>. QED
    BY <2>1, HeadTailProperties, AppendProperties
<1>. HIDE DEF h, r, e
<1>3. /\ e \o r \in Seq(S) /\ Len(e \o r) = Len(d) + Len(t)
      /\ \A i \in 1 .. Len(d) + Len(t) :
            (e \o r)[i] = IF i <= Len(d) + 1 THEN e[i] ELSE r[i - (Len(d) + 1)]
  <2>1. Len(e) + Len(r) = Len(d) + Len(t) /\ Len(e) = Len(d) + 1
    BY <1>1, <1>2
  <2>2. /\ e \o r \in Seq(S) /\ Len(e \o r) = Len(e) + Len(r)
        /\ \A i \in 1 .. Len(e) + Len(r) :
              (e \o r)[i] = IF i <= Len(e) THEN e[i] ELSE r[i - Len(e)]
    BY <1>1, ConcatProperties
  <2>. QED
    BY <2>1, <2>2
<1>4. /\ d \o t \in Seq(S) /\ Len(d \o t) = Len(d) + Len(t)
      /\ \A i \in 1 .. Len(d) + Len(t) :
            (d \o t)[i] = IF i <= Len(d) THEN d[i] ELSE t[i - Len(d)]
  BY ConcatProperties
<1>5. ASSUME NEW i \in 1 .. Len(d) + Len(t) PROVE (e \o r)[i] = (d \o t)[i]
  <2>1. CASE i <= Len(d)
    BY <1>1, <1>2, <1>3, <1>4, <2>1
  <2>2. CASE i = Len(d) + 1
    BY <1>1, <1>2, <1>3, <1>4, <2>2
  <2>3. CASE i > Len(d) + 1
    <3>1. i - (Len(d) + 1) \in 1 .. Len(t) - 1 /\ (i - (Len(d) + 1)) + 1 = i - Len(d)
      BY <1>1, <2>3
    <3>2. (e \o r)[i] = r[i - (Len(d) + 1)] /\ (d \o t)[i] = t[i - Len(d)]
      BY <1>1, <1>3, <1>4, <2>3
    <3>. QED
      BY <1>2, <3>1, <3>2
  <2>4. i \in Nat /\ (i <= Len(d) \/ i = Len(d) + 1 \/ i > Len(d) + 1)
    BY <1>1
  <2>. QED
    BY <2>1, <2>2, <2>3, <2>4
<1>6. e \o r = d \o t
  BY <1>1, <1>3, <1>4, <1>5, SeqEqual
<1>7. ToSet(e) = ToSet(d) \cup {h}
  <2>1. DOMAIN e = 1 .. Len(d) + 1 /\ DOMAIN d = 1 .. Len(d)
    BY <1>1, <1>2
  <2>2. ToSet(e) = {e[i] : i \in 1 .. Len(d) + 1} /\ ToSet(d) = {d[i] : i \in 1 .. Len(d)}
    BY <2>1 DEF ToSet
  <2>3. \A i \in 1 .. Len(d) + 1 : i \in 1 .. Len(d) \/ i = Len(d) + 1
    BY <1>1
  <2>4. \A i \in 1 .. Len(d) : i \in 1 .. Len(d) + 1
    BY <1>1
  <2>5. Len(d) + 1 \in 1 .. Len(d) + 1
    BY <1>1
  <2>. QED
    BY <1>2, <2>2, <2>3, <2>4, <2>5
<1>. QED
  BY <1>1, <1>6, <1>7 DEF h, r, e

\* What __cleanup_before_exit() leaves as it was, and the code that says so.
CleanedUp(p, code, r) ==
    /\ r \in AITypes /\ r.pc = "exit" /\ r.code \in {code, 1}
    /\ r.opt = p.opt /\ r.m = p.m /\ r.stop = p.stop /\ r.todo = p.todo
    /\ r.done = p.done /\ r.log = p.log /\ r.phase = p.phase /\ r.images = p.images
    /\ r.code = 64 /\ ~p.opt.list /\ p.stop \notin BeforeTI /\ p.be = "mounted" =>
          r.be = "unmounted"
LEMMA CleanupLeaves ==
    ASSUME NEW p \in AITypes, NEW code \in {0, 1, 64}, NEW unmounts \in BOOLEAN
    PROVE  CleanedUp(p, code, CleanupBeforeExit(p, code, unmounts))
<1>. DEFINE tries == /\ ~p.opt.list /\ code # 1 /\ p.stop \notin BeforeTI /\ p.be = "mounted"
            r == CleanupBeforeExit(p, code, unmounts)
            b == IF tries /\ unmounts THEN "unmounted" ELSE p.be
            c == IF tries /\ ~unmounts THEN 1 ELSE code
<1>1. r = [p EXCEPT !.pc = "exit", !.be = b, !.code = c]
  BY DEF CleanupBeforeExit, AITypes
<1>2. b \in {"none", "mounted", "unmounted"} /\ c \in {0, 1, 64} /\ c \in {code, 1}
  BY DEF AITypes
<1>3. c = 64 /\ ~p.opt.list /\ p.stop \notin BeforeTI /\ p.be = "mounted" => b = "unmounted"
  OBVIOUS
<1>. HIDE DEF r, b, c
<1>4. r \in AITypes
  BY ZenonT(120), <1>1, <1>2 DEF AITypes
<1>5. /\ r.pc = "exit" /\ r.code = c /\ r.be = b
      /\ r.opt = p.opt /\ r.m = p.m /\ r.stop = p.stop /\ r.todo = p.todo
      /\ r.done = p.done /\ r.log = p.log /\ r.phase = p.phase /\ r.images = p.images
  BY <1>1, <1>2 DEF AITypes
<1>6. CleanedUp(p, code, r)
  BY <1>2, <1>3, <1>4, <1>5 DEF CleanedUp
<1>. QED
  BY <1>6 DEF r

\* A checkpoint of either execution, run or failed (execute_checkpoints).
LEMMA RunCheckpointKeeps ==
    ASSUME ai \in AITypes, AIInv(ai), NEW ok \in BOOLEAN, NEW s \in Scripts,
           NEW derived \in Manifests, RunCheckpoint(ok, s, derived)
    PROVE  ai' \in AITypes /\ AIInv(ai') /\ ai'.pc \in {"run", "exit"} /\ ai'.opt = ai.opt
<1>. DEFINE c == Head(ai.todo)
            derives == ai.phase = "manifest" /\ c = "derived-manifest"
            m == IF derives THEN derived ELSE ai.m
            be == IF c = "target-instantiation" /\ ~ai.opt.dry THEN "mounted" ELSE ai.be
<1>1. /\ ai.pc = "run" /\ ai.todo # <<>> /\ ai.todo \in Seq(CheckpointNames)
      /\ ai.done \in Seq(CheckpointNames)
  BY DEF RunCheckpoint, AITypes
<1>2. CASE ai' = CleanupBeforeExit(ai, 1, TRUE)
  <2>1. CleanedUp(ai, 1, ai')
    BY <1>2, CleanupLeaves
  <2>. QED
    BY <2>1 DEF CleanedUp, AIInv
<1>3. CASE ai' = [ai EXCEPT !.todo = Tail(@), !.done = Append(@, c), !.m = m, !.be = be]
  <2>1. /\ Append(ai.done, c) \in Seq(CheckpointNames) /\ Tail(ai.todo) \in Seq(CheckpointNames)
        /\ Append(ai.done, c) \o Tail(ai.todo) = ai.done \o ai.todo
        /\ ToSet(Append(ai.done, c)) = ToSet(ai.done) \cup {c}
    <3>1. \A d, t \in Seq(CheckpointNames) : t # <<>> =>
             /\ Append(d, Head(t)) \in Seq(CheckpointNames)
             /\ Tail(t) \in Seq(CheckpointNames)
             /\ Append(d, Head(t)) \o Tail(t) = d \o t
             /\ ToSet(Append(d, Head(t))) = ToSet(d) \cup {Head(t)}
      BY MoveOne
    <3>. QED
      BY <1>1, <3>1
  <2>2. m \in Manifests /\ be \in {"none", "mounted", "unmounted"}
    BY <1>1 DEF AIInv, AITypes
  <2>3. c = "target-instantiation" /\ ~ai.opt.dry => be = "mounted"
    OBVIOUS
  <2>4. ai.be = "mounted" => be = "mounted"
    OBVIOUS
  <2>5. ai.phase = "install" => m = ai.m
    OBVIOUS
  <2>. HIDE DEF c, m, be
  <2>6. /\ ai'.pc = "run" /\ ai'.opt = ai.opt /\ ai'.m = m /\ ai'.stop = ai.stop
        /\ ai'.todo = Tail(ai.todo) /\ ai'.done = Append(ai.done, c) /\ ai'.be = be
        /\ ai'.code = ai.code /\ ai'.phase = ai.phase /\ ai'.images = ai.images
    BY <1>1, <1>3 DEF AITypes
  <2>7. ai' \in AITypes
    BY <1>3, <2>1, <2>2 DEF AITypes
  <2>8. Executing(ai) => (ai.phase = "install" => Executing(ai'))
    BY <2>1, <2>3, <2>4, <2>5, <2>6 DEF Executing
  <2>9. AIInv(ai')
    BY <1>1, <2>2, <2>5, <2>6, <2>8 DEF AIInv
  <2>. QED
    BY <2>6, <2>7, <2>9
<1>. QED
  BY <1>2, <1>3 DEF RunCheckpoint

\* The end of the first execution: either the installer is about to exit, or
\* it has everything before it (perform_autoinstall).
LEMMA ConfigureKeeps ==
    ASSUME ai \in AITypes, AIInv(ai), NEW errors \in BOOLEAN, NEW can \in BOOLEAN,
           NEW unmounts \in BOOLEAN, Configure(errors, can, unmounts)
    PROVE  ai' \in AITypes /\ AIInv(ai') /\ ai'.pc \in {"run", "exit"} /\ ai'.opt = ai.opt
<1>. DEFINE o == ai.opt
            stop == StopAt(o, ai.m)
            ready == [ai EXCEPT !.stop = stop, !.phase = "install", !.done = <<>>,
                                !.todo = Registered(o, ai.m), !.images = ImageActions(ai.m)]
<1>1. /\ ai.pc = "run" /\ ai.phase = "manifest" /\ ai.m \in Manifests /\ ai.code = 99
      /\ o \in Options \cup {ServiceOptions}
  BY DEF Configure, AIInv
<1>2. /\ Registered(o, ai.m) \in Seq(CheckpointNames)
      /\ ImageActions(ai.m) \in Seq({"dir", "create", "use_existing"})
  BY <1>1, NamesRegistered, OneImage
<1>3. stop \in StopNames
  <2>1. CASE o.stop = "first-transfer" /\ ai.m.sw # <<>>
    <3>1. Names(ai.m) \in Seq(CheckpointNames) /\ Names(ai.m)[1] \in CheckpointNames
      <4>1. Names(ai.m) \in Seq(CheckpointNames) /\ DOMAIN Names(ai.m) = DOMAIN ai.m.sw
        BY <1>1, NamesOfTransfers DEF Names
      <4>2. 1 \in DOMAIN ai.m.sw
        BY <1>1, <2>1, AIClientAssumption
      <4>. QED
        BY <4>1, <4>2
    <3>. QED
      BY <2>1, <3>1 DEF StopAt, StopNames
  <2>2. CASE ~(o.stop = "first-transfer" /\ ai.m.sw # <<>>)
    BY <1>1, <2>2 DEF StopAt, StopNames, ServiceOptions
  <2>. QED
    BY <2>1, <2>2
<1>. HIDE DEF stop
<1>4. ready \in AITypes
  <2>1. <<>> \in Seq(CheckpointNames)
    OBVIOUS
  <2>. QED
    BY <1>2, <1>3, <2>1 DEF AITypes
<1>5. /\ ready.pc = "run" /\ ready.opt = o /\ ready.m = ai.m /\ ready.stop = stop
      /\ ready.phase = "install" /\ ready.done = <<>> /\ ready.todo = Registered(o, ai.m)
      /\ ready.images = ImageActions(ai.m) /\ ready.code = 99
  BY <1>1 DEF AITypes
<1>6. CASE ai' = ready /\ ~o.list
  <2>1. ready.done \o ready.todo = Registered(o, ai.m) /\ ToSet(ready.done) = {}
    <3>1. <<>> \o Registered(o, ai.m) = Registered(o, ai.m)
      BY <1>2, ConcatEmptySeq
    <3>2. ToSet(<<>>) = {}
      BY DEF ToSet
    <3>. QED
      BY <1>5, <3>1, <3>2
  <2>. HIDE DEF ready
  <2>2. Executing(ready)
    BY <1>5, <1>6, <2>1 DEF Executing, stop
  <2>3. AIInv(ready)
    BY <1>1, <1>5, <2>2 DEF AIInv
  <2>. QED
    BY <1>4, <1>5, <1>6, <2>3
<1>7. ASSUME NEW code \in {0, 1}, ai' = CleanupBeforeExit(ai, code, unmounts)
      PROVE  ai' \in AITypes /\ AIInv(ai') /\ ai'.pc \in {"run", "exit"} /\ ai'.opt = ai.opt
  <2>1. CleanedUp(ai, code, ai')
    BY <1>7, CleanupLeaves
  <2>. QED
    BY <1>1, <2>1 DEF CleanedUp, AIInv
<1>8. ASSUME NEW code \in {0, 1}, ai' = CleanupBeforeExit(ready, code, unmounts),
             code = 0 => o.list
      PROVE  ai' \in AITypes /\ AIInv(ai') /\ ai'.pc \in {"run", "exit"} /\ ai'.opt = ai.opt
  <2>. HIDE DEF ready
  <2>1. CleanedUp(ready, code, ai')
    BY <1>4, <1>8, CleanupLeaves
  <2>. QED
    BY <1>1, <1>5, <1>8, <2>1 DEF CleanedUp, AIInv
<1>9. \/ ai' = ready /\ ~o.list
      \/ \E code \in {0, 1} : ai' = CleanupBeforeExit(ai, code, unmounts)
      \/ \E code \in {0, 1} : ai' = CleanupBeforeExit(ready, code, unmounts) /\ (code = 0 => o.list)
  <2>. DEFINE early == ai.stop \in ToSet(ManifestCheckpoints)
              unknown == stop # "none" /\ stop \notin ToSet(Registered(o, ai.m))
  <2>1. ai' = IF early \/ (~errors /\ ai.stop = "target-discovery")
                 THEN CleanupBeforeExit(ai, 0, unmounts)
                 ELSE IF errors THEN CleanupBeforeExit(ai, 1, unmounts)
                 ELSE IF ConfigureFails(ai.done, o, ai.m) \/ unknown
                 THEN CleanupBeforeExit(ready, 1, unmounts)
                 ELSE IF o.list THEN CleanupBeforeExit(ready, 0, unmounts)
                 ELSE IF ImportFails(ai.m, can) THEN CleanupBeforeExit(ready, 1, unmounts)
                 ELSE ready
    BY DEF Configure, stop
  <2>. HIDE DEF ready, early, unknown, o
  <2>. QED
    BY <2>1
<1>. QED
  <2>. HIDE DEF ready
  <2>. QED
    BY <1>6, <1>7, <1>8, <1>9

\* The end of the second execution: an installer of the service with the code
\* for a reboot has done everything, and has put its log into the boot
\* environment before it unmounted that (perform_autoinstall).
LEMMA ConcludeKeeps ==
    ASSUME ai \in AITypes, AIInv(ai), NEW unmounts \in BOOLEAN, Conclude(unmounts)
    PROVE  ai' \in AITypes /\ AIInv(ai') /\ ai'.pc \in {"run", "exit"} /\ ai'.opt = ai.opt
<1>. DEFINE code == IF ai.m.reboot /\ ~ai.opt.zone THEN 64 ELSE 0
            log == IF ai.be = "mounted" THEN "be" ELSE "elsewhere"
            logged == [ai EXCEPT !.log = log]
<1>1. /\ ai.pc = "run" /\ ai.phase = "install" /\ ai.m \in Manifests /\ Executing(ai)
      /\ ai.todo # <<>> => Head(ai.todo) = ai.stop
      /\ ai.todo \in Seq(CheckpointNames) /\ ai.done \in Seq(CheckpointNames)
  BY DEF Conclude, AIInv, AITypes
<1>2. Truthful(ai)
  BY <1>1 DEF Truthful, Executing
<1>3. CASE ai' = CleanupBeforeExit(ai, 0, unmounts)
  <2>1. CleanedUp(ai, 0, ai')
    BY <1>3, CleanupLeaves
  <2>2. Truthful(ai')
    BY <1>2, <2>1 DEF CleanedUp, Truthful
  <2>. QED
    BY <1>1, <2>1, <2>2 DEF CleanedUp, AIInv
<1>4. CASE ai' = CleanupBeforeExit(logged, code, unmounts)
  <2>1. log \in {"ram", "be", "elsewhere"} /\ code \in {0, 1, 64} /\ code # 1
    OBVIOUS
  <2>2. code = 64 => ai.m.reboot
    OBVIOUS
  <2>3. ai.be = "mounted" => log = "be"
    OBVIOUS
  <2>. HIDE DEF log, code
  <2>4. /\ logged \in AITypes /\ logged.opt = ai.opt /\ logged.m = ai.m /\ logged.stop = ai.stop
        /\ logged.todo = ai.todo /\ logged.done = ai.done /\ logged.log = log
        /\ logged.phase = ai.phase /\ logged.images = ai.images /\ logged.be = ai.be
    BY <2>1 DEF AITypes
  <2>. HIDE DEF logged
  <2>5. CleanedUp(logged, code, ai')
    BY <1>4, <2>1, <2>4, CleanupLeaves
  <2>6. Truthful(ai')
    BY <1>2, <2>4, <2>5 DEF CleanedUp, Truthful
  <2>7. ASSUME ai'.code = 64, ai'.opt = ServiceOptions PROVE Complete(ai')
    <3>1. ai.opt = ServiceOptions /\ code = 64
      BY <2>1, <2>4, <2>5, <2>7 DEF CleanedUp
    <3>2. ai.stop = "none"
      BY <1>1, <3>1 DEF Executing, StopAt, ServiceOptions
    <3>3. ai.todo = <<>>
      <4>1. SUFFICES ASSUME ai.todo # <<>> PROVE FALSE
        OBVIOUS
      <4>2. Head(ai.todo) \in CheckpointNames /\ Head(ai.todo) = "none"
        BY <1>1, <3>2, <4>1
      <4>. QED
        BY <4>2, NamesAreNames
    <3>4. ai.done = Registered(ai.opt, ai.m)
      <4>1. ai.done \o <<>> = ai.done
        BY <1>1, ConcatEmptySeq
      <4>. QED
        BY <1>1, <3>3, <4>1 DEF Executing
    <3>5. ai.be = "mounted"
      BY <1>1, <3>1, <3>4, NamesRegistered DEF Executing, ServiceOptions
    <3>6. "none" \notin BeforeTI
      BY DEF BeforeTI, ManifestCheckpoints, ToSet
    <3>. QED
      BY <2>2, <2>3, <2>4, <2>5, <2>7, <3>1, <3>2, <3>3, <3>5, <3>6
         DEF CleanedUp, Complete, ServiceOptions
  <2>. QED
    BY <1>1, <2>4, <2>5, <2>6, <2>7 DEF CleanedUp, AIInv
<1>. QED
  BY <1>3, <1>4 DEF Conclude, Finish, TransferLog

LEMMA EngineRaisesKeeps ==
    ASSUME ai \in AITypes, AIInv(ai), EngineRaises
    PROVE  ai' \in AITypes /\ AIInv(ai') /\ ai'.pc \in {"run", "exit"} /\ ai'.opt = ai.opt
<1>1. /\ ai' = [ai EXCEPT !.pc = "exit", !.code = 1] /\ ai.pc = "run"
  BY DEF EngineRaises
<1>2. ai' \in AITypes /\ ai'.pc = "exit" /\ ai'.code = 1 /\ ai'.opt = ai.opt
  BY <1>1 DEF AITypes
<1>. QED
  BY <1>2 DEF AIInv

\* An installer that has just been started.
LEMMA Started ==
    ASSUME ai \in AITypes, NEW o \in Options \cup {ServiceOptions}, NEW m \in Manifests,
           ai' = StartInstall(o, m)
    PROVE  ai' \in AITypes /\ AIInv(ai') /\ ai'.pc = "run" /\ ai'.opt = o
<1>1. ManifestList(m) \in Seq(CheckpointNames) /\ <<>> \in Seq(CheckpointNames)
      /\ <<>> \in Seq({"dir", "create", "use_existing"})
  <2>1. "derived-manifest" \in CheckpointNames /\ "manifest-parser" \in CheckpointNames
    BY OwnOnes DEF OwnNames
  <2>. QED
    BY <2>1 DEF ManifestList, ManifestCheckpoints
<1>2. o.stop \in StopNames
  BY DEF StopNames, ServiceOptions
<1>3. ai' \in AITypes
  BY ZenonT(120), <1>1, <1>2 DEF AITypes, StartInstall
<1>4. /\ ai'.pc = "run" /\ ai'.code = 99 /\ ai'.m = m /\ ai'.opt = o /\ ai'.phase = "manifest"
      /\ ai'.stop = o.stop
  BY DEF AITypes, StartInstall
<1>. QED
  BY <1>3, <1>4 DEF AIInv

\* What a server's answer leaves under /system/volatile: the profiles are of
\* that answer, or those that were there.
LEMMA AnswerTaken ==
    ASSUME ClientTypes, NEW a \in Answers, ProfilesOfOneAnswer,
           NEW v, v = [TakeAnswer(vol, a) EXCEPT !.services = @ \/ Obtained(a)]
    PROVE  /\ v \in [manifest : Manifests \cup {NoFile}, from : Nat,
                     profiles : SUBSET [of : Nat, name : Profiles], sci : BOOLEAN,
                     services : BOOLEAN]
           /\ vol.manifest \in Manifests \/ Obtained(a) => v.manifest \in Manifests
           /\ Cardinality({p.of : p \in v.profiles}) <= 1
<1>. DEFINE V == [manifest : Manifests \cup {NoFile}, from : Nat,
                  profiles : SUBSET [of : Nat, name : Profiles], sci : BOOLEAN,
                  services : BOOLEAN]
            P == {[of |-> a.id, name |-> p] : p \in a.written}
<1>1. /\ a.id \in Nat /\ a.manifest \in Manifests /\ a.saved \in BOOLEAN
      /\ a.written \subseteq Profiles /\ a.kind \in {"mime", "old", "compat", "refused", "broken"}
  <2>1. \A i \in 1 .. MaxRuns : i \in Nat
    BY AIClientAssumption
  <2>2. CASE a \in [id : 1 .. MaxRuns, kind : {"mime"}, manifest : Manifests,
                    saved : BOOLEAN, written : SUBSET Profiles]
    BY <2>1, <2>2
  <2>3. CASE a \in [id : 1 .. MaxRuns, kind : {"old", "compat"}, manifest : Manifests,
                    saved : BOOLEAN, written : {{}}]
    BY <2>1, <2>3
  <2>4. CASE a \in [id : 1 .. MaxRuns, kind : {"refused", "broken"}, manifest : Manifests,
                    saved : {FALSE}, written : {{}}]
    BY <2>1, <2>4
  <2>. QED
    BY <2>2, <2>3, <2>4 DEF Answers
<1>2. vol \in V
  BY DEF ClientTypes
<1>. DEFINE w == TakeAnswer(vol, a)
<1>3. /\ w \in V /\ (Obtained(a) => w.manifest \in Manifests)
      /\ (vol.manifest \in Manifests => w.manifest \in Manifests)
      /\ w.profiles = vol.profiles \/ w.profiles = P
  <2>1. P \in SUBSET [of : Nat, name : Profiles]
    BY <1>1
  <2>. DEFINE manifest == IF a.saved THEN a.manifest ELSE vol.manifest
              from == IF a.saved THEN a.id ELSE vol.from
  <2>2. manifest \in Manifests \cup {NoFile} /\ from \in Nat
    BY <1>1, <1>2
  <2>3. CASE a.kind = "mime"
    <3>1. w = [vol EXCEPT !.profiles = {} \cup P, !.manifest = manifest, !.from = from]
      BY <2>3, <1>2 DEF TakeAnswer, HandleMimePayload, CleanupEarlierRun
    <3>2. manifest \in Manifests \/ (manifest = vol.manifest /\ ~a.saved)
      BY <1>1
    <3>3. {} \cup P = P
      OBVIOUS
    <3>. HIDE DEF P, manifest, from, w
    <3>4. w \in V /\ w.manifest = manifest /\ w.profiles = P
      BY <3>1, <3>3, <1>2, <2>1, <2>2
    <3>5. Obtained(a) => manifest \in Manifests
      BY <3>2 DEF Obtained
    <3>. QED
      BY <3>2, <3>4, <3>5
  <2>4. CASE a.kind \in {"old", "compat"} /\ a.saved
    <3>1. w = [vol EXCEPT !.manifest = a.manifest, !.from = a.id]
      BY <2>4 DEF TakeAnswer
    <3>. HIDE DEF w
    <3>. QED
      BY <3>1, <1>1, <1>2
  <2>5. CASE a.kind # "mime" /\ ~(a.kind \in {"old", "compat"} /\ a.saved)
    <3>1. w = vol /\ ~Obtained(a)
      BY <2>5 DEF TakeAnswer, Obtained
    <3>. HIDE DEF w
    <3>. QED
      BY <3>1, <1>2
  <2>. QED
    BY <2>3, <2>4, <2>5
<1>. HIDE DEF w
<1>4. /\ v \in V /\ v.manifest = w.manifest /\ v.profiles = w.profiles
  BY <1>3 DEF w
<1>5. Cardinality({p.of : p \in P}) <= 1
  <2>1. CASE P = {}
    <3>1. {p.of : p \in P} = {}
      BY <2>1
    <3>. QED
      BY <3>1, FS_EmptySet
  <2>2. CASE P # {}
    <3>1. {p.of : p \in P} = {a.id}
      <4>1. \A p \in P : p.of = a.id
        OBVIOUS
      <4>. HIDE DEF P
      <4>. QED
        BY <2>2, <4>1
    <3>2. Cardinality({a.id}) = 1
      BY FS_Singleton
    <3>. HIDE DEF P
    <3>. QED
      BY <3>1, <3>2
  <2>. QED
    BY <2>1, <2>2
<1>6. Cardinality({p.of : p \in v.profiles}) <= 1
  <2>. HIDE DEF P
  <2>1. Cardinality({p.of : p \in vol.profiles}) <= 1
    BY DEF ProfilesOfOneAnswer
  <2>2. v.profiles = vol.profiles \/ v.profiles = P
    BY <1>3, <1>4
  <2>3. CASE v.profiles = vol.profiles
    BY <2>1, <2>3
  <2>4. CASE v.profiles = P
    BY <1>5, <2>4
  <2>. QED
    BY <2>2, <2>3, <2>4
<1>. QED
  BY <1>3, <1>4, <1>6

\* The installer runs or has just ended: nothing else changes.
LEMMA InstallStepKeeps ==
    ASSUME ClientInv, InstallStep
    PROVE  ClientInv'
<1>1. ai \in AITypes /\ AIInv(ai)
  BY DEF ClientInv, ClientTypes
<1>2. ai' \in AITypes /\ AIInv(ai') /\ ai'.pc \in {"run", "exit"} /\ ai'.opt = ai.opt
  <2>1. ASSUME NEW ok \in BOOLEAN, NEW s \in Scripts, NEW d \in {m \in Manifests : ~m.script},
               RunCheckpoint(ok, s, d)
        PROVE  ai' \in AITypes /\ AIInv(ai') /\ ai'.pc \in {"run", "exit"} /\ ai'.opt = ai.opt
    BY <1>1, <2>1, RunCheckpointKeeps
  <2>2. ASSUME NEW errors \in BOOLEAN, NEW can \in BOOLEAN, NEW unmounts \in BOOLEAN,
               Configure(errors, can, unmounts)
        PROVE  ai' \in AITypes /\ AIInv(ai') /\ ai'.pc \in {"run", "exit"} /\ ai'.opt = ai.opt
    BY <1>1, <2>2, ConfigureKeeps
  <2>3. ASSUME NEW unmounts \in BOOLEAN, Conclude(unmounts)
        PROVE  ai' \in AITypes /\ AIInv(ai') /\ ai'.pc \in {"run", "exit"} /\ ai'.opt = ai.opt
    BY <1>1, <2>3, ConcludeKeeps
  <2>4. CASE EngineRaises
    BY <1>1, <2>4, EngineRaisesKeeps
  <2>. QED
    BY <2>1, <2>2, <2>3, <2>4 DEF InstallStep
<1>3. UNCHANGED <<loc, vol, smf>> /\ ai.pc = "run"
  BY DEF InstallStep, RunCheckpoint, Configure, Conclude, EngineRaises
<1>4. ClientTypes'
  BY <1>2, <1>3 DEF ClientInv, ClientTypes
<1>5. ProfilesOfOneAnswer'
  BY <1>3 DEF ClientInv, ProfilesOfOneAnswer
<1>6. smf \in {"running", "by hand"} /\ (smf = "running" => ai.opt = ServiceOptions)
  BY <1>3 DEF ClientInv
<1>. QED
  BY <1>2, <1>3, <1>4, <1>5, <1>6 DEF ClientInv

LEMMA LocatorStepKeeps ==
    ASSUME ClientInv, LocatorStep \/ \E b \in Boots : StartLocator(b)
    PROVE  ClientInv'
<1>. DEFINE L == [at : {"off", "prompt", "media", "discover", "ask", "ok", "fatal"},
                  boot : Boots \cup {NoFile}, runs : Nat,
                  list : Seq({"named", "default", "fallback"}),
                  host : Hosts, sent : {NoFile} \cup {Known(h) : h \in Hosts}]
            V == [manifest : Manifests \cup {NoFile}, from : Nat,
                  profiles : SUBSET [of : Nat, name : Profiles], sci : BOOLEAN,
                  services : BOOLEAN]
<1>1. /\ loc \in L /\ vol \in V /\ loc.sent \in {NoFile, Known(loc.host)}
      /\ loc.at = "ok" => vol.manifest \in Manifests
      /\ Cardinality({p.of : p \in vol.profiles}) <= 1
  BY DEF ClientInv, ClientTypes, ProfilesOfOneAnswer
\* What has to be shown of the locator and the files.
<1>. DEFINE Kept == /\ loc' \in L /\ vol' \in V /\ loc'.sent \in {NoFile, Known(loc'.host)}
                    /\ loc'.at = "ok" => vol'.manifest \in Manifests
                    /\ Cardinality({p.of : p \in vol'.profiles}) <= 1
<1>2. ASSUME Kept, UNCHANGED ai, smf' = smf \/ (smf' = "waiting" /\ ai.pc = "off")
      PROVE  ClientInv'
  <2>1. ClientTypes'
    BY <1>2 DEF ClientInv, ClientTypes
  <2>2. ProfilesOfOneAnswer'
    BY <1>2 DEF ProfilesOfOneAnswer
  <2>3. AIInv(ai')
    BY <1>2 DEF ClientInv
  <2>4. /\ ai'.pc \in {"run", "exit"} => smf' \in {"running", "by hand"}
        /\ smf' = "running" => ai'.pc \in {"run", "exit"} /\ ai'.opt = ServiceOptions
        /\ smf' = "rebooted" => ai'.pc = "over" /\ Complete(ai')
    BY <1>2 DEF ClientInv
  <2>. QED
    BY <1>2, <2>1, <2>2, <2>3, <2>4 DEF ClientInv
<1>3. ASSUME NEW b \in Boots, StartLocator(b)
      PROVE  ClientInv'
  <2>. DEFINE at == IF b.where = "net" THEN "discover" ELSE b.where
  <2>1. at \in {"prompt", "media", "discover"} /\ <<>> \in Seq({"named", "default", "fallback"})
    BY AIClientAssumption
  <2>. HIDE DEF at
  <2>2. loc' = [loc EXCEPT !.at = at, !.boot = b, !.runs = @ + 1, !.list = <<>>]
    BY <1>3 DEF StartLocator, at
  <2>3. loc' \in L /\ loc'.at = at /\ loc'.sent = loc.sent /\ loc'.host = loc.host
    <3>1. loc.runs + 1 \in Nat
      BY <1>1
    <3>2. loc'.at = at /\ loc'.sent = loc.sent /\ loc'.host = loc.host
      BY <1>1, <2>2
    <3>3. loc' \in L
      BY <1>1, <2>1, <2>2, <3>1
    <3>. QED
      BY <3>2, <3>3
  <2>4. UNCHANGED <<vol, ai>> /\ smf' = "waiting" /\ ai.pc = "off"
    BY <1>3 DEF StartLocator
  <2>5. Kept
    <3>. HIDE DEF L, V
    <3>. QED
      BY <1>1, <2>1, <2>3, <2>4
  <2>. HIDE DEF Kept
  <2>. QED
    BY <1>2, <2>4, <2>5
<1>4. ASSUME NEW m \in Manifests, LocalManifest(m)
      PROVE  ClientInv'
  <2>1. /\ vol' = [vol EXCEPT !.manifest = m, !.from = loc.runs]
        /\ loc' = [loc EXCEPT !.at = "ok"] /\ UNCHANGED <<ai, smf>>
    BY <1>4 DEF LocalManifest
  <2>2. loc' \in L /\ loc'.at = "ok" /\ loc'.sent = loc.sent /\ loc'.host = loc.host
    BY <1>1, <2>1
  <2>3. vol' \in V /\ vol'.manifest = m /\ vol'.profiles = vol.profiles
    BY <1>1, <2>1
  <2>4. Kept
    <3>. HIDE DEF L, V
    <3>. QED
      BY <1>1, <2>2, <2>3
  <2>. HIDE DEF Kept
  <2>. QED
    BY <1>2, <2>1, <2>4
<1>5. ASSUME NEW found \in {"named", "default", "none"}, NEW dhcp \in BOOLEAN,
             Discover(found, dhcp)
      PROVE  ClientInv'
  <2>. DEFINE list == IF CanDiscover(loc.boot, dhcp) THEN LookUp(loc.boot, found) ELSE <<>>
              lost == list = <<>> \/ Raises(loc.host)
              at == IF lost THEN "fatal" ELSE "ask"
              sent == IF lost THEN loc.sent ELSE Known(loc.host)
  <2>1. list \in Seq({"named", "default", "fallback"})
    <3>1. /\ <<>> \in Seq({"named", "default", "fallback"})
          /\ <<"named">> \in Seq({"named", "default", "fallback"})
          /\ <<"default">> \in Seq({"named", "default", "fallback"})
          /\ <<"fallback">> \in Seq({"named", "default", "fallback"})
      OBVIOUS
    <3>2. list \in {<<>>, <<"named">>, <<"default">>, <<"fallback">>}
      BY DEF LookUp
    <3>. HIDE DEF list
    <3>. QED
      BY <3>1, <3>2
  <2>2. at \in {"fatal", "ask"} /\ sent \in {NoFile, Known(loc.host)} /\ loc.host \in Hosts
    BY <1>1
  <2>. HIDE DEF list, at, sent
  <2>3. loc' = [loc EXCEPT !.list = list, !.at = at, !.sent = sent]
    BY <1>5, <1>1 DEF Discover, list, at, sent
  <2>4. UNCHANGED <<vol, ai, smf>>
    BY <1>5 DEF Discover
  <2>5. loc' \in L /\ loc'.at = at /\ loc'.sent = sent /\ loc'.host = loc.host
    BY <1>1, <2>1, <2>2, <2>3
  <2>6. Kept
    <3>. HIDE DEF L, V
    <3>. QED
      BY <1>1, <2>2, <2>4, <2>5
  <2>. HIDE DEF Kept
  <2>. QED
    BY <1>2, <2>4, <2>6
<1>6. ASSUME NEW a \in Answers, AskService(a)
      PROVE  ClientInv'
  <2>. DEFINE at == IF Obtained(a) THEN "ok"
                    ELSE IF GivesUp(a) \/ Tail(loc.list) = <<>> THEN "fatal" ELSE "ask"
  <2>1. at \in {"ok", "fatal", "ask"} /\ (at = "ok" => Obtained(a))
    OBVIOUS
  <2>2. Tail(loc.list) \in Seq({"named", "default", "fallback"})
    BY <1>1, <1>6 DEF AskService
  <2>. HIDE DEF at
  <2>3. /\ vol' = [TakeAnswer(vol, a) EXCEPT !.services = @ \/ Obtained(a)]
        /\ loc' = [loc EXCEPT !.list = Tail(@), !.at = at] /\ UNCHANGED <<ai, smf>>
    BY <1>6 DEF AskService, at
  <2>4. loc' \in L /\ loc'.at = at /\ loc'.sent = loc.sent /\ loc'.host = loc.host
    BY <1>1, <2>1, <2>2, <2>3
  <2>5. /\ vol' \in V /\ (Obtained(a) => vol'.manifest \in Manifests)
        /\ Cardinality({p.of : p \in vol'.profiles}) <= 1
    BY <2>3, AnswerTaken DEF ClientInv
  <2>6. Kept
    <3>. HIDE DEF L, V
    <3>. QED
      BY <1>1, <2>1, <2>4, <2>5
  <2>. HIDE DEF Kept
  <2>. QED
    BY <1>2, <2>3, <2>6
<1>. QED
  BY <1>3, <1>4, <1>5, <1>6 DEF LocatorStep

LEMMA ServiceStepKeeps ==
    ASSUME ClientInv, ServiceStep \/ \E o \in Options : StartByHand(o)
    PROVE  ClientInv'
<1>1. /\ ClientTypes /\ AIInv(ai) /\ ai \in AITypes /\ loc.sent \in {NoFile, Known(loc.host)}
      /\ loc.at = "ok" => vol.manifest \in Manifests
      /\ ai.pc \in {"run", "exit"} => smf \in {"running", "by hand"}
      /\ smf = "running" => ai.pc \in {"run", "exit"} /\ ai.opt = ServiceOptions
  BY DEF ClientInv, ClientTypes
<1>2. CASE StartService /\ vol.manifest = NoFile
  <2>1. smf' = "maintenance" /\ UNCHANGED <<vol, ai, loc>> /\ ai.pc = "off"
    BY <1>2 DEF StartService
  <2>2. ClientTypes' /\ ProfilesOfOneAnswer'
    BY <1>1, <2>1 DEF ClientTypes, ClientInv, ProfilesOfOneAnswer
  <2>. QED
    BY <1>1, <2>1, <2>2 DEF ClientInv
<1>3. CASE StartService /\ vol.manifest # NoFile
  <2>1. /\ vol' = [vol EXCEPT !.sci = @ \/ vol.profiles = {}] /\ UNCHANGED loc
        /\ ai' = StartInstall(ServiceOptions, vol.manifest) /\ smf' = "running"
        /\ vol.manifest \in Manifests
    BY <1>1, <1>3 DEF StartService
  <2>2. ai' \in AITypes /\ AIInv(ai') /\ ai'.pc = "run" /\ ai'.opt = ServiceOptions
    BY <1>1, <2>1, Started
  <2>3. /\ vol' \in [manifest : Manifests \cup {NoFile}, from : Nat,
                     profiles : SUBSET [of : Nat, name : Profiles], sci : BOOLEAN,
                     services : BOOLEAN]
        /\ vol'.profiles = vol.profiles /\ vol'.manifest = vol.manifest
    BY <1>1, <2>1 DEF ClientTypes
  <2>4. ClientTypes'
    BY <1>1, <2>1, <2>2, <2>3 DEF ClientTypes
  <2>5. ProfilesOfOneAnswer'
    BY <2>3 DEF ClientInv, ProfilesOfOneAnswer
  <2>. QED
    BY <1>1, <2>1, <2>2, <2>3, <2>4, <2>5 DEF ClientInv
<1>4. ASSUME NEW o \in Options, StartByHand(o)
      PROVE  ClientInv'
  <2>1. /\ UNCHANGED <<loc, vol>> /\ ai' = StartInstall(o, vol.manifest) /\ smf' = "by hand"
        /\ vol.manifest \in Manifests
    BY <1>1, <1>4 DEF StartByHand
  <2>2. ai' \in AITypes /\ AIInv(ai') /\ ai'.pc = "run"
    BY <1>1, <2>1, Started
  <2>3. ClientTypes' /\ ProfilesOfOneAnswer'
    BY <1>1, <2>1, <2>2 DEF ClientTypes, ClientInv, ProfilesOfOneAnswer
  <2>. QED
    BY <1>1, <2>1, <2>2, <2>3 DEF ClientInv
<1>5. CASE ServiceEnds
  <2>. DEFINE pc == IF smf' = "maintenance" THEN "off" ELSE "over"
  <2>1. /\ ai.pc = "exit" /\ ai' = [ai EXCEPT !.pc = pc] /\ UNCHANGED <<loc, vol>>
        /\ smf' = IF smf = "by hand" THEN "shell"
              ELSE IF ai.code = 0 THEN "online"
              ELSE IF ai.code = 64 THEN "rebooted" ELSE "maintenance"
    BY <1>5 DEF ServiceEnds
  <2>2. /\ ai' \in AITypes /\ ai'.pc = pc /\ ai'.todo = ai.todo /\ ai'.log = ai.log
        /\ ai'.be = ai.be /\ ai'.m = ai.m
    BY ZenonT(120), <1>1, <2>1 DEF AITypes
  <2>3. smf' \in {"shell", "online", "rebooted", "maintenance"}
    BY <2>1
  <2>4. ClientTypes' /\ ProfilesOfOneAnswer'
    BY <1>1, <2>1, <2>2, <2>3 DEF ClientTypes, ClientInv, ProfilesOfOneAnswer
  <2>5. ASSUME smf' = "rebooted" PROVE ai'.pc = "over" /\ Complete(ai')
    <3>1. smf = "running" /\ ai.code = 64 /\ ai.opt = ServiceOptions
      BY <1>1, <2>1, <2>5
    <3>2. Complete(ai)
      BY <1>1, <2>1, <3>1 DEF AIInv
    <3>. QED
      BY <2>2, <2>5, <3>2 DEF Complete
  <2>6. AIInv(ai') /\ ai'.pc \notin {"run", "exit"}
    BY <2>2 DEF AIInv
  <2>7. loc'.sent \in {NoFile, Known(loc'.host)} /\ (loc'.at = "ok" => vol'.manifest \in Manifests)
    BY <1>1, <2>1
  <2>8. smf' # "running"
    BY <2>3
  <2>. HIDE DEF pc
  <2>. QED
    BY <2>4, <2>5, <2>6, <2>7, <2>8 DEF ClientInv
<1>. QED
  BY <1>2, <1>3, <1>4, <1>5 DEF ServiceStep

\* The prefix of a network mask, and the address without the bits past it.
LEMMA NetworkNamed ==
    ASSUME NEW h \in Hosts, h.iface = "v4"
    PROVE  LET n == CriteriaNetwork(h)["network"]
           IN  n.net = {b \in h.ip : b >= W - n.bits}
<1>1. W \in Nat /\ h.ip \subseteq 0 .. W - 1
  BY AIClientAssumption
<1>2. PICK low \in 0 .. W : h.mask = low .. W - 1
  BY AIClientAssumption
<1>3. MaskBits(h.mask) = W - low
  <2>1. CASE low = W
    BY <1>1, <1>2, <2>1 DEF MaskBits
  <2>2. CASE low # W
    <3>1. low \in h.mask /\ \A o \in h.mask : low <= o
      BY <1>1, <1>2, <2>2
    <3>2. LowestBit(h.mask) \in h.mask /\ \A o \in h.mask : LowestBit(h.mask) <= o
      BY <3>1 DEF LowestBit
    <3>3. LowestBit(h.mask) = low
      <4>1. LowestBit(h.mask) <= low /\ low <= LowestBit(h.mask)
        BY <3>1, <3>2
      <4>2. low \in Int /\ \A b \in h.mask : b \in Int
        BY <1>1, <1>2
      <4>. HIDE DEF LowestBit
      <4>. QED
        BY <3>2, <4>1, <4>2
    <3>. QED
      BY <3>1, <3>3 DEF MaskBits
  <2>. QED
    BY <2>1, <2>2
<1>4. h.ip \cap h.mask = {b \in h.ip : b >= low}
  BY <1>1, <1>2
<1>5. CriteriaNetwork(h)["network"] = [net |-> h.ip \cap h.mask, bits |-> W - low]
  BY <1>3 DEF CriteriaNetwork
<1>6. W - (W - low) = low
  BY <1>1, <1>2
<1>. QED
  BY <1>4, <1>5, <1>6

\* The network a client names is its own, an installer that says it succeeded
\* has done what it was asked to, a machine that reboots has a complete system,
\* and its profiles are of one answer.
THEOREM ClientIsSound == ClientSpec => []ClientSound
<1>1. ClientInit => ClientInv
  <2>. SUFFICES ASSUME ClientInit PROVE ClientInv
    OBVIOUS
  <2>1. PICK h \in Hosts : loc = [at |-> "off", boot |-> NoFile, runs |-> 0, list |-> <<>>,
                                  host |-> h, sent |-> NoFile]
    BY DEF ClientInit
  <2>2. /\ vol = [manifest |-> NoFile, from |-> 0, profiles |-> {}, sci |-> FALSE,
                  services |-> FALSE]
        /\ ai = Idle /\ smf = "off"
    BY DEF ClientInit
  <2>3. ai \in AITypes /\ ai.pc = "off"
    <3>1. <<>> \in Seq(CheckpointNames) /\ <<>> \in Seq({"dir", "create", "use_existing"})
      OBVIOUS
    <3>2. "none" \in StopNames
      BY DEF StopNames
    <3>. QED
      BY <2>2, <3>1, <3>2 DEF AITypes, Idle
  <2>4. <<>> \in Seq({"named", "default", "fallback"})
    OBVIOUS
  <2>5. ClientTypes
    BY <2>1, <2>2, <2>3, <2>4 DEF ClientTypes
  <2>6. ProfilesOfOneAnswer
    <3>1. {p.of : p \in vol.profiles} = {}
      BY <2>2
    <3>. QED
      BY <3>1, FS_EmptySet DEF ProfilesOfOneAnswer
  <2>7. AIInv(ai)
    BY <2>3 DEF AIInv
  <2>. QED
    BY <2>1, <2>2, <2>3, <2>5, <2>6, <2>7 DEF ClientInv
<1>2. ClientInv /\ [ClientNext]_clientVars => ClientInv'
  <2>. SUFFICES ASSUME ClientInv, [ClientNext]_clientVars PROVE ClientInv'
    OBVIOUS
  <2>1. CASE InstallStep
    BY <2>1, InstallStepKeeps
  <2>2. CASE LocatorStep \/ \E b \in Boots : StartLocator(b)
    BY <2>2, LocatorStepKeeps
  <2>3. CASE ServiceStep \/ \E o \in Options : StartByHand(o)
    BY <2>3, ServiceStepKeeps
  <2>4. CASE UNCHANGED clientVars
    <3>1. loc' = loc /\ vol' = vol /\ ai' = ai /\ smf' = smf
      BY <2>4 DEF clientVars
    <3>2. ClientTypes' /\ ProfilesOfOneAnswer'
      BY ZenonT(120), <3>1 DEF ClientInv, ClientTypes, ProfilesOfOneAnswer
    <3>. QED
      BY <3>1, <3>2 DEF ClientInv
  <2>. QED
    BY <2>1, <2>2, <2>3, <2>4 DEF ClientNext
<1>3. ClientInv => ClientSound
  <2>. SUFFICES ASSUME ClientInv PROVE ClientSound
    OBVIOUS
  <2>1. NetworkOfClient
    <3>. SUFFICES ASSUME loc.sent # NoFile, loc.host.iface = "v4"
                  PROVE  LET n == loc.sent.network["network"]
                         IN  n.net = {b \in loc.host.ip : b >= W - n.bits}
      BY DEF NetworkOfClient
    <3>1. loc.host \in Hosts /\ loc.sent = Known(loc.host)
      BY DEF ClientInv, ClientTypes
    <3>2. loc.sent.network = CriteriaNetwork(loc.host)
      BY <3>1 DEF Known
    <3>. QED
      BY <3>1, <3>2, NetworkNamed
  <2>2. ExitTruthful
    <3>. SUFFICES ASSUME ai.pc = "exit", ai.code \in {0, 64}, ai.phase = "install", ~ai.opt.list
                  PROVE  LET all == Registered(ai.opt, ai.m) IN
                         /\ ai.done \o ai.todo = all
                         /\ ai.todo # <<>> => Head(ai.todo) = ai.stop
                         /\ Cardinality({i \in DOMAIN ai.images : ai.images[i] = "create"}) <= 1
      BY DEF ExitTruthful
    <3>1. ai.m \in Manifests /\ Truthful(ai)
      BY DEF ClientInv, AIInv
    <3>2. Cardinality({i \in DOMAIN ai.images : ai.images[i] = "create"}) <= 1
      BY <3>1, OneImage DEF Truthful
    <3>. QED
      BY <3>1, <3>2 DEF Truthful
  <2>3. RebootComplete
    BY DEF ClientInv, RebootComplete, Complete
  <2>. QED
    BY <2>1, <2>2, <2>3 DEF ClientInv, ClientSound
<1>. QED
  BY <1>1, <1>2, <1>3, PTL DEF ClientSpec

-----------------------------------------------------------------------------
(* The completion tasks (CompletionTasks).                                 *)

AllApplied(base, s) == FoldLeft(Apply, base, s)
\* What is in place after each of the first n effects.
Stages(h, base, s, n) ==
    /\ DOMAIN h = 0 .. n
    /\ h[0] = base
    /\ \A i \in 1 .. n : h[i] = Apply(h[i - 1], s[i])

\* The effects of a checkpoint are applied one after the other.
LEMMA FoldApply ==
    ASSUME NEW base, NEW s, NEW n \in Nat, DOMAIN s = 1 .. n
    PROVE  \E h : Stages(h, base, s, n) /\ AllApplied(base, s) = h[n]
<1>. DEFINE U == base \cup UNION {s[i].puts : i \in 1 .. n}
            it == FoldLeft(Apply, base, s)
            iter == CHOOSE iter : iter = [t \in SUBSET DOMAIN s |->
                       IF t = {} THEN base ELSE Apply(iter[t \ {Max(t)}], s[Max(t)])]
            step(g, t) == Apply(g[t \ {Max(t)}], s[Max(t)])
            Unfolds(g) == g = [t \in SUBSET DOMAIN s |-> IF t = {} THEN base ELSE step(g, t)]
            A == SUBSET U
            B == {s[i] : i \in 1 .. n}
            f == [p \in A \X B |-> Apply(p[1], p[2])]
<1>1. it = iter[DOMAIN s]
  BY DEF FoldLeft, MapThenFoldSet
<1>2. f \in [A \X B -> A]
  BY DEF Apply
<1>3. PICK g : FoldOf(g, A, f, base, s, n)
  <2>. HIDE DEF f
  <2>1. \A i \in 1 .. n : s[i] \in B
    OBVIOUS
  <2>2. base \in A
    OBVIOUS
  <2>. HIDE DEF A, B
  <2>. QED
    BY <1>2, <2>1, <2>2, FoldGraph
<1>4. Unfolds(g)
  <2>1. ASSUME NEW t \in SUBSET (1 .. n), t # {}
        PROVE  g[t] = step(g, t)
    <3>1. Max(t) \in 1 .. n /\ t \ {Max(t)} \in SUBSET (1 .. n)
      BY <2>1, GreatestOf
    <3>2. s[Max(t)] \in B /\ g[t \ {Max(t)}] \in SUBSET U
      BY <1>3, <3>1 DEF FoldOf
    <3>3. g[t] = f[<<g[t \ {Max(t)}], s[Max(t)]>>]
      BY <1>3, <2>1 DEF FoldOf
    <3>. QED
      BY <3>2, <3>3
  <2>. QED
    BY <1>3, <2>1 DEF FoldOf
<1>5. Unfolds(iter)
  BY <1>4, Zenon
<1>6. \A t \in SUBSET (1 .. n) : iter[t] = IF t = {} THEN base ELSE step(iter, t)
  <2>. HIDE DEF iter, step
  <2>. QED
    BY <1>5
<1>. DEFINE h == [i \in 0 .. n |-> iter[1 .. i]]
<1>7. ASSUME NEW i \in 1 .. n
      PROVE  h[i] = Apply(h[i - 1], s[i])
  <2>. HIDE DEF iter
  <2>1. 1 .. i \in SUBSET (1 .. n) /\ 1 .. i # {} /\ (1 .. i) \ {i} = 1 .. i - 1
    <3>1. i \in 1 .. i /\ 1 .. i \subseteq 1 .. n
      OBVIOUS
    <3>2. (1 .. i) \ {i} = 1 .. i - 1
      OBVIOUS
    <3>. QED
      BY <3>1, <3>2
  <2>2. Max(1 .. i) = i
    <3>1. i \in 1 .. i /\ \A x \in 1 .. i : i >= x /\ x \in Nat
      OBVIOUS
    <3>. QED
      BY <3>1, MaxIs
  <2>3. h[i] = iter[1 .. i] /\ h[i - 1] = iter[1 .. i - 1]
    OBVIOUS
  <2>4. iter[1 .. i] = step(iter, 1 .. i)
    BY <1>6, <2>1
  <2>. QED
    BY <2>1, <2>2, <2>3, <2>4
<1>8. h[0] = base
  <2>. HIDE DEF iter, step
  <2>1. 1 .. 0 = {}
    OBVIOUS
  <2>. QED
    BY <1>6, <2>1
<1>9. it = h[n]
  <2>. HIDE DEF iter, it
  <2>. QED
    BY <1>1
<1>10. Stages(h, base, s, n)
  <2>1. DOMAIN h = 0 .. n
    OBVIOUS
  <2>. HIDE DEF h
  <2>. QED
    BY <1>7, <1>8, <2>1 DEF Stages
<1>. HIDE DEF h, it
<1>11. \E g0 : Stages(g0, base, s, n) /\ it = g0[n]
  BY <1>9, <1>10
<1>. QED
  BY <1>11 DEF it, AllApplied

\* What is there and not taken away stays, and what is not there and not put
\* stays away.
LEMMA StageKeeps ==
    ASSUME NEW h, NEW base, NEW s, NEW n \in Nat, Stages(h, base, s, n),
           NEW k \in 0 .. n, NEW x, x \in h[k], \A i \in k + 1 .. n : x \notin s[i].takes
    PROVE  x \in h[n]
<1>. DEFINE Out == {i \in k .. n : x \notin h[i]}
<1>1. SUFFICES ASSUME Out # {} PROVE FALSE
  OBVIOUS
<1>2. PICK m \in Out : \A y \in Out : m <= y
  <2>1. Out \subseteq Nat
    OBVIOUS
  <2>. HIDE DEF Out
  <2>. QED
    BY <1>1, <2>1, LeastNat
<1>3. m \in k .. n /\ m # k /\ x \notin h[m]
  OBVIOUS
<1>4. m - 1 \in k .. n /\ m - 1 \notin Out
  <2>1. m - 1 \in k .. n
    BY <1>3
  <2>2. ~(m <= m - 1)
    BY <1>3
  <2>. HIDE DEF Out
  <2>. QED
    BY <1>2, <2>1, <2>2
<1>5. x \in h[m - 1]
  BY <1>4
<1>6. h[m] = Apply(h[m - 1], s[m]) /\ x \notin s[m].takes
  BY <1>3 DEF Stages
<1>. QED
  BY <1>3, <1>5, <1>6 DEF Apply

LEMMA StageLacks ==
    ASSUME NEW h, NEW base, NEW s, NEW n \in Nat, Stages(h, base, s, n),
           NEW k \in 0 .. n, NEW x, x \notin h[k], \A i \in k + 1 .. n : x \notin s[i].puts
    PROVE  x \notin h[n]
<1>. DEFINE Out == {i \in k .. n : x \in h[i]}
<1>1. SUFFICES ASSUME Out # {} PROVE FALSE
  OBVIOUS
<1>2. PICK m \in Out : \A y \in Out : m <= y
  <2>1. Out \subseteq Nat
    OBVIOUS
  <2>. HIDE DEF Out
  <2>. QED
    BY <1>1, <2>1, LeastNat
<1>3. m \in k .. n /\ m # k /\ x \in h[m]
  OBVIOUS
<1>4. m - 1 \in k .. n /\ m - 1 \notin Out
  <2>1. m - 1 \in k .. n
    BY <1>3
  <2>2. ~(m <= m - 1)
    BY <1>3
  <2>. HIDE DEF Out
  <2>. QED
    BY <1>2, <2>1, <2>2
<1>5. x \notin h[m - 1]
  BY <1>4
<1>6. h[m] = Apply(h[m - 1], s[m]) /\ x \notin s[m].puts
  BY <1>3 DEF Stages
<1>. QED
  BY <1>3, <1>5, <1>6 DEF Apply

\* What n effects do to what was in place before them.
EffectOf(base, s, n, after) ==
    /\ \A x \in base : (\A i \in 1 .. n : x \notin s[i].takes) => x \in after
    /\ \A k \in 1 .. n : \A x \in s[k].puts :
          (\A i \in k + 1 .. n : x \notin s[i].takes) => x \in after
    /\ \A x \in after : x \in base \/ \E i \in 1 .. n : x \in s[i].puts
    /\ \A k \in 1 .. n : \A x \in s[k].takes :
          (\A i \in k .. n : x \notin s[i].puts) => x \notin after

LEMMA EffectOfStages ==
    ASSUME NEW h, NEW base, NEW s, NEW n \in Nat, Stages(h, base, s, n)
    PROVE  EffectOf(base, s, n, h[n])
<1>1. ASSUME NEW x \in base, \A i \in 1 .. n : x \notin s[i].takes PROVE x \in h[n]
  <2>1. x \in h[0] /\ 0 \in 0 .. n /\ \A i \in 0 + 1 .. n : x \notin s[i].takes
    BY <1>1 DEF Stages
  <2>. QED
    BY <2>1, StageKeeps
<1>2. ASSUME NEW k \in 1 .. n, NEW x \in s[k].puts, \A i \in k + 1 .. n : x \notin s[i].takes
      PROVE  x \in h[n]
  <2>1. x \in h[k] /\ k \in 0 .. n
    BY DEF Stages, Apply
  <2>. QED
    BY <1>2, <2>1, StageKeeps
<1>3. ASSUME NEW x \in h[n], x \notin base PROVE \E i \in 1 .. n : x \in s[i].puts
  <2>1. SUFFICES ASSUME \A i \in 1 .. n : x \notin s[i].puts PROVE FALSE
    OBVIOUS
  <2>2. x \notin h[0] /\ 0 \in 0 .. n /\ \A i \in 0 + 1 .. n : x \notin s[i].puts
    BY <1>3, <2>1 DEF Stages
  <2>. QED
    BY <1>3, <2>2, StageLacks
<1>4. ASSUME NEW k \in 1 .. n, NEW x \in s[k].takes, \A i \in k .. n : x \notin s[i].puts
      PROVE  x \notin h[n]
  <2>1. x \notin s[k].puts /\ \A i \in k + 1 .. n : x \notin s[i].puts
    BY <1>4
  <2>2. x \notin h[k] /\ k \in 0 .. n
    BY <2>1 DEF Stages, Apply
  <2>. QED
    BY <2>1, <2>2, StageLacks
<1>. QED
  BY <1>1, <1>2, <1>3, <1>4 DEF EffectOf

\* A checkpoint executed up to its n-th effect, all of them if it does not fail.
Executed(name, effects, n) ==
    /\ todo # <<>> /\ Head(todo) = name /\ ~failed
    /\ n \in 0 .. Len(effects) /\ \A k \in 1 .. n : effects[k] # Failing
    /\ EffectOf(target, effects, n, target')
    /\ failed' = (n < Len(effects))
    /\ todo' = (IF failed' THEN <<>> ELSE Tail(todo))
    /\ install' = install
LEMMA ExecutesEffect ==
    ASSUME NEW name, NEW E, NEW effects \in Seq(E), Executes(name, effects)
    PROVE  \E n \in 0 .. Len(effects) : Executed(name, effects, n)
<1>1. PICK n \in 0 .. Len(effects) :
         /\ \A k \in 1 .. n : effects[k] # Failing
         /\ target' = FoldLeft(Apply, target, SubSeq(effects, 1, n))
         /\ failed' = (n < Len(effects))
  BY DEF Executes
<1>2. Len(effects) \in Nat /\ n \in Nat
  OBVIOUS
<1>. DEFINE s == SubSeq(effects, 1, n)
<1>3. Len(s) = n /\ DOMAIN s = 1 .. n /\ \A i \in 1 .. n : s[i] = effects[i]
  <2>1. s \in Seq(E) /\ Len(s) = n /\ \A i \in 1 .. n : s[i] = effects[i]
    BY FirstOnes
  <2>. HIDE DEF s
  <2>. QED
    BY <2>1, LenProperties
<1>. HIDE DEF s
<1>5. PICK h : Stages(h, target, s, n) /\ AllApplied(target, s) = h[n]
  BY <1>2, <1>3, FoldApply
<1>6. EffectOf(target, s, n, h[n])
  BY <1>2, <1>5, EffectOfStages
<1>7. target' = h[n]
  <2>1. target' = AllApplied(target, s)
    BY <1>1 DEF s, AllApplied
  <2>. QED
    BY <1>5, <2>1
<1>8. EffectOf(target, effects, n, target')
  <2>1. \A i \in 1 .. n : s[i] = effects[i]
    BY <1>3
  <2>2. \A k \in 1 .. n : k \in Nat /\ (\A i \in k .. n : i \in 1 .. n) /\ (\A i \in k + 1 .. n : i \in 1 .. n)
    BY <1>2
  <2>. QED
    BY <1>6, <1>7, <2>1, <2>2 DEF EffectOf
<1>. QED
  BY <1>1, <1>8 DEF Executes, Executed

\* A finite set as a sequence.
LEMMA SetToSeqType ==
    ASSUME NEW S, IsFiniteSet(S)
    PROVE  SetToSeq(S) \in Seq(S)
<1>1. Cardinality(S) \in Nat /\ ExistsBijection(1 .. Cardinality(S), S)
  BY FS_CardinalityType
<1>2. \E f \in [1 .. Cardinality(S) -> S] : IsInjective(f)
  BY <1>1 DEF ExistsBijection, Bijection, Injection, IsInjective
<1>3. SetToSeq(S) \in [1 .. Cardinality(S) -> S]
  BY <1>2 DEF SetToSeq
<1>. QED
  BY <1>1, <1>3

-----------------------------------------------------------------------------
(* What the effects of each checkpoint put and take.                       *)

Effects(P, T) == [puts : SUBSET P, takes : SUBSET T] \cup {Failing}

LEMMA PutsEachType ==
    ASSUME NEW Q, NEW seq \in Seq(Q)
    PROVE  PutsEach(seq) \in Seq(Effects(Q, {})) /\ Len(PutsEach(seq)) = Len(seq)
<1>1. Len(seq) \in Nat /\ DOMAIN seq = 1 .. Len(seq) /\ \A k \in 1 .. Len(seq) : seq[k] \in Q
  OBVIOUS
<1>2. PutsEach(seq) = [k \in 1 .. Len(seq) |-> Puts(seq[k])]
  BY <1>1 DEF PutsEach
<1>3. \A k \in 1 .. Len(seq) : Puts(seq[k]) \in Effects(Q, {})
  BY <1>1 DEF Puts, Effects
<1>4. PutsEach(seq) \in [1 .. Len(seq) -> Effects(Q, {})]
  BY <1>2, <1>3
<1>. QED
  BY <1>1, <1>4

LEMMA TransferFilesType ==
    ASSUME NEW i, NEW files, IsFiniteSet(files)
    PROVE  TransferFiles(i, files) \in Seq(Effects(files, {}))
<1>1. SetToSeq(files \ i.missing) \in Seq(files)
  <2>1. IsFiniteSet(files \ i.missing)
    BY FS_Subset
  <2>2. SetToSeq(files \ i.missing) \in Seq(files \ i.missing)
    BY <2>1, SetToSeqType
  <2>. QED
    BY <2>2
<1>. QED
  BY <1>1, PutsEachType DEF TransferFiles

LEMMA SmfType ==
    ASSUME NEW i
    PROVE  InitializeSMF(i) \in Seq(Effects({"profile_links"}, {"repository"}))
<1>1. /\ Puts("profile_links") \in Effects({"profile_links"}, {"repository"})
      /\ Takes("repository") \in Effects({"profile_links"}, {"repository"})
  BY DEF Puts, Takes, Effects
<1>2. /\ <<>> \in Seq(Effects({"profile_links"}, {"repository"}))
      /\ <<Puts("profile_links"), Takes("repository")>>
            \in Seq(Effects({"profile_links"}, {"repository"}))
  BY <1>1
<1>. QED
  BY <1>2 DEF InitializeSMF

LEMMA DumpType ==
    ASSUME NEW i
    PROVE  UpdateDumpAdm(i) \in Seq(Effects({"dumpadm"}, {}))
<1>1. Puts("dumpadm") \in Effects({"dumpadm"}, {})
  BY DEF Puts, Effects
<1>2. <<>> \in Seq(Effects({"dumpadm"}, {})) /\ <<Puts("dumpadm")>> \in Seq(Effects({"dumpadm"}, {}))
  BY <1>1
<1>. QED
  BY <1>2 DEF UpdateDumpAdm

LEMMA DevicesType ==
    ASSUME NEW i
    PROVE  DeviceConfig(i) \in Seq(Effects({"devices"}, {}))
<1>1. Puts("devices") \in Effects({"devices"}, {})
  BY DEF Puts, Effects
<1>2. <<>> \in Seq(Effects({"devices"}, {})) /\ <<Puts("devices")>> \in Seq(Effects({"devices"}, {}))
  BY <1>1
<1>. QED
  BY <1>2 DEF DeviceConfig

OfInstall(i) == /\ DOMAIN i.swap = 1 .. Len(i.swap) /\ Len(i.swap) \in Nat
                /\ DOMAIN i.profiles = 1 .. Len(i.profiles) /\ Len(i.profiles) \in Nat
                /\ i.swap \in Seq(Range(i.swap)) /\ i.profiles \in Seq(Range(i.profiles))
                /\ Range(i.swap) \cap Marks = {} /\ Range(i.profiles) \cap Marks = {}
                /\ i.by \in {"ai", "zone", "text"}
LEMMA Installing ==
    ASSUME NEW i \in Installs
    PROVE  OfInstall(i)
<1>1. i.swap \in Seq(STRING \ Marks) /\ i.profiles \in Seq(STRING \ Marks)
      /\ i.by \in {"ai", "zone", "text"}
  BY InstallsAssumption
<1>2. ASSUME NEW s \in Seq(STRING \ Marks)
      PROVE  /\ DOMAIN s = 1 .. Len(s) /\ Len(s) \in Nat
             /\ s \in Seq(Range(s)) /\ Range(s) \cap Marks = {}
  <2>1. DOMAIN s = 1 .. Len(s) /\ Len(s) \in Nat /\ s = [k \in 1 .. Len(s) |-> s[k]]
    OBVIOUS
  <2>2. \A k \in 1 .. Len(s) : s[k] \in Range(s) /\ s[k] \notin Marks
    BY <2>1 DEF Range
  <2>3. s \in [1 .. Len(s) -> Range(s)]
    BY <2>1, <2>2
  <2>4. s \in Seq(Range(s))
    BY <2>1, <2>3
  <2>5. Range(s) \cap Marks = {}
    BY <2>1, <2>2 DEF Range
  <2>. QED
    BY <2>1, <2>4, <2>5
<1>. QED
  BY <1>1, <1>2 DEF OfInstall

LEMMA SwapType ==
    ASSUME NEW i \in Installs
    PROVE  SetupSwap(i) \in Seq(Effects(Range(i.swap), {}))
<1>1. i.swap \in Seq(Range(i.swap)) /\ <<>> \in Seq(Effects(Range(i.swap), {}))
  BY Installing DEF OfInstall
<1>2. PutsEach(i.swap) \in Seq(Effects(Range(i.swap), {}))
  BY <1>1, PutsEachType
<1>. QED
  BY <1>1, <1>2 DEF SetupSwap

LEMMA SysConfigType ==
    ASSUME NEW i \in Installs
    PROVE  ApplySysConfig(i) \in Seq(Effects({"profile_dir"} \cup Range(i.profiles), {}))
<1>. DEFINE E == Effects({"profile_dir"} \cup Range(i.profiles), {})
            each == [k \in DOMAIN i.profiles |-> Profile(i.profiles[k], i)]
<1>1. Puts("profile_dir") \in E
  BY DEF Puts, Effects
<1>2. ASSUME NEW k \in 1 .. Len(i.profiles)
      PROVE  Profile(i.profiles[k], i) \in E
  <2>1. i.profiles[k] \in Range(i.profiles)
    BY Installing DEF OfInstall, Range
  <2>. QED
    BY <2>1 DEF Profile, Puts, Effects
<1>. HIDE DEF E
<1>3. each \in Seq(E)
  <2>1. DOMAIN i.profiles = 1 .. Len(i.profiles) /\ Len(i.profiles) \in Nat
    BY Installing DEF OfInstall
  <2>2. each \in [1 .. Len(i.profiles) -> E]
    BY <1>2, <2>1
  <2>. HIDE DEF each
  <2>. QED
    BY <2>1, <2>2
<1>. HIDE DEF each
<1>4. <<Puts("profile_dir")>> \o each \in Seq(E)
  <2>1. <<Puts("profile_dir")>> \in Seq(E)
    BY <1>1
  <2>. QED
    BY <1>3, <2>1, ConcatProperties
<1>5. ApplySysConfig(i) \in Seq(E)
  BY <1>4 DEF ApplySysConfig, each
<1>. QED
  BY <1>5 DEF E

\* The cleanup of a CPIO transfer: the saved configuration is put before its
\* copy is taken.
LEMMA CleanupOrder ==
    ASSUME NEW i
    PROVE  LET l == CleanupCPIOInstall(i) IN
           /\ l \in Seq(Effects({"mnttab", "saved_config", "uuid"},
                                {"work_files", "save", "media_packages", "media_files"}))
           /\ ~i.dry =>
                 /\ Len(l) >= 4 /\ l[1] = Puts("mnttab") /\ l[2] = Takes("work_files")
                 /\ l[Len(l)] = Takes("media_files")
                 /\ i.save => l[3] = Puts("saved_config") /\ l[4] = Takes("save")
<1>. DEFINE E == Effects({"mnttab", "saved_config", "uuid"},
                         {"work_files", "save", "media_packages", "media_files"})
            l == CleanupCPIOInstall(i)
            a == <<Puts("mnttab"), Takes("work_files")>>
            b == IF i.save THEN <<Puts("saved_config"), Takes("save")>> ELSE <<>>
            c == IF i.packages THEN <<Takes("media_packages")>> ELSE <<>>
            d == <<Puts("uuid"), Takes("media_files")>>
<1>1. /\ Puts("mnttab") \in E /\ Takes("work_files") \in E /\ Puts("saved_config") \in E
      /\ Takes("save") \in E /\ Takes("media_packages") \in E /\ Puts("uuid") \in E
      /\ Takes("media_files") \in E
  BY DEF Puts, Takes, Effects
<1>. HIDE DEF E
<1>2. /\ a \in Seq(E) /\ Len(a) = 2 /\ a[1] = Puts("mnttab") /\ a[2] = Takes("work_files")
  BY <1>1
<1>3. /\ b \in Seq(E) /\ Len(b) \in Nat
      /\ i.save => Len(b) = 2 /\ b[1] = Puts("saved_config") /\ b[2] = Takes("save")
  <2>1. CASE i.save
    BY <1>1, <2>1
  <2>2. CASE ~i.save
    BY <2>2
  <2>. QED
    BY <2>1, <2>2
<1>4. c \in Seq(E) /\ Len(c) \in Nat
  <2>1. CASE i.packages
    BY <1>1, <2>1
  <2>2. CASE ~i.packages
    BY <2>2
  <2>. QED
    BY <2>1, <2>2
<1>5. d \in Seq(E) /\ Len(d) = 2 /\ d[2] = Takes("media_files")
  BY <1>1
<1>6. ~i.dry => l = ((a \o b) \o c) \o d
  BY DEF CleanupCPIOInstall
<1>7. i.dry => l = (IF i.save THEN <<Takes("save")>> ELSE <<>>)
  BY DEF CleanupCPIOInstall
<1>. HIDE DEF l, a, b, c, d
<1>8. CASE i.dry
  <2>1. <<>> \in Seq(E) /\ <<Takes("save")>> \in Seq(E)
    BY <1>1
  <2>2. l \in Seq(E)
    BY <1>7, <1>8, <2>1
  <2>. QED
    BY <1>8, <2>2 DEF l, E
<1>9. CASE ~i.dry
  <2>. DEFINE ab == a \o b
              abc == ab \o c
  <2>1. /\ ab \in Seq(E) /\ Len(ab) = 2 + Len(b)
        /\ \A k \in 1 .. 2 + Len(b) : ab[k] = IF k <= 2 THEN a[k] ELSE b[k - 2]
    <3>1. /\ ab \in Seq(E) /\ Len(ab) = Len(a) + Len(b)
          /\ \A k \in 1 .. Len(a) + Len(b) : ab[k] = IF k <= Len(a) THEN a[k] ELSE b[k - Len(a)]
      BY <1>2, <1>3, ConcatProperties
    <3>2. Len(a) = 2
      BY <1>2
    <3>. HIDE DEF ab
    <3>. QED
      BY <3>1, <3>2
  <2>. HIDE DEF ab
  <2>2. /\ abc \in Seq(E) /\ Len(abc) = 2 + Len(b) + Len(c)
        /\ \A k \in 1 .. 2 + Len(b) : abc[k] = ab[k]
    <3>1. /\ abc \in Seq(E) /\ Len(abc) = Len(ab) + Len(c)
          /\ \A k \in 1 .. Len(ab) + Len(c) : abc[k] = IF k <= Len(ab) THEN ab[k] ELSE c[k - Len(ab)]
      BY <1>4, <2>1, ConcatProperties
    <3>2. \A k \in 1 .. 2 + Len(b) : k \in 1 .. Len(ab) + Len(c) /\ k <= Len(ab)
      BY <1>3, <1>4, <2>1
    <3>. QED
      BY <2>1, <3>1, <3>2
  <2>. HIDE DEF abc
  <2>3. l = abc \o d
    BY <1>6, <1>9 DEF ab, abc
  <2>4. /\ l \in Seq(E) /\ Len(l) = Len(abc) + 2
        /\ \A k \in 1 .. Len(abc) + 2 : l[k] = IF k <= Len(abc) THEN abc[k] ELSE d[k - Len(abc)]
    <3>0. abc \in Seq(E) /\ d \in Seq(E)
      BY <1>5, <2>2
    <3>1. /\ (abc \o d) \in Seq(E) /\ Len(abc \o d) = Len(abc) + Len(d)
          /\ \A k \in 1 .. Len(abc) + Len(d) :
                (abc \o d)[k] = IF k <= Len(abc) THEN abc[k] ELSE d[k - Len(abc)]
      BY <3>0, ConcatProperties
    <3>2. Len(d) = 2
      BY <1>5
    <3>. QED
      BY <2>3, <3>1, <3>2
  <2>5. Len(abc) \in Nat /\ Len(abc) >= 2 /\ Len(l) >= 4
    BY <1>3, <1>4, <2>2, <2>4
  <2>6. l[Len(l)] = Takes("media_files")
    <3>1. Len(l) \in 1 .. Len(abc) + 2 /\ ~(Len(l) <= Len(abc)) /\ Len(l) - Len(abc) = 2
      BY <2>4, <2>5
    <3>. QED
      BY <1>5, <2>4, <3>1
  <2>7. l[1] = Puts("mnttab") /\ l[2] = Takes("work_files")
    <3>1. 1 \in 1 .. 2 + Len(b) /\ 2 \in 1 .. 2 + Len(b) /\ 1 \in 1 .. Len(abc) + 2
          /\ 2 \in 1 .. Len(abc) + 2 /\ 1 <= Len(abc) /\ 2 <= Len(abc)
      BY <1>3, <2>5
    <3>. QED
      BY <1>2, <2>1, <2>2, <2>4, <3>1
  <2>8. i.save => l[3] = Puts("saved_config") /\ l[4] = Takes("save")
    <3>. SUFFICES ASSUME i.save PROVE l[3] = Puts("saved_config") /\ l[4] = Takes("save")
      OBVIOUS
    <3>1. Len(b) = 2 /\ Len(abc) >= 4
      <4>1. Len(b) = 2 /\ Len(abc) = 2 + Len(b) + Len(c) /\ Len(c) \in Nat
        BY <1>3, <1>4, <2>2
      <4>. QED
        BY <4>1
    <3>2. 3 \in 1 .. 2 + Len(b) /\ 4 \in 1 .. 2 + Len(b) /\ 3 \in 1 .. Len(abc) + 2
          /\ 4 \in 1 .. Len(abc) + 2 /\ 3 <= Len(abc) /\ 4 <= Len(abc) /\ 3 - 2 = 1 /\ 4 - 2 = 2
      BY <2>5, <3>1
    <3>. QED
      BY <1>3, <2>1, <2>2, <2>4, <3>2
  <2>. QED
    BY <2>4, <2>5, <2>6, <2>7, <2>8 DEF l, E
<1>. QED
  BY <1>8, <1>9

-----------------------------------------------------------------------------
(* The inductive invariant: an installation that has not failed is at some *)
(* place in the order of registration, and what the checkpoints before it  *)
(* were to do is done.                                                     *)

Steps == {"cleanup", "initialize-smf", "update-dump-adm", "setup-swap", "device-config",
          "apply-sysconfig", "transfer-zpool-cache", "boot-archive", "transfer-files",
          "create-snapshot"}
Late == {"transfer-files", "create-snapshot"}

\* What a checkpoint was to do to the target t, a being what the boot archive
\* was made of.
Completed(name, i, t, a) ==
    /\ name = "initialize-smf" => "profile_links" \in t /\ "repository" \notin t
    /\ name = "update-dump-adm" /\ i.dump => "dumpadm" \in t
    /\ name = "setup-swap" => Range(i.swap) \subseteq t
    /\ name = "apply-sysconfig" =>
          Range(i.profiles) \subseteq t /\ Range(i.profiles) \cap i.invalid = {}
    /\ name = "boot-archive" => "archive" \in t /\ a \subseteq t
    /\ name = "cleanup" => "media_files" \notin t /\ "work_files" \notin t /\ "save" \notin t

\* The saved configuration is in one of its two places, and is nowhere when
\* none was saved.
SaveKept(i, t) ==
    /\ ~i.save => "save" \notin t
    /\ i.save /\ ~i.dry /\ i.by = "text" => "save" \in t \/ "saved_config" \in t

\* What the snapshot s has.
Taken(i, s, a) ==
    /\ Range(i.profiles) \subseteq s \ i.invalid
    /\ "profile_links" \in s /\ "repository" \notin s
    /\ i.by # "zone" => "archive" \in s /\ a \subseteq s
    /\ i.by # "zone" /\ i.dump => "dumpadm" \in s
    /\ i.by # "text" => Range(i.swap) \subseteq s
    /\ i.by = "text" => s \cap {"media_files", "work_files", "save"} = {}

\* The first p checkpoints of the order c are executed.
Reached(p, c) ==
    /\ p \in 0 .. Len(c)
    /\ todo \in Seq(Steps) /\ Len(todo) = Len(c) - p
    /\ \A j \in 1 .. Len(todo) : todo[j] = c[p + j]
    /\ ~install.dry => \A j \in 1 .. p : Completed(c[j], install, target, archive)
    /\ archive # None => \A k \in p + 1 .. Len(c) : c[k] \in Late
    /\ snapshot # None => p = Len(c)

IctInv ==
    /\ install \in Installs /\ failed \in BOOLEAN
    /\ failed => todo = <<>>
    /\ install.dry => archive = None /\ snapshot = None
    /\ SaveKept(install, target)
    /\ ~failed => \E p \in 0 .. Len(Checkpoints(install)) : Reached(p, Checkpoints(install))
    /\ ArchiveFresh
    /\ snapshot # None => todo = <<>> /\ Taken(install, snapshot, archive)

\* The orders of registration: the snapshot comes last, after the archive only
\* logs are transferred, and nothing is executed before a cleanup.
OrderOf(i, c) ==
    /\ Len(c) \in Nat \ {0} /\ \A j \in 1 .. Len(c) : c[j] \in Steps
    /\ \A j \in 1 .. Len(c) : c[j] = "create-snapshot" => j = Len(c)
    /\ \A j \in 1 .. Len(c) : c[j] = "boot-archive" => \A k \in j + 1 .. Len(c) : c[k] \in Late
    /\ \A j \in 1 .. Len(c) : c[j] = "cleanup" => j = 1
    /\ \E j \in 1 .. Len(c) - 1 : c[j] = "initialize-smf"
    /\ \E j \in 1 .. Len(c) - 1 : c[j] = "apply-sysconfig"
    /\ i.by # "zone" => \E j \in 1 .. Len(c) - 1 : c[j] = "boot-archive"
    /\ i.by # "zone" => \E j \in 1 .. Len(c) - 1 : c[j] = "update-dump-adm"
    /\ i.by # "text" => \E j \in 1 .. Len(c) - 1 : c[j] = "setup-swap"
    /\ i.by = "text" => \E j \in 1 .. Len(c) - 1 : c[j] = "cleanup"

LEMMA Order ==
    ASSUME NEW i \in Installs
    PROVE  OrderOf(i, Checkpoints(i)) /\ Checkpoints(i) \in Seq(Steps)
<1>. DEFINE c == Checkpoints(i)
<1>1. i.by \in {"ai", "zone", "text"}
  BY Installing DEF OfInstall
<1>2. CASE i.by = "text"
  <2>1. c = <<"cleanup", "initialize-smf", "update-dump-adm", "device-config", "apply-sysconfig",
              "boot-archive", "transfer-files", "create-snapshot">>
    BY <1>2 DEF Checkpoints, TextCheckpoints
  <2>. HIDE DEF c
  <2>2. /\ Len(c) = 8 /\ c[1] = "cleanup" /\ c[2] = "initialize-smf" /\ c[3] = "update-dump-adm"
        /\ c[4] = "device-config" /\ c[5] = "apply-sysconfig" /\ c[6] = "boot-archive"
        /\ c[7] = "transfer-files" /\ c[8] = "create-snapshot"
    BY <2>1
  <2>3. c \in Seq(Steps)
    BY <2>1 DEF Steps
  <2>4. \A j \in 1 .. Len(c) : j \in {1, 2, 3, 4, 5, 6, 7, 8}
    BY <2>2
  <2>5. 1 .. Len(c) - 1 = {1, 2, 3, 4, 5, 6, 7}
    BY <2>2
  <2>6. OrderOf(i, c)
    BY <1>2, <2>2, <2>4, <2>5 DEF OrderOf, Steps, Late
  <2>. QED
    BY <2>3, <2>6 DEF c
<1>3. CASE i.by = "zone"
  <2>1. c = <<"initialize-smf", "setup-swap", "apply-sysconfig", "transfer-files", "create-snapshot">>
    BY <1>3 DEF Checkpoints, AutoCheckpoints
  <2>. HIDE DEF c
  <2>2. /\ Len(c) = 5 /\ c[1] = "initialize-smf" /\ c[2] = "setup-swap" /\ c[3] = "apply-sysconfig"
        /\ c[4] = "transfer-files" /\ c[5] = "create-snapshot"
    BY <2>1
  <2>3. c \in Seq(Steps)
    BY <2>1 DEF Steps
  <2>4. \A j \in 1 .. Len(c) : j \in {1, 2, 3, 4, 5}
    BY <2>2
  <2>5. 1 .. Len(c) - 1 = {1, 2, 3, 4}
    BY <2>2
  <2>6. OrderOf(i, c)
    BY <1>3, <2>2, <2>4, <2>5 DEF OrderOf, Steps, Late
  <2>. QED
    BY <2>3, <2>6 DEF c
<1>4. CASE i.by = "ai"
  <2>1. c = <<"initialize-smf", "update-dump-adm", "setup-swap", "device-config",
              "apply-sysconfig", "transfer-zpool-cache", "boot-archive", "transfer-files",
              "create-snapshot">>
    BY <1>4 DEF Checkpoints, AutoCheckpoints
  <2>. HIDE DEF c
  <2>2. /\ Len(c) = 9 /\ c[1] = "initialize-smf" /\ c[2] = "update-dump-adm" /\ c[3] = "setup-swap"
        /\ c[4] = "device-config" /\ c[5] = "apply-sysconfig" /\ c[6] = "transfer-zpool-cache"
        /\ c[7] = "boot-archive" /\ c[8] = "transfer-files" /\ c[9] = "create-snapshot"
    BY <2>1
  <2>3. c \in Seq(Steps)
    BY <2>1 DEF Steps
  <2>4. \A j \in 1 .. Len(c) : j \in {1, 2, 3, 4, 5, 6, 7, 8, 9}
    BY <2>2
  <2>5. 1 .. Len(c) - 1 = {1, 2, 3, 4, 5, 6, 7, 8}
    BY <2>2
  <2>6. OrderOf(i, c)
    BY <1>4, <2>2, <2>4, <2>5 DEF OrderOf, Steps, Late
  <2>. QED
    BY <2>3, <2>6 DEF c
<1>. QED
  BY <1>1, <1>2, <1>3, <1>4

\* The targets before and after a checkpoint whose effects put what is in P and
\* take what is in T.
LEMMA TargetFrame ==
    ASSUME NEW name, NEW P, NEW T, NEW effects \in Seq(Effects(P, T)),
           NEW n \in 0 .. Len(effects), Executed(name, effects, n)
    PROVE  target' \subseteq target \cup P /\ target \ T \subseteq target'
<1>1. ASSUME NEW k \in 1 .. n PROVE effects[k].puts \subseteq P /\ effects[k].takes \subseteq T
  <2>1. effects[k] \in Effects(P, T) /\ effects[k] # Failing
    BY <1>1 DEF Executed
  <2>. QED
    BY <2>1 DEF Effects
<1>2. EffectOf(target, effects, n, target')
  BY DEF Executed
<1>3. ASSUME NEW x \in target' PROVE x \in target \cup P
  BY <1>1, <1>2 DEF EffectOf
<1>4. ASSUME NEW x \in target \ T PROVE x \in target'
  BY <1>1, <1>2 DEF EffectOf
<1>. QED
  BY <1>3, <1>4

\* The checkpoint that is executed is the next of the order.
LEMMA NextOne ==
    ASSUME NEW c, OrderOf(install, c), NEW p, Reached(p, c),
           NEW name, NEW effects, NEW n, Executed(name, effects, n)
    PROVE  /\ p + 1 \in 1 .. Len(c) /\ name = c[p + 1] /\ snapshot = None
           /\ ~failed' =>
                 /\ todo' \in Seq(Steps) /\ Len(todo') = Len(c) - (p + 1)
                 /\ \A j \in 1 .. Len(todo') : todo'[j] = c[(p + 1) + j]
<1>1. /\ todo \in Seq(Steps) /\ todo # <<>> /\ Len(todo) = Len(c) - p /\ p \in 0 .. Len(c)
      /\ Len(c) \in Nat /\ Head(todo) = name
  BY DEF Reached, Executed, OrderOf
<1>2. Len(todo) \in Nat /\ Len(todo) >= 1 /\ todo[1] = name
  BY <1>1
<1>3. p + 1 \in 1 .. Len(c) /\ p # Len(c)
  BY <1>1, <1>2
<1>4. name = c[p + 1]
  BY <1>2 DEF Reached
<1>5. ASSUME ~failed'
      PROVE  /\ todo' \in Seq(Steps) /\ Len(todo') = Len(c) - (p + 1)
             /\ \A j \in 1 .. Len(todo') : todo'[j] = c[(p + 1) + j]
  <2>1. todo' = Tail(todo)
    BY <1>5 DEF Executed
  <2>2. todo' \in Seq(Steps) /\ Len(todo') = Len(todo) - 1
        /\ \A j \in 1 .. Len(todo) - 1 : todo'[j] = todo[j + 1]
    BY <1>1, <1>2, <2>1
  <2>3. ASSUME NEW j \in 1 .. Len(todo) - 1 PROVE todo'[j] = c[(p + 1) + j]
    <3>1. j + 1 \in 1 .. Len(todo) /\ p + (j + 1) = (p + 1) + j
      BY <1>1, <1>2
    <3>. QED
      BY <2>2, <3>1 DEF Reached
  <2>. QED
    BY <1>1, <1>2, <2>2, <2>3
<1>. QED
  BY <1>3, <1>4, <1>5 DEF Reached

-----------------------------------------------------------------------------
(* A checkpoint, whichever it is, keeps the invariant when it does what it  *)
(* is for.                                                                 *)

\* What a completed checkpoint did stays done.
LEMMA CompletedStays ==
    ASSUME NEW i \in Installs, NEW x, NEW t, NEW u, NEW P, NEW T, NEW a, NEW b,
           Completed(x, i, t, a), u \subseteq t \cup P, t \ T \subseteq u,
           "repository" \notin P, "media_files" \notin P, "work_files" \notin P, "save" \notin P,
           T \subseteq {"repository"}, x = "boot-archive" => T = {} /\ a = b
    PROVE  Completed(x, i, u, b)
<1>1. "repository" \notin Range(i.swap) /\ "repository" \notin Range(i.profiles)
  BY Installing DEF OfInstall, Marks, SentMedia
<1>2. x = "initialize-smf" => "profile_links" \in u /\ "repository" \notin u
  BY DEF Completed
<1>3. x = "update-dump-adm" /\ i.dump => "dumpadm" \in u
  BY DEF Completed
<1>4. x = "setup-swap" => Range(i.swap) \subseteq u
  BY <1>1 DEF Completed
<1>5. x = "apply-sysconfig" =>
          Range(i.profiles) \subseteq u /\ Range(i.profiles) \cap i.invalid = {}
  BY <1>1 DEF Completed
<1>6. x = "boot-archive" => "archive" \in u /\ b \subseteq u
  BY DEF Completed
<1>7. x = "cleanup" => "media_files" \notin u /\ "work_files" \notin u /\ "save" \notin u
  BY DEF Completed
<1>. QED
  BY <1>2, <1>3, <1>4, <1>5, <1>6, <1>7 DEF Completed

LEMMA Advances ==
    ASSUME IctInv, NEW name, NEW P, NEW T, NEW effects \in Seq(Effects(P, T)),
           NEW n \in 0 .. Len(effects), Executed(name, effects, n),
           "repository" \notin P, "media_files" \notin P, "work_files" \notin P, "save" \notin P,
           T \subseteq {"repository"} \/ name = "cleanup",
           T # {} => name \notin Late,
           name # "boot-archive" => archive' = archive,
           install.dry => archive' = None /\ snapshot' = None,
           name # "create-snapshot" => snapshot' = snapshot,
           n = Len(effects) /\ ~install.dry => Completed(name, install, target', archive'),
           SaveKept(install, target'), ArchiveFresh',
           snapshot' # None /\ name = "create-snapshot" =>
               ~failed' /\ Taken(install, snapshot', archive')
    PROVE  IctInv'
<1>. DEFINE c == Checkpoints(install)
<1>1. /\ install \in Installs /\ install' = install /\ ~failed /\ OrderOf(install, c)
      /\ failed' = (n < Len(effects)) /\ failed' \in BOOLEAN
  BY Order DEF IctInv, Executed
<1>2. PICK p \in 0 .. Len(c) : Reached(p, c)
  BY <1>1 DEF IctInv
<1>3. Checkpoints(install)' = c
  BY <1>1
<1>. HIDE DEF c
<1>4. /\ p + 1 \in 1 .. Len(c) /\ name = c[p + 1] /\ snapshot = None
      /\ ~failed' =>
            /\ todo' \in Seq(Steps) /\ Len(todo') = Len(c) - (p + 1)
            /\ \A j \in 1 .. Len(todo') : todo'[j] = c[(p + 1) + j]
  BY <1>1, <1>2, NextOne, SMTT(60)
<1>5. target' \subseteq target \cup P /\ target \ T \subseteq target'
  BY TargetFrame
<1>6. Len(c) \in Nat \ {0} /\ p \in 0 .. Len(c)
  BY <1>1, <1>2 DEF OrderOf
<1>7. ASSUME NEW j \in 1 .. p, ~install.dry
      PROVE  Completed(c[j], install, target', archive')
  <2>1. j \in 1 .. Len(c) /\ p + 1 \in j + 1 .. Len(c)
    BY <1>4, <1>6
  <2>2. Completed(c[j], install, target, archive)
    BY <1>2, <1>7 DEF Reached
  <2>3. name # "cleanup"
    BY <1>1, <1>4, <1>6, <1>7 DEF OrderOf
  <2>4. c[j] = "boot-archive" => name \in Late
    BY <1>1, <1>4, <2>1 DEF OrderOf
  <2>5. c[j] = "boot-archive" => T = {} /\ archive = archive'
    BY <2>4 DEF Late
  <2>6. T \subseteq {"repository"}
    BY <2>3
  <2>. QED
    BY ZenonT(120), <1>1, <1>5, <2>2, <2>5, <2>6, CompletedStays
<1>8. ASSUME ~failed' PROVE Reached(p + 1, c)'
  <2>1. n = Len(effects)
    <3>1. Len(effects) \in Nat /\ n \in 0 .. Len(effects)
      OBVIOUS
    <3>2. ~(n < Len(effects))
      BY <1>1, <1>8
    <3>. QED
      BY <3>1, <3>2
  <2>2. ASSUME NEW j \in 1 .. p + 1, ~install.dry
        PROVE  Completed(c[j], install, target', archive')
    <3>1. CASE j \in 1 .. p
      BY <1>7, <2>2, <3>1
    <3>2. CASE j = p + 1
      BY <1>4, <2>1, <2>2, <3>2
    <3>. QED
      BY <1>6, <3>1, <3>2
  <2>3. ASSUME archive' # None, NEW k \in (p + 1) + 1 .. Len(c) PROVE c[k] \in Late
    <3>1. k \in p + 1 .. Len(c)
      BY <1>6
    <3>2. CASE name = "boot-archive"
      BY <1>1, <1>4, <2>3, <3>2 DEF OrderOf
    <3>3. CASE name # "boot-archive"
      BY <1>2, <2>3, <3>1, <3>3 DEF Reached
    <3>. QED
      BY <3>2, <3>3
  <2>4. snapshot' # None => p + 1 = Len(c)
    <3>1. snapshot' # None => name = "create-snapshot"
      BY <1>4
    <3>. QED
      BY <1>1, <1>4, <3>1 DEF OrderOf
  <2>5. c' = c
    BY <1>3 DEF c
  <2>. QED
    BY <1>1, <1>4, <1>8, <2>2, <2>3, <2>4, <2>5 DEF Reached
<1>9. failed' => todo' = <<>>
  BY DEF Executed
<1>10. snapshot' # None => todo' = <<>> /\ Taken(install, snapshot', archive')
  <2>1. SUFFICES ASSUME snapshot' # None
                 PROVE  todo' = <<>> /\ Taken(install, snapshot', archive')
    OBVIOUS
  <2>2. name = "create-snapshot"
    BY <1>4, <2>1
  <2>3. p + 1 = Len(c)
    BY <1>1, <1>4, <2>2 DEF OrderOf
  <2>4. todo' \in Seq(Steps) /\ Len(todo') = 0
    BY <1>4, <1>6, <2>1, <2>2, <2>3
  <2>5. todo' = <<>>
    BY <2>4
  <2>. QED
    BY <2>1, <2>2, <2>5
<1>11. ~failed' => \E q \in 0 .. Len(c) : Reached(q, c)'
  <2>1. p + 1 \in 0 .. Len(c)
    BY <1>4, <1>6
  <2>. QED
    BY <1>8, <2>1
<1>12. (~failed => \E q \in 0 .. Len(Checkpoints(install)) : Reached(q, Checkpoints(install)))'
  <2>1. c' = c /\ c = Checkpoints(install) /\ c = Checkpoints(install)'
    BY <1>3 DEF c
  <2>2. ASSUME NEW q \in 0 .. Len(c), Reached(q, c)' PROVE Reached(q, Checkpoints(install))'
    BY <2>1, <2>2 DEF Reached
  <2>. QED
    BY <1>11, <2>1, <2>2
<1>. QED
  BY <1>1, <1>9, <1>10, <1>12 DEF IctInv

-----------------------------------------------------------------------------
(* The checkpoints one by one.                                             *)

\* A checkpoint that neither makes the archive nor takes the snapshot, and that
\* is no cleanup.
LEMMA TaskKeeps ==
    ASSUME IctInv, NEW name, NEW P, NEW T, NEW effects \in Seq(Effects(P, T)),
           Task(name, effects), name \notin {"boot-archive", "create-snapshot", "cleanup"},
           "repository" \notin P, "media_files" \notin P, "work_files" \notin P, "save" \notin P,
           T \subseteq {"repository"}, T # {} => name # "transfer-files",
           name = "transfer-files" => P \subseteq LogFiles(install),
           EffectOf(target, effects, Len(effects), target') /\ ~install.dry
              /\ (\A k \in 1 .. Len(effects) : effects[k] # Failing)
              => Completed(name, install, target', archive)
    PROVE  IctInv'
<1>1. PICK n \in 0 .. Len(effects) : Executed(name, effects, n)
  BY ExecutesEffect DEF Task
<1>2. archive' = archive /\ snapshot' = snapshot /\ install' = install
  BY <1>1 DEF Task, Executed
<1>3. target' \subseteq target \cup P /\ target \ T \subseteq target'
  BY <1>1, TargetFrame
<1>4. SaveKept(install, target')
  BY <1>3 DEF IctInv, SaveKept
<1>5. n = Len(effects) /\ ~install.dry => Completed(name, install, target', archive')
  BY <1>1, <1>2 DEF Executed
<1>6. /\ install \in Installs /\ ~failed /\ OrderOf(install, Checkpoints(install))
  BY <1>1, Order DEF IctInv, Executed
<1>7. PICK p \in 0 .. Len(Checkpoints(install)) : Reached(p, Checkpoints(install))
  BY <1>6 DEF IctInv
<1>8. /\ p + 1 \in 1 .. Len(Checkpoints(install)) /\ name = Checkpoints(install)[p + 1]
      /\ snapshot = None
  BY <1>1, <1>6, <1>7, NextOne
<1>9. archive # None => name = "transfer-files"
  <2>1. p + 1 \in p + 1 .. Len(Checkpoints(install))
    BY <1>8, <1>6 DEF OrderOf
  <2>. QED
    BY <1>7, <1>8, <2>1 DEF Reached, Late
<1>10. ArchiveFresh'
  BY <1>2, <1>3, <1>9 DEF IctInv, ArchiveFresh
<1>11. install.dry => archive' = None /\ snapshot' = None
  BY <1>2 DEF IctInv
<1>12. T # {} => name \notin Late
  BY DEF Late
<1>. QED
  BY <1>1, <1>2, <1>4, <1>5, <1>10, <1>11, <1>12, Advances

LEMMA SmfKeeps == IctInv /\ Smf => IctInv'
<1>. SUFFICES ASSUME IctInv, Smf PROVE IctInv'
  OBVIOUS
<1>. DEFINE l == InitializeSMF(install)
            P == {"profile_links"}
            T == {"repository"}
<1>1. l \in Seq(Effects(P, T)) /\ Task("initialize-smf", l)
  BY SmfType DEF Smf
<1>2. ASSUME EffectOf(target, l, Len(l), target'), ~install.dry
      PROVE  Completed("initialize-smf", install, target', archive)
  <2>1. l = <<Puts("profile_links"), Takes("repository")>>
    BY <1>2 DEF InitializeSMF
  <2>2. Len(l) = 2 /\ l[1] = Puts("profile_links") /\ l[2] = Takes("repository")
    BY <2>1
  <2>. HIDE DEF l
  <2>3. /\ 1 \in 1 .. Len(l) /\ 2 \in 1 .. Len(l)
        /\ \A k \in 1 + 1 .. Len(l) : k = 2
        /\ \A k \in 2 .. Len(l) : k = 2
    BY <2>2
  <2>4. "profile_links" \in target'
    BY <1>2, <2>2, <2>3 DEF EffectOf, Puts, Takes
  <2>5. "repository" \notin target'
    BY <1>2, <2>2, <2>3 DEF EffectOf, Puts, Takes
  <2>. QED
    BY <2>4, <2>5 DEF Completed
<1>. HIDE DEF l
<1>. QED
  BY <1>1, <1>2, TaskKeeps

LEMMA DumpKeeps == IctInv /\ Dump => IctInv'
<1>. SUFFICES ASSUME IctInv, Dump PROVE IctInv'
  OBVIOUS
<1>. DEFINE l == UpdateDumpAdm(install)
            P == {"dumpadm"}
            T == {}
<1>1. l \in Seq(Effects(P, T)) /\ Task("update-dump-adm", l)
  BY DumpType DEF Dump
<1>2. ASSUME EffectOf(target, l, Len(l), target'), ~install.dry
      PROVE  Completed("update-dump-adm", install, target', archive)
  <2>. SUFFICES ASSUME install.dump PROVE "dumpadm" \in target'
    BY DEF Completed
  <2>1. l = <<Puts("dumpadm")>>
    BY <1>2 DEF UpdateDumpAdm
  <2>2. Len(l) = 1 /\ l[1] = Puts("dumpadm")
    BY <2>1
  <2>. HIDE DEF l
  <2>3. 1 \in 1 .. Len(l) /\ 1 + 1 .. Len(l) = {}
    BY <2>2
  <2>. QED
    BY <1>2, <2>2, <2>3 DEF EffectOf, Puts
<1>. HIDE DEF l
<1>. QED
  BY <1>1, <1>2, TaskKeeps

LEMMA DevicesKeeps == IctInv /\ Devices => IctInv'
<1>. SUFFICES ASSUME IctInv, Devices PROVE IctInv'
  OBVIOUS
<1>1. DeviceConfig(install) \in Seq(Effects({"devices"}, {}))
      /\ Task("device-config", DeviceConfig(install))
  BY DevicesType DEF Devices
<1>2. Completed("device-config", install, target', archive)
  BY DEF Completed
<1>. QED
  BY <1>1, <1>2, TaskKeeps

LEMMA SwapKeeps == IctInv /\ Swap => IctInv'
<1>. SUFFICES ASSUME IctInv, Swap PROVE IctInv'
  OBVIOUS
<1>. DEFINE l == SetupSwap(install)
            P == Range(install.swap)
            T == {}
<1>1. l \in Seq(Effects(P, T)) /\ Task("setup-swap", l) /\ OfInstall(install)
  BY SwapType, Installing DEF Swap, IctInv
<1>2. ASSUME EffectOf(target, l, Len(l), target'), ~install.dry
      PROVE  Completed("setup-swap", install, target', archive)
  <2>. SUFFICES ASSUME NEW x \in Range(install.swap) PROVE x \in target'
    BY DEF Completed
  <2>1. PICK k \in 1 .. Len(install.swap) : x = install.swap[k]
    BY <1>1 DEF OfInstall, Range
  <2>2. Len(l) = Len(install.swap) /\ \A j \in 1 .. Len(l) : l[j] = Puts(install.swap[j])
    <3>1. l = PutsEach(install.swap) /\ DOMAIN install.swap = 1 .. Len(install.swap)
      BY <1>1, <1>2 DEF SetupSwap, OfInstall
    <3>2. Len(l) = Len(install.swap)
      BY <1>1, <3>1, PutsEachType DEF OfInstall
    <3>. QED
      BY <3>1, <3>2 DEF PutsEach
  <2>. HIDE DEF l
  <2>3. k \in 1 .. Len(l) /\ \A j \in k + 1 .. Len(l) : j \in 1 .. Len(l)
    BY <1>1, <2>1, <2>2 DEF OfInstall
  <2>4. x \in l[k].puts /\ \A j \in k + 1 .. Len(l) : x \notin l[j].takes
    <3>1. l[k] = Puts(x)
      BY <2>1, <2>2, <2>3
    <3>2. \A y : Puts(y).takes = {} /\ y \in Puts(y).puts
      BY DEF Puts
    <3>3. \A j \in k + 1 .. Len(l) : l[j] = Puts(install.swap[j])
      BY <2>2, <2>3
    <3>. HIDE DEF P
    <3>. QED
      BY <3>1, <3>2, <3>3
  <2>. QED
    BY <1>2, <2>3, <2>4 DEF EffectOf
<1>3. P \cap Marks = {}
  BY <1>1 DEF OfInstall
<1>4. "repository" \notin P /\ "media_files" \notin P /\ "work_files" \notin P /\ "save" \notin P
  BY <1>3 DEF Marks, SentMedia
<1>. HIDE DEF l, P
<1>. QED
  BY <1>1, <1>2, <1>4, TaskKeeps

LEMMA SysConfigKeeps == IctInv /\ SysConfigTask => IctInv'
<1>. SUFFICES ASSUME IctInv, SysConfigTask PROVE IctInv'
  OBVIOUS
<1>. DEFINE l == ApplySysConfig(install)
            P == {"profile_dir"} \cup Range(install.profiles)
            T == {}
            each == [k \in DOMAIN install.profiles |-> Profile(install.profiles[k], install)]
<1>1. l \in Seq(Effects(P, T)) /\ Task("apply-sysconfig", l) /\ OfInstall(install)
  BY SysConfigType, Installing DEF SysConfigTask, IctInv
<1>2. ASSUME EffectOf(target, l, Len(l), target'), ~install.dry,
             \A k \in 1 .. Len(l) : l[k] # Failing,
             NEW x \in Range(install.profiles)
      PROVE  x \in target' /\ x \notin install.invalid
  <2>1. PICK k \in 1 .. Len(install.profiles) : x = install.profiles[k]
    BY <1>1, <1>2 DEF OfInstall, Range
  <2>2. l = <<Puts("profile_dir")>> \o each
    <3>1. install.profiles # <<>>
      BY <2>1
    <3>. QED
      BY <1>2, <3>1 DEF ApplySysConfig
  <2>3. Len(l) = 1 + Len(install.profiles)
        /\ \A j \in 1 .. Len(install.profiles) : l[1 + j] = Profile(install.profiles[j], install)
    <3>. DEFINE E == {Puts("profile_dir")} \cup {each[j] : j \in 1 .. Len(install.profiles)}
                one == <<Puts("profile_dir")>>
    <3>1. DOMAIN each = 1 .. Len(install.profiles) /\ Len(install.profiles) \in Nat
          /\ \A j \in 1 .. Len(install.profiles) :
                each[j] = Profile(install.profiles[j], install)
      BY <1>1 DEF OfInstall
    <3>. HIDE DEF each
    <3>2. each \in [1 .. Len(install.profiles) -> E]
      <4>1. each = [j \in 1 .. Len(install.profiles) |-> each[j]]
        BY <1>1 DEF OfInstall, each
      <4>. QED
        BY <4>1
    <3>3. Puts("profile_dir") \in E
      OBVIOUS
    <3>. HIDE DEF E
    <3>4. one \in Seq(E) /\ Len(one) = 1
      BY <3>3
    <3>5. each \in Seq(E) /\ Len(each) = Len(install.profiles)
      BY <3>1, <3>2
    <3>6. l = one \o each
      BY <2>2
    <3>. HIDE DEF one, l
    <3>7. /\ Len(l) = Len(one) + Len(each)
          /\ \A j \in 1 .. Len(one) + Len(each) : l[j] = IF j <= Len(one) THEN one[j] ELSE each[j - Len(one)]
      BY ZenonT(120), <3>4, <3>5, <3>6, ConcatProperties
    <3>8. ASSUME NEW j \in 1 .. Len(install.profiles) PROVE l[1 + j] = each[j]
      <4>1. 1 + j \in 1 .. Len(one) + Len(each) /\ ~(1 + j <= Len(one)) /\ (1 + j) - Len(one) = j
        BY <3>1, <3>4, <3>5
      <4>. QED
        BY <3>7, <4>1
    <3>. QED
      BY <3>1, <3>4, <3>5, <3>7, <3>8
  <2>. HIDE DEF l
  <2>4. 1 + k \in 1 .. Len(l) /\ l[1 + k] = Profile(x, install)
    BY <1>1, <2>1, <2>3 DEF OfInstall
  <2>5. x \notin install.invalid /\ l[1 + k] = Puts(x)
    BY <1>2, <2>4 DEF Profile
  <2>6. \A j \in (1 + k) + 1 .. Len(l) : l[j].takes \subseteq {}
    <3>1. ASSUME NEW j \in (1 + k) + 1 .. Len(l) PROVE l[j].takes \subseteq {}
      <4>1. j \in 1 .. Len(l)
        BY <1>1, <2>1, <2>3 DEF OfInstall
      <4>2. l[j] \in Effects(P, T) /\ l[j] # Failing
        <5>. HIDE DEF P, T
        <5>. QED
          BY <1>1, <1>2, <4>1
      <4>. QED
        BY <4>2 DEF Effects
    <3>. QED
      BY <3>1
  <2>7. x \in l[1 + k].puts
    BY <2>5 DEF Puts
  <2>. QED
    BY <1>2, <2>4, <2>5, <2>6, <2>7 DEF EffectOf
<1>3. ASSUME EffectOf(target, l, Len(l), target'), ~install.dry,
             \A k \in 1 .. Len(l) : l[k] # Failing
      PROVE  Completed("apply-sysconfig", install, target', archive)
  BY <1>2, <1>3 DEF Completed
<1>4. Range(install.profiles) \cap Marks = {}
  BY <1>1 DEF OfInstall
<1>5. "repository" \notin P /\ "media_files" \notin P /\ "work_files" \notin P /\ "save" \notin P
  BY <1>4 DEF Marks, SentMedia
<1>. HIDE DEF l, P
<1>. QED
  BY <1>1, <1>3, <1>5, TaskKeeps

LEMMA FilesKeep ==
    ASSUME IctInv, NEW files, IsFiniteSet(files), NEW name,
           name \in {"transfer-zpool-cache", "transfer-files"},
           Task(name, TransferFiles(install, files)),
           "repository" \notin files, "media_files" \notin files, "work_files" \notin files,
           "save" \notin files, name = "transfer-files" => files \subseteq LogFiles(install)
    PROVE  IctInv'
<1>1. TransferFiles(install, files) \in Seq(Effects(files, {}))
  BY TransferFilesType
<1>2. Completed(name, install, target', archive)
  BY DEF Completed
<1>. QED
  BY <1>1, <1>2, TaskKeeps

LEMMA ZpoolCacheKeeps == IctInv /\ ZpoolCache => IctInv'
<1>. SUFFICES ASSUME IctInv, ZpoolCache PROVE IctInv'
  OBVIOUS
<1>1. ZpoolCacheFiles(install) \subseteq {"zpool.cache", "hostid"}
  BY DEF ZpoolCacheFiles
<1>2. IsFiniteSet(ZpoolCacheFiles(install))
  <2>1. IsFiniteSet({"zpool.cache", "hostid"})
    <3>1. IsFiniteSet({"zpool.cache"} \cup {"hostid"})
      BY FS_Singleton, FS_AddElement
    <3>2. {"zpool.cache"} \cup {"hostid"} = {"zpool.cache", "hostid"}
      OBVIOUS
    <3>. QED
      BY <3>1, <3>2
  <2>. QED
    BY <1>1, <2>1, FS_Subset
<1>. QED
  BY <1>1, <1>2, FilesKeep DEF ZpoolCache

LEMMA LogsKeep == IctInv /\ Logs => IctInv'
<1>. SUFFICES ASSUME IctInv, Logs PROVE IctInv'
  OBVIOUS
<1>1. LogFiles(install) \subseteq {"manifest", "messages", "service_logs"}
  BY DEF LogFiles
<1>2. IsFiniteSet(LogFiles(install))
  <2>1. IsFiniteSet({"manifest", "messages", "service_logs"})
    <3>1. IsFiniteSet({"manifest"} \cup {"messages"})
      BY FS_Singleton, FS_AddElement
    <3>2. IsFiniteSet(({"manifest"} \cup {"messages"}) \cup {"service_logs"})
      BY <3>1, FS_AddElement
    <3>3. ({"manifest"} \cup {"messages"}) \cup {"service_logs"}
             = {"manifest", "messages", "service_logs"}
      OBVIOUS
    <3>. QED
      BY <3>2, <3>3
  <2>. QED
    BY <1>1, <2>1, FS_Subset
<1>. QED
  BY <1>1, <1>2, FilesKeep DEF Logs

LEMMA CleanupKeeps == IctInv /\ Cleanup => IctInv'
<1>. SUFFICES ASSUME IctInv, Cleanup PROVE IctInv'
  OBVIOUS
<1>. DEFINE l == CleanupCPIOInstall(install)
            P == {"mnttab", "saved_config", "uuid"}
            T == {"work_files", "save", "media_packages", "media_files"}
            c == Checkpoints(install)
<1>1. l \in Seq(Effects(P, T)) /\ Task("cleanup", l)
  BY CleanupOrder DEF Cleanup
<1>2. ~install.dry =>
         /\ Len(l) >= 4 /\ l[1] = Puts("mnttab") /\ l[2] = Takes("work_files")
         /\ l[Len(l)] = Takes("media_files")
         /\ install.save => l[3] = Puts("saved_config") /\ l[4] = Takes("save")
  BY CleanupOrder
<1>. HIDE DEF l
<1>3. PICK n \in 0 .. Len(l) : Executed("cleanup", l, n)
  BY <1>1, ExecutesEffect DEF Task
<1>4. archive' = archive /\ snapshot' = snapshot /\ install' = install
  BY <1>1, <1>3 DEF Task, Executed
<1>5. target' \subseteq target \cup P /\ target \ T \subseteq target'
  <2>. HIDE DEF P, T
  <2>. QED
    BY <1>1, <1>3, TargetFrame
<1>6. EffectOf(target, l, n, target') /\ Len(l) \in Nat /\ n \in Nat
  BY <1>1, <1>3 DEF Executed
<1>7. ASSUME NEW k \in 1 .. n PROVE l[k].puts \subseteq P /\ l[k].takes \subseteq T
  <2>1. l[k] \in Effects(P, T) /\ l[k] # Failing
    <3>1. k \in 1 .. Len(l)
      BY <1>6
    <3>. HIDE DEF P, T
    <3>. QED
      BY <1>1, <1>3, <3>1 DEF Executed
  <2>. QED
    BY <2>1 DEF Effects
<1>8. SaveKept(install, target')
  <2>1. ~install.save => "save" \notin target'
    BY <1>5 DEF IctInv, SaveKept
  <2>2. ASSUME install.save, ~install.dry, install.by = "text"
        PROVE  "save" \in target' \/ "saved_config" \in target'
    <3>1. CASE n >= 3
      <4>1. 3 \in 1 .. n /\ "saved_config" \in l[3].puts
        BY <1>2, <1>6, <2>2, <3>1 DEF Puts
      <4>2. \A j \in 3 + 1 .. n : j \in 1 .. n
        BY <1>6
      <4>3. \A j \in 3 + 1 .. n : "saved_config" \notin l[j].takes
        BY <1>7, <4>2
      <4>. QED
        BY <1>6, <4>1, <4>3 DEF EffectOf
    <3>2. CASE ~(n >= 3)
      <4>1. \A j \in 1 .. n : j = 1 \/ j = 2
        BY <1>6, <3>2
      <4>2. \A j \in 1 .. n : "save" \notin l[j].takes /\ "saved_config" \notin l[j].takes
        BY <1>2, <2>2, <4>1 DEF Puts, Takes
      <4>3. "save" \in target \/ "saved_config" \in target
        BY <2>2 DEF IctInv, SaveKept
      <4>. QED
        BY <1>6, <4>2, <4>3 DEF EffectOf
    <3>. QED
      BY <3>1, <3>2
  <2>. QED
    BY <2>1, <2>2 DEF SaveKept
<1>9. ASSUME n = Len(l), ~install.dry PROVE Completed("cleanup", install, target', archive)
  <2>1. ASSUME NEW x, x \notin P, NEW k \in 1 .. n, x \in l[k].takes PROVE x \notin target'
    <3>1. \A j \in k .. n : j \in 1 .. n
      BY <1>6
    <3>2. \A j \in k .. n : x \notin l[j].puts
      BY <1>7, <2>1, <3>1
    <3>. QED
      BY <1>6, <2>1, <3>2 DEF EffectOf
  <2>2. 2 \in 1 .. n /\ 4 \in 1 .. n /\ n \in 1 .. n
    BY <1>2, <1>6, <1>9
  <2>3. "work_files" \notin target'
    BY <1>2, <1>9, <2>1, <2>2 DEF Takes
  <2>4. "media_files" \notin target'
    BY <1>2, <1>9, <2>1, <2>2 DEF Takes
  <2>5. CASE install.save
    <3>1. "save" \notin target'
      BY <1>2, <1>9, <2>1, <2>2, <2>5 DEF Takes
    <3>. QED
      BY <2>3, <2>4, <3>1 DEF Completed
  <2>6. CASE ~install.save
    BY <1>8, <2>3, <2>4, <2>6 DEF Completed, SaveKept
  <2>. QED
    BY <2>5, <2>6
<1>10. /\ install \in Installs /\ ~failed /\ OrderOf(install, c)
  BY <1>3, Order DEF IctInv, Executed
<1>11. PICK p \in 0 .. Len(c) : Reached(p, c)
  BY <1>10 DEF IctInv
<1>12. p + 1 \in 1 .. Len(c) /\ c[p + 1] = "cleanup"
  BY <1>3, <1>10, <1>11, NextOne
<1>13. archive = None
  <2>1. p + 1 \in p + 1 .. Len(c)
    BY <1>10, <1>12 DEF OrderOf
  <2>. QED
    BY <1>11, <1>12, <2>1 DEF Reached, Late
<1>14. ArchiveFresh'
  BY <1>4, <1>13 DEF ArchiveFresh
<1>15. install.dry => archive' = None /\ snapshot' = None
  BY <1>4 DEF IctInv
<1>16. T # {} => "cleanup" \notin Late
  BY DEF Late
<1>17. n = Len(l) /\ ~install.dry => Completed("cleanup", install, target', archive')
  BY <1>4, <1>9
<1>. QED
  BY <1>1, <1>3, <1>4, <1>8, <1>14, <1>15, <1>16, <1>17, Advances

LEMMA OneMark ==
    ASSUME NEW x, NEW d \in BOOLEAN
    PROVE  (IF d THEN <<>> ELSE <<Puts(x)>>) \in Seq(Effects({x}, {}))
<1>1. Puts(x) \in Effects({x}, {})
  BY DEF Puts, Effects
<1>2. <<>> \in Seq(Effects({x}, {})) /\ <<Puts(x)>> \in Seq(Effects({x}, {}))
  BY <1>1
<1>. QED
  BY <1>2

LEMMA BootArchiveKeeps == IctInv /\ BootArchive => IctInv'
<1>. SUFFICES ASSUME IctInv, BootArchive PROVE IctInv'
  OBVIOUS
<1>. DEFINE l == IF install.dry THEN <<>> ELSE <<Puts("archive")>>
            P == {"archive"}
            T == {}
            c == Checkpoints(install)
<1>1. l \in Seq(Effects(P, T)) /\ Executes("boot-archive", l)
  BY OneMark DEF BootArchive
<1>2. archive' = (IF failed' \/ install.dry THEN archive ELSE target) /\ snapshot' = snapshot
  BY DEF BootArchive
<1>3. ~install.dry => Len(l) = 1 /\ l[1] = Puts("archive")
  OBVIOUS
<1>. HIDE DEF l
<1>4. PICK n \in 0 .. Len(l) : Executed("boot-archive", l, n)
  BY <1>1, ExecutesEffect
<1>5. /\ target' \subseteq target \cup P /\ target \subseteq target' /\ install' = install
      /\ failed' = (n < Len(l)) /\ EffectOf(target, l, n, target') /\ Len(l) \in Nat
  <2>1. target \ T = target
    OBVIOUS
  <2>. HIDE DEF P, T
  <2>2. target' \subseteq target \cup P /\ target \ T \subseteq target'
    BY <1>1, <1>4, TargetFrame
  <2>3. Len(l) \in Nat
    BY <1>1
  <2>. QED
    BY <1>4, <2>1, <2>2, <2>3 DEF Executed
<1>6. SaveKept(install, target')
  BY <1>5 DEF IctInv, SaveKept
<1>7. ASSUME n = Len(l), ~install.dry
      PROVE  Completed("boot-archive", install, target', archive')
  <2>1. n = 1 /\ 1 \in 1 .. n /\ 1 + 1 .. n = {}
    BY <1>3, <1>7
  <2>2. "archive" \in target'
    BY <1>3, <1>5, <1>7, <2>1 DEF EffectOf, Puts
  <2>3. archive' = target
    <3>1. ~(n < Len(l))
      BY <1>5, <1>7
    <3>2. ~failed'
      BY <1>5, <3>1
    <3>. QED
      BY <1>2, <1>7, <3>2
  <2>. QED
    BY <1>5, <2>2, <2>3 DEF Completed
<1>8. /\ install \in Installs /\ ~failed /\ OrderOf(install, c)
  BY <1>4, Order DEF IctInv, Executed
<1>9. PICK p \in 0 .. Len(c) : Reached(p, c)
  BY <1>8 DEF IctInv
<1>10. p + 1 \in 1 .. Len(c) /\ c[p + 1] = "boot-archive"
  BY <1>4, <1>8, <1>9, NextOne
<1>11. archive = None
  <2>1. p + 1 \in p + 1 .. Len(c)
    BY <1>8, <1>10 DEF OrderOf
  <2>. QED
    BY <1>9, <1>10, <2>1 DEF Reached, Late
<1>12. ArchiveFresh'
  BY <1>2, <1>5, <1>11 DEF ArchiveFresh
<1>13. install.dry => archive' = None /\ snapshot' = None
  BY <1>2 DEF IctInv
<1>. HIDE DEF P, T
<1>14. "repository" \notin P /\ "media_files" \notin P /\ "work_files" \notin P /\ "save" \notin P
       /\ T = {}
  BY DEF P, T
<1>. QED
  BY <1>1, <1>2, <1>4, <1>6, <1>7, <1>12, <1>13, <1>14, Advances

LEMMA CreateSnapshotKeeps == IctInv /\ CreateSnapshot => IctInv'
<1>. SUFFICES ASSUME IctInv, CreateSnapshot PROVE IctInv'
  OBVIOUS
<1>. DEFINE l == IF install.dry THEN <<>> ELSE <<Puts("snapshot")>>
            P == {"snapshot"}
            T == {}
            c == Checkpoints(install)
<1>1. l \in Seq(Effects(P, T)) /\ Executes("create-snapshot", l)
  BY OneMark DEF CreateSnapshot
<1>2. snapshot' = (IF failed' \/ install.dry THEN snapshot ELSE target) /\ archive' = archive
  BY DEF CreateSnapshot
<1>. HIDE DEF l
<1>3. PICK n \in 0 .. Len(l) : Executed("create-snapshot", l, n)
  BY <1>1, ExecutesEffect
<1>4. /\ target' \subseteq target \cup P /\ target \subseteq target' /\ install' = install
  <2>1. target \ T = target
    OBVIOUS
  <2>. HIDE DEF P, T
  <2>2. target' \subseteq target \cup P /\ target \ T \subseteq target'
    BY <1>1, <1>3, TargetFrame
  <2>. QED
    BY <1>3, <2>1, <2>2 DEF Executed
<1>5. SaveKept(install, target')
  BY <1>4 DEF IctInv, SaveKept
<1>6. Completed("create-snapshot", install, target', archive')
  BY DEF Completed
<1>7. /\ install \in Installs /\ ~failed /\ OrderOf(install, c)
  BY <1>3, Order DEF IctInv, Executed
<1>8. PICK p \in 0 .. Len(c) : Reached(p, c)
  BY <1>7 DEF IctInv
<1>9. p + 1 \in 1 .. Len(c) /\ c[p + 1] = "create-snapshot" /\ snapshot = None
  BY <1>3, <1>7, <1>8, NextOne
<1>10. 1 .. p = 1 .. Len(c) - 1
  BY <1>7, <1>8, <1>9 DEF OrderOf, Reached
<1>11. ASSUME snapshot' # None PROVE ~failed' /\ Taken(install, snapshot', archive')
  <2>1. ~failed' /\ ~install.dry /\ snapshot' = target
    BY <1>2, <1>9, <1>11
  <2>2. \A j \in 1 .. Len(c) - 1 : Completed(c[j], install, target, archive)
    BY <1>8, <1>10, <2>1 DEF Reached
  <2>. HIDE DEF c
  <2>3. "profile_links" \in target /\ "repository" \notin target
    BY <1>7, <2>2 DEF OrderOf, Completed
  <2>4. Range(install.profiles) \subseteq target \ install.invalid
    BY <1>7, <2>2 DEF OrderOf, Completed
  <2>5. install.by # "zone" => "archive" \in target /\ archive \subseteq target
    BY <1>7, <2>2 DEF OrderOf, Completed
  <2>6. install.by # "zone" /\ install.dump => "dumpadm" \in target
    BY <1>7, <2>2 DEF OrderOf, Completed
  <2>7. install.by # "text" => Range(install.swap) \subseteq target
    BY <1>7, <2>2 DEF OrderOf, Completed
  <2>8. install.by = "text" => target \cap {"media_files", "work_files", "save"} = {}
    BY <1>7, <2>2 DEF OrderOf, Completed
  <2>. QED
    BY <1>2, <2>1, <2>3, <2>4, <2>5, <2>6, <2>7, <2>8 DEF Taken
<1>12. archive # None => target' \ archive \subseteq LogFiles(install) \cup {"archive", "snapshot"}
  BY <1>4 DEF IctInv, ArchiveFresh
<1>13. ArchiveFresh'
  BY <1>2, <1>4, <1>12 DEF ArchiveFresh
<1>14. install.dry => archive' = None /\ snapshot' = None
  BY <1>2 DEF IctInv
<1>. HIDE DEF P, T
<1>15. "repository" \notin P /\ "media_files" \notin P /\ "work_files" \notin P /\ "save" \notin P
       /\ T = {}
  BY DEF P, T
<1>. QED
  BY <1>1, <1>2, <1>3, <1>5, <1>6, <1>11, <1>13, <1>14, <1>15, Advances

\* The checkpoints that complete an installation, whatever they have to
\* complete and wherever one of them fails: no invalid profile is in the
\* snapshot, the boot archive is not older than what it is made of, and the
\* snapshot has what each checkpoint was to do.
THEOREM CompletionIsSound == IctSpec => []CompletionSound
<1>1. IctInit => IctInv
  <2>. SUFFICES ASSUME IctInit PROVE IctInv
    OBVIOUS
  <2>. DEFINE c == Checkpoints(install)
  <2>1. install \in Installs /\ OrderOf(install, c) /\ c \in Seq(Steps) /\ todo = c
    BY Order DEF IctInit
  <2>. HIDE DEF c
  <2>2. Reached(0, c)
    <3>1. Len(c) \in Nat /\ 0 \in 0 .. Len(c) /\ Len(todo) = Len(c) - 0
          /\ \A j \in 1 .. Len(todo) : 0 + j = j
      BY <2>1 DEF OrderOf
    <3>2. archive = None /\ snapshot = None
      BY DEF IctInit
    <3>3. \A j \in 1 .. 0 : FALSE
      OBVIOUS
    <3>. QED
      BY <2>1, <3>1, <3>2, <3>3 DEF Reached
  <2>3. \E p \in 0 .. Len(c) : Reached(p, c)
    BY <2>2 DEF Reached
  <2>4. SaveKept(install, target)
    <3>1. target = Transferred(install)
      BY DEF IctInit
    <3>2. CASE install.save
      BY <3>1, <3>2 DEF SaveKept, Transferred
    <3>3. CASE ~install.save
      BY <3>1, <3>3 DEF SaveKept, Transferred, SentMedia
    <3>. QED
      BY <3>2, <3>3
  <2>5. archive = None /\ snapshot = None /\ failed = FALSE
    BY DEF IctInit
  <2>. QED
    BY <2>1, <2>3, <2>4, <2>5 DEF IctInv, ArchiveFresh, c
<1>2. IctInv /\ [IctNext]_ictVars => IctInv'
  <2>. SUFFICES ASSUME IctInv, [IctNext]_ictVars PROVE IctInv'
    OBVIOUS
  <2>1. CASE UNCHANGED ictVars
    <3>1. install' = install /\ todo' = todo /\ target' = target /\ archive' = archive
          /\ snapshot' = snapshot /\ failed' = failed
      BY <2>1 DEF ictVars
    <3>2. Checkpoints(install)' = Checkpoints(install)
      BY <3>1
    <3>3. ASSUME NEW p \in 0 .. Len(Checkpoints(install)), Reached(p, Checkpoints(install))
          PROVE  Reached(p, Checkpoints(install))'
      BY <3>1, <3>2, <3>3 DEF Reached
    <3>. QED
      BY <3>1, <3>2, <3>3 DEF IctInv, ArchiveFresh
  <2>. QED
    BY <2>1, CleanupKeeps, SmfKeeps, DumpKeeps, SwapKeeps, DevicesKeeps, SysConfigKeeps,
       ZpoolCacheKeeps, LogsKeep, BootArchiveKeeps, CreateSnapshotKeeps DEF IctNext
<1>3. IctInv => CompletionSound
  <2>. SUFFICES ASSUME IctInv PROVE CompletionSound
    OBVIOUS
  <2>1. ProfilesValid
    BY DEF IctInv, ProfilesValid, Taken
  <2>2. SnapshotComplete
    BY DEF IctInv, SnapshotComplete, Taken, SaveKept
  <2>. QED
    BY <2>1, <2>2 DEF IctInv, CompletionSound
<1>. QED
  BY <1>1, <1>2, <1>3, PTL DEF IctSpec

-----------------------------------------------------------------------------
(* Instantiation of pools (PoolInstantiation): what there is to do.        *)

Destroying == {"zpool_destroy", "fs_destroy", "zvol_destroy"}
Making == {"zpool_create", "fs_create", "zvol_create", "be_init", "be_fs"}
Uses == STRING \cup {"none", "swap", "dump"}
Paths == Seq(STRING \cup {"ROOT"})
Ops == Destroying \cup Making \cup {"raise"}
Items == [op : Ops, path : Paths, use : Uses]
Children(p) == {p.fs, p.zvols}
Kids(p) == Range(p.fs) \cup Range(p.zvols)

LEMMA PathsOfPool ==
    ASSUME NEW p \in PoolType
    PROVE  /\ PoolPath(p) \in Paths /\ Len(PoolPath(p)) = 1
           /\ Root(p) \in Paths
           /\ \A x \in Kids(p) : /\ Path(p, x) \in Paths /\ Len(Path(p, x)) = 1 + Len(x.name)
                                 /\ Beneath(PoolPath(p), Path(p, x))
<1>. DEFINE N == STRING \cup {"ROOT"}
<1>1. p.name \in N /\ "ROOT" \in N
  BY DEF PoolType
<1>. HIDE DEF N
<1>2. <<p.name>> \in Seq(N) /\ <<"ROOT">> \in Seq(N)
  BY <1>1
<1>3. Root(p) \in Seq(N)
  BY <1>2, ConcatProperties DEF Root, PoolPath
<1>4. ASSUME NEW x \in Kids(p)
      PROVE  /\ Path(p, x) \in Seq(N) /\ Len(Path(p, x)) = 1 + Len(x.name)
             /\ Beneath(PoolPath(p), Path(p, x))
  <2>1. x.name \in Seq(STRING)
    <3>1. CASE x \in Range(p.fs)
      <4>. DEFINE R == [name : Seq(STRING), action : STRING, inBe : BOOLEAN]
                  s == p.fs
      <4>2. s \in Seq(R)
        BY DEF PoolType
      <4>3. \A i \in DOMAIN s : s[i] \in R
        <5>. HIDE DEF R, s
        <5>. QED
          BY <4>2
      <4>1. \A i \in DOMAIN s : s[i].name \in Seq(STRING)
        <5>. HIDE DEF s
        <5>. QED
          BY <4>3
      <4>. QED
        BY <3>1, <4>1 DEF Range
    <3>2. CASE x \in Range(p.zvols)
      <4>. DEFINE R == [name : Seq(STRING), action : STRING, use : {"none", "swap", "dump"}]
                  s == p.zvols
      <4>2. s \in Seq(R)
        BY DEF PoolType
      <4>3. \A i \in DOMAIN s : s[i] \in R
        <5>. HIDE DEF R, s
        <5>. QED
          BY <4>2
      <4>1. \A i \in DOMAIN s : s[i].name \in Seq(STRING)
        <5>. HIDE DEF s
        <5>. QED
          BY <4>3
      <4>. QED
        BY <3>2, <4>1 DEF Range
    <3>. QED
      BY <3>1, <3>2 DEF Kids
  <2>2. x.name \in Seq(N)
    BY <2>1 DEF N
  <2>3. /\ Path(p, x) \in Seq(N) /\ Len(Path(p, x)) = 1 + Len(x.name)
        /\ Path(p, x)[1] = p.name
    <3>1. Len(<<p.name>>) = 1 /\ Len(x.name) \in Nat /\ <<p.name>>[1] = p.name
      BY <2>2
    <3>2. 1 \in 1 .. 1 + Len(x.name)
      BY <3>1
    <3>. QED
      BY <1>2, <2>2, <3>1, <3>2, ConcatProperties DEF Path
  <2>4. ASSUME NEW q \in Seq(N), Len(q) >= 1
        PROVE  SubSeq(q, 1, 1) = <<q[1]>>
    <3>1. 1 \in 0 .. Len(q) /\ 1 \in 1 .. 1
      BY <2>4
    <3>. DEFINE r == SubSeq(q, 1, 1)
    <3>2. r \in Seq(N) /\ Len(r) = 1 /\ r[1] = q[1]
      BY <3>1, FirstOnes
    <3>. HIDE DEF r
    <3>3. r = <<r[1]>>
      BY <3>2
    <3>. QED
      BY <3>2, <3>3 DEF r
  <2>5. SubSeq(<<p.name>>, 1, 1) = <<p.name>> /\ SubSeq(Path(p, x), 1, 1) = <<p.name>>
    <3>1. Len(x.name) \in Nat /\ Len(<<p.name>>) = 1 /\ <<p.name>>[1] = p.name
      BY <2>2
    <3>. DEFINE q == Path(p, x)
                r == <<p.name>>
    <3>2. q \in Seq(N) /\ Len(q) >= 1 /\ q[1] = p.name
      BY <2>3, <3>1
    <3>3. r \in Seq(N) /\ Len(r) >= 1 /\ r[1] = p.name
      BY <1>2, <3>1
    <3>. HIDE DEF q, r
    <3>4. SubSeq(r, 1, 1) = <<p.name>> /\ SubSeq(q, 1, 1) = <<p.name>>
      BY <2>4, <3>2, <3>3
    <3>. QED
      BY <3>4 DEF q, r
  <2>6. 1 <= Len(Path(p, x))
    BY <2>2, <2>3
  <2>. QED
    BY <1>2, <2>3, <2>4, <2>5, <2>6 DEF Beneath, IsPrefix, PoolPath
<1>. QED
  BY <1>2, <1>3, <1>4 DEF N, Paths, PoolPath

LEMMA DoType ==
    ASSUME NEW op \in Ops, NEW d \in Paths, NEW use \in Uses
    PROVE  Do(op, d, use) \in Items
  BY DEF Do, Items

\* What Of puts together.
LEMMA OfItems ==
    ASSUME NEW p, NEW xs, DOMAIN xs = 1 .. Len(xs), Len(xs) \in Nat,
           NEW chosen \in SUBSET Range(xs), \A x \in Range(xs) : Path(p, x) \in Paths,
           NEW op \in Ops, NEW use \in Uses
    PROVE  /\ Of(p, xs, chosen, op, use) \in Seq(Items)
           /\ \A it : it \in Range(Of(p, xs, chosen, op, use)) <=>
                         \E x \in chosen : it = Do(op, Path(p, x), use)
<1>. DEFINE seqs == [i \in 1 .. Len(xs) |->
                       IF xs[i] \in chosen THEN <<Do(op, Path(p, xs[i]), use)>> ELSE <<>>]
<1>1. seqs \in [1 .. Len(xs) -> Seq(Items)]
  <2>1. ASSUME NEW i \in 1 .. Len(xs)
        PROVE  Do(op, Path(p, xs[i]), use) \in Items
    <3>1. xs[i] \in Range(xs)
      BY DEF Range
    <3>. QED
      BY <3>1, DoType
  <2>2. <<>> \in Seq(Items)
    OBVIOUS
  <2>3. ASSUME NEW i \in 1 .. Len(xs)
        PROVE  <<Do(op, Path(p, xs[i]), use)>> \in Seq(Items)
    BY <2>1
  <2>. QED
    BY <2>2, <2>3
<1>2. \A i \in 1 .. Len(xs) : Range(seqs[i]) =
          IF xs[i] \in chosen THEN {Do(op, Path(p, xs[i]), use)} ELSE {}
  <2>1. \A x : Range(<<x>>) = {x}
    BY DEF Range
  <2>2. Range(<<>>) = {}
    BY DEF Range
  <2>. QED
    BY <2>1, <2>2
<1>3. Of(p, xs, chosen, op, use) = FlattenSeq(seqs)
  BY DEF Of
<1>4. /\ FlattenSeq(seqs) \in Seq(Items)
      /\ Range(FlattenSeq(seqs)) = UNION {Range(seqs[i]) : i \in 1 .. Len(xs)}
  <2>. HIDE DEF seqs
  <2>. QED
    BY <1>1, RangeOfAll
<1>5. \A it : it \in Range(FlattenSeq(seqs)) <=>
                  \E i \in 1 .. Len(xs) : xs[i] \in chosen /\ it = Do(op, Path(p, xs[i]), use)
  <2>. HIDE DEF seqs
  <2>1. \A it : it \in Range(FlattenSeq(seqs)) <=>
                    \E i \in 1 .. Len(xs) : it \in Range(seqs[i])
    BY <1>4
  <2>2. \A i \in 1 .. Len(xs) : \A it : it \in Range(seqs[i]) <=>
            xs[i] \in chosen /\ it = Do(op, Path(p, xs[i]), use)
    BY <1>2
  <2>. QED
    BY <2>1, <2>2
<1>6. \A x : x \in Range(xs) <=> \E i \in 1 .. Len(xs) : x = xs[i]
  BY DEF Range
<1>. HIDE DEF seqs
<1>. QED
  BY <1>3, <1>4, <1>5, <1>6

LEMMA PoolsOfTarget ==
    ASSUME want \in Targets
    PROVE  /\ Len(WantedPools) \in Nat
           /\ \A i \in 1 .. Len(WantedPools) : WantedPools[i] \in PoolType
           /\ Range(WantedPools) = {WantedPools[i] : i \in 1 .. Len(WantedPools)}
           /\ \A p \in Range(WantedPools) : p \in PoolType
<1>. DEFINE s == WantedPools
<1>1. s \in Seq(PoolType)
  BY PoolsAssumption DEF WantedPools
<1>. HIDE DEF s
<1>2. /\ Len(s) \in Nat /\ DOMAIN s = 1 .. Len(s)
      /\ \A i \in 1 .. Len(s) : s[i] \in PoolType
  BY <1>1
<1>3. Range(s) = {s[i] : i \in 1 .. Len(s)}
  BY <1>2 DEF Range
<1>. QED
  BY <1>2, <1>3 DEF s

LEMMA KidsOfPool ==
    ASSUME NEW p \in PoolType
    PROVE  /\ DOMAIN p.fs = 1 .. Len(p.fs) /\ Len(p.fs) \in Nat
           /\ DOMAIN p.zvols = 1 .. Len(p.zvols) /\ Len(p.zvols) \in Nat
           /\ p.action \in Uses
<1>. DEFINE R == [name : Seq(STRING), action : STRING, inBe : BOOLEAN]
            V == [name : Seq(STRING), action : STRING, use : {"none", "swap", "dump"}]
<1>1. p.fs \in Seq(R) /\ p.zvols \in Seq(V) /\ p.action \in STRING
  BY DEF PoolType
<1>. HIDE DEF R, V
<1>. QED
  BY <1>1 DEF Uses

\* What OfVolumes puts together.
LEMMA OfVolumesItems ==
    ASSUME want \in Targets, NEW op \in Ops, NEW use \in Uses, NEW actions
    PROVE  /\ OfVolumes(op, use, actions) \in Seq(Items)
           /\ \A it : it \in Range(OfVolumes(op, use, actions)) <=>
                 \E p \in Range(WantedPools) : \E v \in Range(p.zvols) :
                     v.use = use /\ v.action \in actions /\ it = Do(op, Path(p, v), use)
<1>. DEFINE n == Len(WantedPools)
            Chosen(p) == Volumes(p, use) \cap Acting(p.zvols, actions)
            one(p) == Of(p, p.zvols, Chosen(p), op, use)
            seqs == [i \in 1 .. n |-> one(WantedPools[i])]
<1>1. ASSUME NEW p \in PoolType
      PROVE  /\ one(p) \in Seq(Items)
             /\ \A it : it \in Range(one(p)) <=>
                    \E v \in Range(p.zvols) :
                        v.use = use /\ v.action \in actions /\ it = Do(op, Path(p, v), use)
  <2>1. \A x \in Range(p.zvols) : Path(p, x) \in Paths
    BY PathsOfPool DEF Kids
  <2>2. Chosen(p) \in SUBSET Range(p.zvols)
    BY DEF Volumes
  <2>3. /\ one(p) \in Seq(Items)
        /\ \A it : it \in Range(one(p)) <=> \E v \in Chosen(p) : it = Do(op, Path(p, v), use)
    <3>1. DOMAIN p.zvols = 1 .. Len(p.zvols) /\ Len(p.zvols) \in Nat
      BY KidsOfPool
    <3>. DEFINE xs == p.zvols
                C == Chosen(p)
    <3>2. /\ DOMAIN xs = 1 .. Len(xs) /\ Len(xs) \in Nat
          /\ \A x \in Range(xs) : Path(p, x) \in Paths
      BY <2>1, <3>1
    <3>3. C \in SUBSET Range(xs)
      BY <2>2
    <3>. HIDE DEF xs, C
    <3>4. Of(p, xs, C, op, use) \in Seq(Items)
      BY <3>2, <3>3, OfItems
    <3>5. \A it : it \in Range(Of(p, xs, C, op, use)) <=>
                      \E x \in C : it = Do(op, Path(p, x), use)
      BY <3>2, <3>3, OfItems
    <3>. QED
      BY <3>4, <3>5 DEF xs, C
  <2>4. \A v : v \in Chosen(p) <=> v \in Range(p.zvols) /\ v.use = use /\ v.action \in actions
    BY DEF Volumes, Acting
  <2>. HIDE DEF Chosen, one
  <2>. QED
    BY <2>3, <2>4
<1>2. n \in Nat /\ \A i \in 1 .. n : WantedPools[i] \in PoolType
  BY PoolsOfTarget
<1>. HIDE DEF one
<1>3. seqs \in [1 .. n -> Seq(Items)]
  BY <1>1, <1>2
<1>4. OfVolumes(op, use, actions) = FlattenSeq(seqs)
  BY DEF OfVolumes, one
<1>5. FlattenSeq(seqs) \in Seq(Items)
      /\ \A it : it \in Range(FlattenSeq(seqs)) <=>
             \E i \in 1 .. n : it \in Range(one(WantedPools[i]))
  <2>1. \A i \in 1 .. n : seqs[i] = one(WantedPools[i])
    OBVIOUS
  <2>. HIDE DEF seqs, n
  <2>. QED
    BY <1>2, <1>3, <2>1, RangeOfAll
<1>6. \A p : p \in Range(WantedPools) <=> \E i \in 1 .. n : p = WantedPools[i]
  BY PoolsOfTarget
<1>. HIDE DEF seqs, n
<1>. QED
  BY <1>1, <1>2, <1>4, <1>5, <1>6

\* The same for the file systems of a pool, and for its volumes.
LEMMA OfKids ==
    ASSUME NEW p \in PoolType, NEW xs \in Children(p),
           NEW chosen \in SUBSET Range(xs), NEW op \in Ops, NEW use \in Uses
    PROVE  /\ Of(p, xs, chosen, op, use) \in Seq(Items)
           /\ \A it : it \in Range(Of(p, xs, chosen, op, use)) <=>
                         \E x \in chosen : it = Do(op, Path(p, x), use)
<1>1. \A x \in Range(xs) : Path(p, x) \in Paths
  BY PathsOfPool DEF Kids, Children
<1>2. DOMAIN xs = 1 .. Len(xs) /\ Len(xs) \in Nat
  BY KidsOfPool DEF Children
<1>3. Of(p, xs, chosen, op, use) \in Seq(Items)
  BY <1>1, <1>2, OfItems
<1>4. \A it : it \in Range(Of(p, xs, chosen, op, use)) <=>
                  \E x \in chosen : it = Do(op, Path(p, x), use)
  BY <1>1, <1>2, OfItems
<1>. QED
  BY <1>3, <1>4

LEMMA InBoth ==
    ASSUME NEW a \in Seq(Items), NEW b \in Seq(Items)
    PROVE  /\ a \o b \in Seq(Items)
           /\ \A it : it \in Range(a \o b) <=> it \in Range(a) \/ it \in Range(b)
  BY RangeOfBoth

LEMMA RangeOfOne ==
    ASSUME NEW S, NEW x \in S
    PROVE  <<x>> \in Seq(S) /\ \A y : y \in Range(<<x>>) <=> y = x
  BY DEF Range

\* What there is to destroy of a pool.
LEMMA DestroyOfItems ==
    ASSUME NEW p \in PoolType
    PROVE  /\ DestroyOf(p) \in Seq(Items)
           /\ p.action \in Replaced =>
                 \A it : it \in Range(DestroyOf(p)) <=>
                            it = Do("zpool_destroy", PoolPath(p), "none")
           /\ p.action \notin Replaced =>
                 \A it : it \in Range(DestroyOf(p)) <=>
                    \/ \E x \in Acting(p.fs, Replaced) : it = Do("fs_destroy", Path(p, x), "none")
                    \/ \E x \in Acting(p.zvols, Replaced) : it = Do("zvol_destroy", Path(p, x), "none")
<1>1. CASE p.action \in Replaced
  <2>1. Do("zpool_destroy", PoolPath(p), "none") \in Items
    BY PathsOfPool, DoType DEF Destroying, Uses, Ops
  <2>. QED
    BY <1>1, <2>1, RangeOfOne DEF DestroyOf
<1>2. CASE p.action \notin Replaced
  <2>. DEFINE F == Acting(p.fs, Replaced)
              V == Acting(p.zvols, Replaced)
              fs == p.fs
              zvols == p.zvols
              fsOp == "fs_destroy"
              zvolOp == "zvol_destroy"
              none == "none"
              a == Of(p, fs, F, fsOp, none)
              b == Of(p, zvols, V, zvolOp, none)
  <2>1. F \in SUBSET Range(fs) /\ V \in SUBSET Range(zvols)
    BY DEF Acting
  <2>2. fsOp \in Ops /\ zvolOp \in Ops /\ none \in Uses
    BY DEF Ops, Destroying, Uses
  <2>3. fs \in Children(p) /\ zvols \in Children(p)
    BY DEF Children
  <2>4. DestroyOf(p) = a \o b
    BY <1>2 DEF DestroyOf
  <2>. HIDE DEF F, V, fs, zvols, fsOp, zvolOp, none
  <2>5. a \in Seq(Items) /\ b \in Seq(Items)
    BY <2>1, <2>2, <2>3, OfKids
  <2>6. \A it : it \in Range(a) <=> \E x \in F : it = Do(fsOp, Path(p, x), none)
    BY <2>1, <2>2, <2>3, OfKids
  <2>7. \A it : it \in Range(b) <=> \E x \in V : it = Do(zvolOp, Path(p, x), none)
    BY <2>1, <2>2, <2>3, OfKids
  <2>. HIDE DEF a, b
  <2>8. a \o b \in Seq(Items) /\ \A it : it \in Range(a \o b) <=> it \in Range(a) \/ it \in Range(b)
    BY <2>5, RangeOfBoth
  <2>9. \A it : it \in Range(DestroyOf(p)) <=>
            (\E x \in F : it = Do(fsOp, Path(p, x), none)) \/ \E x \in V : it = Do(zvolOp, Path(p, x), none)
    BY <2>4, <2>6, <2>7, <2>8
  <2>. QED
    BY <1>2, <2>4, <2>8, <2>9 DEF F, V, fsOp, zvolOp, none
<1>. QED
  BY <1>1, <1>2

\* What there is to do for a boot environment.
LEMMA BootItems ==
    ASSUME NEW p \in PoolType, NEW fs \in SUBSET Range(p.fs)
    PROVE  /\ BootEnvironment(p, fs) \in Seq(Items)
           /\ \A it \in Range(BootEnvironment(p, fs)) :
                 (it.op = "be_init" /\ it.path = Root(p)) \/ it.op = "be_fs"
<1>. DEFINE one == Do("be_init", Root(p), "none")
            files == p.fs
            fsOp == "be_fs"
            none == "none"
            b == Of(p, files, fs, fsOp, none)
<1>1. one \in Items /\ one.op = "be_init" /\ one.path = Root(p)
  <2>1. one \in Items
    BY PathsOfPool, DoType DEF Ops, Making, Uses
  <2>. QED
    BY <2>1 DEF Do
<1>2. fsOp \in Ops /\ none \in Uses /\ files \in Children(p) /\ fs \in SUBSET Range(files)
  BY DEF Ops, Making, Uses, Children
<1>3. CASE p.be
  <2>1. BootEnvironment(p, fs) = <<one>> \o b
    BY <1>3 DEF BootEnvironment
  <2>. HIDE DEF one, files, fsOp, none
  <2>2. b \in Seq(Items)
    BY <1>2, OfKids
  <2>3. \A it : it \in Range(b) <=> \E x \in fs : it = Do(fsOp, Path(p, x), none)
    BY <1>2, OfKids
  <2>4. \A it \in Range(b) : it.op = "be_fs"
    BY <2>3 DEF Do, fsOp
  <2>. HIDE DEF b
  <2>. DEFINE o == <<one>>
  <2>5. o \in Seq(Items) /\ \A it : it \in Range(o) <=> it = one
    BY <1>1, RangeOfOne
  <2>. HIDE DEF o
  <2>6. /\ o \o b \in Seq(Items)
        /\ \A it : it \in Range(o \o b) <=> it \in Range(o) \/ it \in Range(b)
    BY <2>2, <2>5, InBoth
  <2>7. BootEnvironment(p, fs) = o \o b
    BY <2>1 DEF o
  <2>. QED
    BY <1>1, <2>4, <2>5, <2>6, <2>7
<1>4. CASE ~p.be
  <2>1. BootEnvironment(p, fs) = <<>>
    BY <1>4 DEF BootEnvironment
  <2>2. <<>> \in Seq(Items) /\ Range(<<>>) = {}
    BY DEF Range
  <2>. QED
    BY <2>1, <2>2
<1>. QED
  BY <1>3, <1>4

\* What there is to make of a pool.
PoolItem(p) == Do(IF p.vdevs = "empty" THEN "raise" ELSE "zpool_create", PoolPath(p), p.action)
Bootable(p) == BootEnvironment(p, InBoot(p) \cap Acting(p.fs, {"create"}))
ToMake(p, it) ==
    \/ it = PoolItem(p)
    \/ \E x \in Acting(p.fs, {"create", "preserve"}) \ InBoot(p) :
           it = Do("fs_create", Path(p, x), "none")
    \/ \E x \in Acting(p.zvols, {"create", "preserve"}) \cap Volumes(p, "none") :
           it = Do("zvol_create", Path(p, x), "none")
    \/ it \in Range(Bootable(p))
LEMMA CreateOfItems ==
    ASSUME NEW p \in PoolType
    PROVE  /\ CreateOf(p) \in Seq(Items)
           /\ \A it : it \in Range(CreateOf(p)) <=> ToMake(p, it)
<1>. DEFINE F == Acting(p.fs, {"create", "preserve"}) \ InBoot(p)
            V == Acting(p.zvols, {"create", "preserve"}) \cap Volumes(p, "none")
            fs == p.fs
            zvols == p.zvols
            fsOp == "fs_create"
            zvolOp == "zvol_create"
            none == "none"
            z == PoolItem(p)
            a == Of(p, fs, F, fsOp, none)
            b == Of(p, zvols, V, zvolOp, none)
            c == Bootable(p)
<1>1. F \in SUBSET Range(fs) /\ V \in SUBSET Range(zvols)
  BY DEF Acting
<1>2. fsOp \in Ops /\ zvolOp \in Ops /\ none \in Uses
  BY DEF Ops, Making, Uses
<1>3. fs \in Children(p) /\ zvols \in Children(p)
  BY DEF Children
<1>4. CreateOf(p) = <<z>> \o a \o b \o c
  BY DEF CreateOf, GetVdevNames, PoolItem, Bootable
<1>5. z \in Items
  <2>1. (IF p.vdevs = "empty" THEN "raise" ELSE "zpool_create") \in Ops
    BY DEF Ops, Making
  <2>2. PoolPath(p) \in Paths /\ p.action \in Uses
    BY PathsOfPool, KidsOfPool
  <2>. QED
    BY <2>1, <2>2, DoType DEF PoolItem
<1>6. c \in Seq(Items)
  <2>1. InBoot(p) \cap Acting(p.fs, {"create"}) \in SUBSET Range(p.fs)
    BY DEF InBoot
  <2>. QED
    BY <2>1, BootItems DEF Bootable
<1>7. \A it : ToMake(p, it) <=>
          \/ it = z
          \/ \E x \in F : it = Do(fsOp, Path(p, x), none)
          \/ \E x \in V : it = Do(zvolOp, Path(p, x), none)
          \/ it \in Range(c)
  BY DEF ToMake
<1>. HIDE DEF F, V, fs, zvols, fsOp, zvolOp, none, z, c
<1>8. a \in Seq(Items) /\ b \in Seq(Items)
  BY <1>1, <1>2, <1>3, OfKids
<1>9. \A it : it \in Range(a) <=> \E x \in F : it = Do(fsOp, Path(p, x), none)
  BY <1>1, <1>2, <1>3, OfKids
<1>10. \A it : it \in Range(b) <=> \E x \in V : it = Do(zvolOp, Path(p, x), none)
  BY <1>1, <1>2, <1>3, OfKids
<1>. HIDE DEF a, b
<1>. DEFINE o == <<z>>
            oa == o \o a
            oab == oa \o b
<1>11. o \in Seq(Items) /\ \A it : it \in Range(o) <=> it = z
  BY <1>5, RangeOfOne
<1>12. CreateOf(p) = oab \o c
  BY <1>4
<1>. HIDE DEF o
<1>13. /\ oa \in Seq(Items)
       /\ \A it : it \in Range(oa) <=> it \in Range(o) \/ it \in Range(a)
  BY <1>8, <1>11, InBoth
<1>. HIDE DEF oa
<1>14. /\ oab \in Seq(Items)
       /\ \A it : it \in Range(oab) <=> it \in Range(oa) \/ it \in Range(b)
  BY <1>8, <1>13, InBoth
<1>. HIDE DEF oab
<1>15. /\ oab \o c \in Seq(Items)
       /\ \A it : it \in Range(oab \o c) <=> it \in Range(oab) \/ it \in Range(c)
  BY <1>6, <1>14, InBoth
<1>. QED
  BY <1>7, <1>9, <1>10, <1>11, <1>12, <1>13, <1>14, <1>15

\* What there is to do for all the pools, one after the other.
LEMMA LogicalsItems ==
    ASSUME want \in Targets
    PROVE  /\ DestroyLogicals \in Seq(Items)
           /\ \A it : it \in Range(DestroyLogicals) <=>
                         \E p \in Range(WantedPools) : it \in Range(DestroyOf(p))
           /\ CreateLogicals \in Seq(Items)
           /\ \A it : it \in Range(CreateLogicals) <=>
                         \E p \in Range(WantedPools) : it \in Range(CreateOf(p))
           /\ ZoneWork \in Seq(Items)
           /\ \A it : it \in Range(ZoneWork) <=>
                         \E p \in Range(WantedPools) : it \in Range(ZoneOf(p))
<1>. DEFINE n == Len(WantedPools)
            destroys == [i \in 1 .. n |-> DestroyOf(WantedPools[i])]
            creates == [i \in 1 .. n |-> CreateOf(WantedPools[i])]
            zones == [i \in 1 .. n |-> ZoneOf(WantedPools[i])]
<1>1. n \in Nat /\ \A i \in 1 .. n : WantedPools[i] \in PoolType
  BY PoolsOfTarget
<1>2. \A p : p \in Range(WantedPools) <=> \E i \in 1 .. n : p = WantedPools[i]
  BY PoolsOfTarget
<1>3. \A p \in PoolType : DestroyOf(p) \in Seq(Items)
  BY DestroyOfItems
<1>4. \A p \in PoolType : CreateOf(p) \in Seq(Items)
  BY CreateOfItems
<1>5. \A p \in PoolType : ZoneOf(p) \in Seq(Items)
  <2>1. \A p \in PoolType : Acting(p.fs, {"create"}) \in SUBSET Range(p.fs)
    BY DEF Acting
  <2>. QED
    BY <2>1, BootItems DEF ZoneOf
<1>6. ASSUME NEW seqs \in [1 .. n -> Seq(Items)]
      PROVE  /\ FlattenSeq(seqs) \in Seq(Items)
             /\ \A it : it \in Range(FlattenSeq(seqs)) <=>
                           \E i \in 1 .. n : it \in Range(seqs[i])
  <2>. HIDE DEF n
  <2>. QED
    BY <1>1, RangeOfAll
<1>7. DestroyLogicals = FlattenSeq(destroys) /\ destroys \in [1 .. n -> Seq(Items)]
  BY <1>1, <1>3 DEF DestroyLogicals
<1>8. CreateLogicals = FlattenSeq(creates) /\ creates \in [1 .. n -> Seq(Items)]
  BY <1>1, <1>4 DEF CreateLogicals
<1>9. ZoneWork = FlattenSeq(zones) /\ zones \in [1 .. n -> Seq(Items)]
  BY <1>1, <1>5 DEF ZoneWork
<1>10. \A i \in 1 .. n : /\ destroys[i] = DestroyOf(WantedPools[i])
                         /\ creates[i] = CreateOf(WantedPools[i])
                         /\ zones[i] = ZoneOf(WantedPools[i])
  OBVIOUS
<1>. HIDE DEF destroys, creates, zones, n
<1>11. /\ DestroyLogicals \in Seq(Items)
       /\ \A it : it \in Range(DestroyLogicals) <=>
                     \E i \in 1 .. n : it \in Range(DestroyOf(WantedPools[i]))
  BY <1>6, <1>7, <1>10
<1>12. /\ CreateLogicals \in Seq(Items)
       /\ \A it : it \in Range(CreateLogicals) <=>
                     \E i \in 1 .. n : it \in Range(CreateOf(WantedPools[i]))
  BY <1>6, <1>8, <1>10
<1>13. /\ ZoneWork \in Seq(Items)
       /\ \A it : it \in Range(ZoneWork) <=>
                     \E i \in 1 .. n : it \in Range(ZoneOf(WantedPools[i]))
  BY <1>6, <1>9, <1>10
<1>14. \A it : it \in Range(DestroyLogicals) <=>
                  \E p \in Range(WantedPools) : it \in Range(DestroyOf(p))
  BY <1>2, <1>11
<1>15. \A it : it \in Range(CreateLogicals) <=>
                  \E p \in Range(WantedPools) : it \in Range(CreateOf(p))
  BY <1>2, <1>12
<1>16. \A it : it \in Range(ZoneWork) <=>
                  \E p \in Range(WantedPools) : it \in Range(ZoneOf(p))
  BY <1>2, <1>13
<1>. QED
  BY <1>11, <1>12, <1>13, <1>14, <1>15, <1>16

-----------------------------------------------------------------------------
\* The order of the work: swap volumes go first, then the rest that goes,
\* and what is made comes last.
Rank(it) ==
    IF it.op = "zvol_destroy" /\ it.use = "swap" THEN 0
    ELSE IF it.op \in Destroying THEN 1 ELSE 2
InRanks(s) == \A i, j \in DOMAIN s : i < j => Rank(s[i]) <= Rank(s[j])

LEMMA InRanksBoth ==
    ASSUME NEW a \in Seq(Items), NEW b \in Seq(Items), InRanks(a), InRanks(b),
           \A x \in Range(a), y \in Range(b) : Rank(x) <= Rank(y)
    PROVE  InRanks(a \o b)
<1>. DEFINE c == a \o b
<1>1. /\ Len(c) = Len(a) + Len(b) /\ c \in Seq(Items)
      /\ \A i \in 1 .. Len(a) + Len(b) :
            c[i] = IF i <= Len(a) THEN a[i] ELSE b[i - Len(a)]
  BY ConcatProperties
<1>2. Len(a) \in Nat /\ Len(b) \in Nat /\ DOMAIN a = 1 .. Len(a) /\ DOMAIN b = 1 .. Len(b)
  OBVIOUS
<1>. HIDE DEF c
<1>3. DOMAIN c = 1 .. Len(a) + Len(b)
  BY <1>1
<1>4. ASSUME NEW i \in DOMAIN c, NEW j \in DOMAIN c, i < j
      PROVE  Rank(c[i]) <= Rank(c[j])
  <2>1. CASE j <= Len(a)
    <3>1. i \in DOMAIN a /\ j \in DOMAIN a /\ c[i] = a[i] /\ c[j] = a[j]
      BY <1>1, <1>2, <1>3, <1>4, <2>1
    <3>. QED
      BY <1>4, <3>1 DEF InRanks
  <2>2. CASE i <= Len(a) /\ j > Len(a)
    <3>1. i \in DOMAIN a /\ j - Len(a) \in DOMAIN b /\ c[i] = a[i] /\ c[j] = b[j - Len(a)]
      BY <1>1, <1>2, <1>3, <1>4, <2>2
    <3>2. a[i] \in Range(a) /\ b[j - Len(a)] \in Range(b)
      BY <3>1 DEF Range
    <3>. QED
      BY <3>1, <3>2
  <2>3. CASE i > Len(a)
    <3>1. /\ i - Len(a) \in DOMAIN b /\ j - Len(a) \in DOMAIN b
          /\ c[i] = b[i - Len(a)] /\ c[j] = b[j - Len(a)] /\ i - Len(a) < j - Len(a)
      BY <1>1, <1>2, <1>3, <1>4, <2>3
    <3>. QED
      BY <3>1 DEF InRanks
  <2>. QED
    BY <1>2, <1>3, <2>1, <2>2, <2>3
<1>. QED
  BY <1>4 DEF InRanks, c

LEMMA InRanksSame ==
    ASSUME NEW a \in Seq(Items), NEW n \in 0 .. 2, \A x \in Range(a) : Rank(x) = n
    PROVE  InRanks(a)
  BY DEF InRanks, Range

\* What an item of the work stands for in the desired target.
Rightful(it) ==
    \E p \in Range(WantedPools) :
        \/ it.op = "zpool_destroy" /\ p.action \in Replaced /\ it.path = PoolPath(p)
        \/ it.op = "fs_destroy" /\ \E f \in Range(p.fs) : f.action \in Replaced /\ it.path = Path(p, f)
        \/ it.op = "zvol_destroy"
           /\ \E v \in Range(p.zvols) : v.action \in Replaced /\ it.path = Path(p, v)
        \/ it.op = "zpool_create" /\ it.path = PoolPath(p) /\ it.use = p.action
        \/ it.op = "fs_create"
           /\ \E f \in Range(p.fs) : f.action \in {"create", "preserve"} /\ it.path = Path(p, f)
        \/ it.op = "zvol_create"
           /\ \E v \in Range(p.zvols) : /\ v.action \in {"create", "preserve"}
                                        /\ it.path = Path(p, v) /\ it.use = v.use
        \/ it.op = "be_init" /\ it.path = Root(p)
        \/ it.op \in {"be_fs", "raise"}

LEMMA BootRightful ==
    ASSUME want \in Targets, NEW p \in Range(WantedPools), NEW fs \in SUBSET Range(p.fs),
           NEW it \in Range(BootEnvironment(p, fs))
    PROVE  Rightful(it) /\ Rank(it) = 2 /\ it.op \in {"be_init", "be_fs"}
<1>1. (it.op = "be_init" /\ it.path = Root(p)) \/ it.op = "be_fs"
  BY PoolsOfTarget, BootItems
<1>. QED
  BY <1>1 DEF Rightful, Rank, Destroying

LEMMA ZoneRightful ==
    ASSUME want \in Targets
    PROVE  /\ ZoneWork \in Seq(Items)
           /\ \A it \in Range(ZoneWork) : Rightful(it) /\ it.op \in {"be_init", "be_fs"}
<1>1. ZoneWork \in Seq(Items)
  BY LogicalsItems
<1>2. ASSUME NEW it \in Range(ZoneWork)
      PROVE  Rightful(it) /\ it.op \in {"be_init", "be_fs"}
  <2>1. PICK p \in Range(WantedPools) : it \in Range(ZoneOf(p))
    BY LogicalsItems
  <2>2. Acting(p.fs, {"create"}) \in SUBSET Range(p.fs)
    BY DEF Acting
  <2>. QED
    BY <2>1, <2>2, BootRightful DEF ZoneOf
<1>. QED
  BY <1>1, <1>2

\* The pieces of the work of execute(), each with its rank.
LEMMA VolumesRightful ==
    ASSUME want \in Targets
    PROVE  /\ DestroySwap \in Seq(Items) /\ DestroyDump \in Seq(Items)
           /\ CreateSwap \in Seq(Items) /\ CreateDump \in Seq(Items)
           /\ \A it \in Range(DestroySwap) : Rightful(it) /\ Rank(it) = 0
           /\ \A it \in Range(DestroyDump) : Rightful(it) /\ Rank(it) = 1
           /\ \A it \in Range(CreateSwap) : Rightful(it) /\ Rank(it) = 2
           /\ \A it \in Range(CreateDump) : Rightful(it) /\ Rank(it) = 2
<1>1. {"zvol_destroy", "zvol_create"} \subseteq Ops /\ {"swap", "dump"} \subseteq Uses
  BY DEF Ops, Destroying, Making, Uses
<1>2. /\ DestroySwap \in Seq(Items) /\ DestroyDump \in Seq(Items)
      /\ CreateSwap \in Seq(Items) /\ CreateDump \in Seq(Items)
  BY <1>1, OfVolumesItems DEF DestroySwap, DestroyDump, CreateSwap, CreateDump
<1>3. ASSUME NEW it \in Range(DestroySwap)
      PROVE  Rightful(it) /\ Rank(it) = 0
  <2>1. PICK p \in Range(WantedPools) : \E v \in Range(p.zvols) :
            v.use = "swap" /\ v.action \in Replaced /\ it = Do("zvol_destroy", Path(p, v), "swap")
    BY <1>1, OfVolumesItems DEF DestroySwap
  <2>. QED
    BY <2>1 DEF Do, Rightful, Rank
<1>4. ASSUME NEW it \in Range(DestroyDump)
      PROVE  Rightful(it) /\ Rank(it) = 1
  <2>1. PICK p \in Range(WantedPools) : \E v \in Range(p.zvols) :
            v.use = "dump" /\ v.action \in Replaced /\ it = Do("zvol_destroy", Path(p, v), "dump")
    BY <1>1, OfVolumesItems DEF DestroyDump
  <2>. QED
    BY <2>1 DEF Do, Rightful, Rank, Destroying
<1>5. ASSUME NEW it \in Range(CreateSwap)
      PROVE  Rightful(it) /\ Rank(it) = 2
  <2>1. PICK p \in Range(WantedPools) : \E v \in Range(p.zvols) :
            v.use = "swap" /\ v.action \in {"create"} /\ it = Do("zvol_create", Path(p, v), "swap")
    BY <1>1, OfVolumesItems DEF CreateSwap
  <2>. QED
    BY <2>1 DEF Do, Rightful, Rank, Destroying
<1>6. ASSUME NEW it \in Range(CreateDump)
      PROVE  Rightful(it) /\ Rank(it) = 2
  <2>1. PICK p \in Range(WantedPools) : \E v \in Range(p.zvols) :
            v.use = "dump" /\ v.action \in {"create"} /\ it = Do("zvol_create", Path(p, v), "dump")
    BY <1>1, OfVolumesItems DEF CreateDump
  <2>. QED
    BY <2>1 DEF Do, Rightful, Rank, Destroying
<1>. QED
  BY <1>2, <1>3, <1>4, <1>5, <1>6

LEMMA LogicalsRightful ==
    ASSUME want \in Targets
    PROVE  /\ \A it \in Range(DestroyLogicals) : Rightful(it) /\ Rank(it) = 1
           /\ \A it \in Range(CreateLogicals) : Rightful(it) /\ Rank(it) = 2
<1>1. ASSUME NEW it \in Range(DestroyLogicals)
      PROVE  Rightful(it) /\ Rank(it) = 1
  <2>1. PICK p \in Range(WantedPools) : it \in Range(DestroyOf(p))
    BY LogicalsItems
  <2>2. p \in PoolType
    BY PoolsOfTarget
  <2>3. CASE p.action \in Replaced
    <3>1. it = Do("zpool_destroy", PoolPath(p), "none")
      BY <2>1, <2>2, <2>3, DestroyOfItems
    <3>. QED
      BY <2>3, <3>1 DEF Do, Rightful, Rank, Destroying
  <2>4. CASE p.action \notin Replaced
    <3>1. \/ \E x \in Acting(p.fs, Replaced) : it = Do("fs_destroy", Path(p, x), "none")
          \/ \E x \in Acting(p.zvols, Replaced) : it = Do("zvol_destroy", Path(p, x), "none")
      BY <2>1, <2>2, <2>4, DestroyOfItems
    <3>. QED
      BY <3>1 DEF Do, Rightful, Rank, Destroying, Acting
  <2>. QED
    BY <2>3, <2>4
<1>2. ASSUME NEW it \in Range(CreateLogicals)
      PROVE  Rightful(it) /\ Rank(it) = 2
  <2>1. PICK p \in Range(WantedPools) : it \in Range(CreateOf(p))
    BY LogicalsItems
  <2>2. p \in PoolType
    BY PoolsOfTarget
  <2>3. ToMake(p, it)
    BY <2>1, <2>2, CreateOfItems
  <2>4. CASE it = PoolItem(p)
    BY <2>4 DEF PoolItem, Do, Rightful, Rank, Destroying
  <2>5. CASE \E x \in Acting(p.fs, {"create", "preserve"}) \ InBoot(p) :
                 it = Do("fs_create", Path(p, x), "none")
    BY <2>5 DEF Do, Rightful, Rank, Destroying, Acting
  <2>6. CASE \E x \in Acting(p.zvols, {"create", "preserve"}) \cap Volumes(p, "none") :
                 it = Do("zvol_create", Path(p, x), "none")
    BY <2>6 DEF Do, Rightful, Rank, Destroying, Acting, Volumes
  <2>7. CASE it \in Range(Bootable(p))
    <3>1. InBoot(p) \cap Acting(p.fs, {"create"}) \in SUBSET Range(p.fs)
      BY DEF InBoot
    <3>. QED
      BY <2>7, <3>1, BootRightful DEF Bootable
  <2>. QED
    BY <2>3, <2>4, <2>5, <2>6, <2>7 DEF ToMake
<1>. QED
  BY <1>1, <1>2

\* The work of execute(): every item is asked for, in the order of the ranks.
LEMMA ExecuteItems ==
    ASSUME want \in Targets
    PROVE  /\ ExecuteWork \in Seq(Items) /\ InRanks(ExecuteWork)
           /\ \A it : it \in Range(ExecuteWork) <=>
                 \/ it \in Range(DestroySwap) \/ it \in Range(DestroyDump)
                 \/ it \in Range(DestroyLogicals) \/ it \in Range(CreateLogicals)
                 \/ it \in Range(CreateSwap) \/ it \in Range(CreateDump)
           /\ \A it \in Range(ExecuteWork) : Rightful(it)
<1>. DEFINE a == DestroySwap
            b == DestroyDump
            c == DestroyLogicals
            d == CreateLogicals
            e == CreateSwap
            f == CreateDump
            ab == a \o b
            abc == ab \o c
            abcd == abc \o d
            abcde == abcd \o e
            all == abcde \o f
<1>1. /\ a \in Seq(Items) /\ b \in Seq(Items) /\ c \in Seq(Items) /\ d \in Seq(Items)
      /\ e \in Seq(Items) /\ f \in Seq(Items)
  BY VolumesRightful, LogicalsItems
<1>2. /\ \A x \in Range(a) : Rightful(x) /\ Rank(x) = 0
      /\ \A x \in Range(b) : Rightful(x) /\ Rank(x) = 1
      /\ \A x \in Range(c) : Rightful(x) /\ Rank(x) = 1
      /\ \A x \in Range(d) : Rightful(x) /\ Rank(x) = 2
      /\ \A x \in Range(e) : Rightful(x) /\ Rank(x) = 2
      /\ \A x \in Range(f) : Rightful(x) /\ Rank(x) = 2
  BY VolumesRightful, LogicalsRightful
<1>3. ExecuteWork = all
  BY DEF ExecuteWork
<1>. HIDE DEF a, b, c, d, e, f
<1>4. 0 \in 0 .. 2 /\ 1 \in 0 .. 2 /\ 2 \in 0 .. 2
  OBVIOUS
<1>5. InRanks(a) /\ InRanks(b) /\ InRanks(c) /\ InRanks(d) /\ InRanks(e) /\ InRanks(f)
  BY <1>1, <1>2, <1>4, InRanksSame
<1>6. /\ ab \in Seq(Items) /\ InRanks(ab)
      /\ \A it : it \in Range(ab) <=> it \in Range(a) \/ it \in Range(b)
  <2>1. \A x \in Range(a), y \in Range(b) : Rank(x) <= Rank(y)
    BY <1>2
  <2>. QED
    BY <1>1, <1>5, <2>1, InRanksBoth, InBoth
<1>. HIDE DEF ab
<1>7. /\ abc \in Seq(Items) /\ InRanks(abc)
      /\ \A it : it \in Range(abc) <=> it \in Range(ab) \/ it \in Range(c)
  <2>1. \A x \in Range(ab), y \in Range(c) : Rank(x) <= Rank(y)
    BY <1>2, <1>6
  <2>. QED
    BY <1>1, <1>5, <1>6, <2>1, InRanksBoth, InBoth
<1>. HIDE DEF abc
<1>8. /\ abcd \in Seq(Items) /\ InRanks(abcd)
      /\ \A it : it \in Range(abcd) <=> it \in Range(abc) \/ it \in Range(d)
  <2>1. \A x \in Range(abc), y \in Range(d) : Rank(x) <= Rank(y)
    BY <1>2, <1>6, <1>7
  <2>. QED
    BY <1>1, <1>5, <1>7, <2>1, InRanksBoth, InBoth
<1>. HIDE DEF abcd
<1>9. /\ abcde \in Seq(Items) /\ InRanks(abcde)
      /\ \A it : it \in Range(abcde) <=> it \in Range(abcd) \/ it \in Range(e)
  <2>1. \A x \in Range(abcd), y \in Range(e) : Rank(x) <= Rank(y)
    BY <1>2, <1>6, <1>7, <1>8
  <2>. QED
    BY <1>1, <1>5, <1>8, <2>1, InRanksBoth, InBoth
<1>. HIDE DEF abcde
<1>10. /\ all \in Seq(Items) /\ InRanks(all)
       /\ \A it : it \in Range(all) <=> it \in Range(abcde) \/ it \in Range(f)
  <2>1. \A x \in Range(abcde), y \in Range(f) : Rank(x) <= Rank(y)
    BY <1>2, <1>6, <1>7, <1>8, <1>9
  <2>. QED
    BY <1>1, <1>5, <1>9, <2>1, InRanksBoth, InBoth
<1>. HIDE DEF all
<1>11. \A it : it \in Range(all) <=>
           \/ it \in Range(a) \/ it \in Range(b) \/ it \in Range(c)
           \/ it \in Range(d) \/ it \in Range(e) \/ it \in Range(f)
  BY <1>6, <1>7, <1>8, <1>9, <1>10
<1>12. \A it \in Range(all) : Rightful(it)
  BY <1>2, <1>11
<1>. QED
  BY <1>3, <1>10, <1>11, <1>12 DEF a, b, c, d, e, f

\* What is asked for has an item in the work.
LEMMA ExecuteDestroys ==
    ASSUME want \in Targets, NEW p \in Range(WantedPools)
    PROVE  /\ p.action \in Replaced =>
                 Do("zpool_destroy", PoolPath(p), "none") \in Range(ExecuteWork)
           /\ p.action \notin Replaced => \A f \in Range(p.fs) : f.action \in Replaced =>
                 Do("fs_destroy", Path(p, f), "none") \in Range(ExecuteWork)
           /\ p.action \notin Replaced => \A v \in Range(p.zvols) : v.action \in Replaced =>
                 Do("zvol_destroy", Path(p, v), "none") \in Range(ExecuteWork)
           /\ \A v \in Range(p.zvols) : v.use = "swap" /\ v.action \in Replaced =>
                 Do("zvol_destroy", Path(p, v), "swap") \in Range(ExecuteWork)
<1>1. p \in PoolType
  BY PoolsOfTarget
<1>2. \A it : it \in Range(DestroyOf(p)) => it \in Range(ExecuteWork)
  BY LogicalsItems, ExecuteItems
<1>3. ASSUME p.action \in Replaced
      PROVE  Do("zpool_destroy", PoolPath(p), "none") \in Range(ExecuteWork)
  BY <1>1, <1>2, <1>3, DestroyOfItems
<1>4. ASSUME p.action \notin Replaced, NEW f \in Range(p.fs), f.action \in Replaced
      PROVE  Do("fs_destroy", Path(p, f), "none") \in Range(ExecuteWork)
  BY <1>1, <1>2, <1>4, DestroyOfItems DEF Acting
<1>5. ASSUME p.action \notin Replaced, NEW v \in Range(p.zvols), v.action \in Replaced
      PROVE  Do("zvol_destroy", Path(p, v), "none") \in Range(ExecuteWork)
  BY <1>1, <1>2, <1>5, DestroyOfItems DEF Acting
<1>6. ASSUME NEW v \in Range(p.zvols), v.use = "swap", v.action \in Replaced
      PROVE  Do("zvol_destroy", Path(p, v), "swap") \in Range(ExecuteWork)
  <2>1. "zvol_destroy" \in Ops /\ "swap" \in Uses
    BY DEF Ops, Destroying, Uses
  <2>2. Do("zvol_destroy", Path(p, v), "swap") \in Range(DestroySwap)
    BY <1>6, <2>1, OfVolumesItems DEF DestroySwap
  <2>. QED
    BY <2>2, ExecuteItems
<1>. QED
  BY <1>3, <1>4, <1>5, <1>6

LEMMA ExecuteMakes ==
    ASSUME want \in Targets, NEW p \in Range(WantedPools)
    PROVE  /\ PoolItem(p) \in Range(ExecuteWork)
           /\ \A f \in Range(p.fs) : f.action = "create" /\ ~f.inBe =>
                 Do("fs_create", Path(p, f), "none") \in Range(ExecuteWork)
           /\ \A v \in Range(p.zvols) : v.action = "create" =>
                 Do("zvol_create", Path(p, v), v.use) \in Range(ExecuteWork)
<1>1. p \in PoolType
  BY PoolsOfTarget
<1>2. \A it : ToMake(p, it) => it \in Range(ExecuteWork)
  BY <1>1, CreateOfItems, LogicalsItems, ExecuteItems
<1>3. PoolItem(p) \in Range(ExecuteWork)
  BY <1>2 DEF ToMake
<1>4. ASSUME NEW f \in Range(p.fs), f.action = "create", ~f.inBe
      PROVE  Do("fs_create", Path(p, f), "none") \in Range(ExecuteWork)
  <2>1. f \in Acting(p.fs, {"create", "preserve"}) \ InBoot(p)
    BY <1>4 DEF Acting, InBoot
  <2>. QED
    BY <1>2, <2>1 DEF ToMake
<1>5. ASSUME NEW v \in Range(p.zvols), v.action = "create"
      PROVE  Do("zvol_create", Path(p, v), v.use) \in Range(ExecuteWork)
  <2>1. v.use \in {"none", "swap", "dump"}
    <3>. DEFINE V == [name : Seq(STRING), action : STRING, use : {"none", "swap", "dump"}]
                s == p.zvols
    <3>1. s \in Seq(V)
      BY <1>1 DEF PoolType
    <3>2. v \in Range(s)
      OBVIOUS
    <3>3. v \in V
      <4>. HIDE DEF V, s
      <4>. QED
        BY <3>1, <3>2 DEF Range
    <3>. QED
      BY <3>3
  <2>2. "zvol_create" \in Ops /\ "swap" \in Uses /\ "dump" \in Uses
    BY DEF Ops, Making, Uses
  <2>3. CASE v.use = "none"
    <3>1. v \in Acting(p.zvols, {"create", "preserve"}) \cap Volumes(p, "none")
      BY <1>5, <2>3 DEF Acting, Volumes
    <3>. QED
      BY <1>2, <2>3, <3>1 DEF ToMake
  <2>4. CASE v.use = "swap"
    <3>1. Do("zvol_create", Path(p, v), "swap") \in Range(CreateSwap)
      BY <1>5, <2>2, <2>4, OfVolumesItems DEF CreateSwap
    <3>. QED
      BY <2>4, <3>1, ExecuteItems
  <2>5. CASE v.use = "dump"
    <3>1. Do("zvol_create", Path(p, v), "dump") \in Range(CreateDump)
      BY <1>5, <2>2, <2>5, OfVolumesItems DEF CreateDump
    <3>. QED
      BY <2>5, <3>1, ExecuteItems
  <2>. QED
    BY <2>1, <2>3, <2>4, <2>5
<1>. QED
  BY <1>3, <1>4, <1>5

-----------------------------------------------------------------------------
\* Paths, and what is beneath them.
LEMMA BeneathIs ==
    ASSUME NEW d \in Paths, NEW e \in Paths
    PROVE  Beneath(d, e) <=> Len(d) <= Len(e) /\ \A x \in 1 .. Len(d) : d[x] = e[x]
<1>. DEFINE N == STRING \cup {"ROOT"}
<1>1. d \in Seq(N) /\ e \in Seq(N)
  BY DEF Paths
<1>. HIDE DEF N
<1>2. Len(d) \in Nat /\ Len(e) \in Nat
  BY <1>1
<1>3. CASE Len(d) <= Len(e)
  <2>1. Len(d) \in 0 .. Len(d) /\ Len(d) \in 0 .. Len(e)
    BY <1>2, <1>3
  <2>. DEFINE a == SubSeq(d, 1, Len(d))
              b == SubSeq(e, 1, Len(d))
  <2>2. a \in Seq(N) /\ Len(a) = Len(d) /\ \A x \in 1 .. Len(d) : a[x] = d[x]
    BY <1>1, <2>1, FirstOnes
  <2>3. b \in Seq(N) /\ Len(b) = Len(d) /\ \A x \in 1 .. Len(d) : b[x] = e[x]
    BY <1>1, <2>1, FirstOnes
  <2>4. Beneath(d, e) <=> a = b
    BY <1>3 DEF Beneath, IsPrefix
  <2>. HIDE DEF a, b
  <2>5. a = b <=> \A x \in 1 .. Len(d) : a[x] = b[x]
    BY <1>2, <2>2, <2>3
  <2>. QED
    BY <1>3, <2>2, <2>3, <2>4, <2>5
<1>4. CASE ~(Len(d) <= Len(e))
  BY <1>4 DEF Beneath, IsPrefix
<1>. QED
  BY <1>3, <1>4

LEMMA PathFacts ==
    ASSUME NEW d \in Paths \ {<<>>}
    PROVE  /\ Len(d) \in Nat \ {0} /\ Beneath(d, d) /\ d \in Parents(d)
           /\ <<d[1]>> \in Paths \ {<<>>} /\ <<d[1]>> \in Parents(d)
           /\ \A e \in Parents(d) :
                 /\ e \in Paths \ {<<>>} /\ e[1] = d[1] /\ Beneath(e, d)
                 /\ Len(e) = Len(d) => e = d
           /\ \A e \in Paths : Len(e) = 1 /\ Beneath(e, d) => e = <<d[1]>>
<1>. DEFINE N == STRING \cup {"ROOT"}
            l == Len(d)
<1>1. d \in Seq(N) /\ d # <<>> /\ Paths = Seq(N)
  BY DEF Paths
<1>. HIDE DEF N
<1>2. l \in Nat \ {0} /\ \A x \in 1 .. l : d[x] \in N
  BY <1>1
<1>3. ASSUME NEW n \in 1 .. l
      PROVE  /\ SubSeq(d, 1, n) \in Paths \ {<<>>} /\ Len(SubSeq(d, 1, n)) = n
             /\ SubSeq(d, 1, n)[1] = d[1] /\ Beneath(SubSeq(d, 1, n), d)
             /\ n = l => SubSeq(d, 1, n) = d
  <2>1. n \in 0 .. Len(d) /\ n <= l /\ n \in Nat /\ 1 \in 1 .. n
    BY <1>2
  <2>. DEFINE e == SubSeq(d, 1, n)
  <2>2. e \in Seq(N) /\ Len(e) = n /\ \A x \in 1 .. n : e[x] = d[x]
    BY <1>1, <2>1, FirstOnes
  <2>. HIDE DEF e
  <2>3. e \in Paths /\ e # <<>> /\ e[1] = d[1]
    BY <1>1, <2>1, <2>2
  <2>4. Beneath(e, d)
    BY <1>1, <2>1, <2>2, <2>3, BeneathIs
  <2>5. n = l => e = d
    BY <1>1, <2>2
  <2>. QED
    BY <2>2, <2>3, <2>4, <2>5 DEF e
<1>4. Parents(d) = {SubSeq(d, 1, n) : n \in 1 .. l}
  BY DEF Parents
<1>5. \A e \in Parents(d) :
         /\ e \in Paths \ {<<>>} /\ e[1] = d[1] /\ Beneath(e, d)
         /\ Len(e) = Len(d) => e = d
  <2>1. ASSUME NEW e \in Parents(d)
        PROVE  /\ e \in Paths \ {<<>>} /\ e[1] = d[1] /\ Beneath(e, d)
               /\ Len(e) = Len(d) => e = d
    <3>1. PICK n \in 1 .. l : e = SubSeq(d, 1, n)
      BY <1>4
    <3>2. Len(e) = n /\ (n = l => e = d)
      BY <1>3, <3>1
    <3>3. e \in Paths \ {<<>>} /\ e[1] = d[1] /\ Beneath(e, d)
      BY <1>3, <3>1
    <3>. QED
      BY <3>2, <3>3
  <2>. QED
    BY <2>1
<1>6. l \in 1 .. l /\ 1 \in 1 .. l
  BY <1>2
<1>7. d \in Parents(d) /\ Beneath(d, d)
  BY <1>3, <1>4, <1>6
<1>8. d[1] \in N
  BY <1>2, <1>6
<1>9. <<d[1]>> \in Seq(N) /\ Len(<<d[1]>>) = 1 /\ <<d[1]>>[1] = d[1]
  BY <1>8
<1>10. ASSUME NEW e \in Paths, Len(e) = 1, e[1] = d[1]
       PROVE  e = <<d[1]>>
  <2>. DEFINE o == <<d[1]>>
  <2>1. o \in Seq(N) /\ Len(o) = 1 /\ o[1] = d[1] /\ e \in Seq(N)
    BY <1>1, <1>9
  <2>. HIDE DEF o
  <2>2. e = o
    BY <1>10, <2>1
  <2>. QED
    BY <2>2 DEF o
<1>11. <<d[1]>> \in Parents(d)
  <2>. DEFINE e == SubSeq(d, 1, 1)
  <2>1. e \in Paths /\ Len(e) = 1 /\ e[1] = d[1] /\ e \in Parents(d)
    BY <1>3, <1>4, <1>6
  <2>. HIDE DEF e
  <2>. QED
    BY <1>10, <2>1
<1>12. ASSUME NEW e \in Paths, Len(e) = 1, Beneath(e, d)
       PROVE  e = <<d[1]>>
  <2>1. e[1] = d[1]
    <3>1. 1 \in 1 .. Len(e)
      BY <1>12
    <3>. QED
      BY <1>12, <3>1, BeneathIs
  <2>. QED
    BY <1>10, <1>12, <2>1
<1>13. <<d[1]>> \in Paths \ {<<>>}
  BY <1>5, <1>11
<1>. QED
  BY <1>2, <1>5, <1>7, <1>11, <1>12, <1>13

-----------------------------------------------------------------------------
(* The inductive invariant.                                                *)

\* What an item that is done has left.
Held(it) ==
    /\ it.op = "zpool_destroy" =>
          \A d \in DOMAIN zfs : Beneath(it.path, d) => zfs[d] = "installer"
    /\ it.op = "fs_destroy" => (There(it.path) => zfs[it.path] = "installer")
    /\ it.op = "zvol_destroy" =>
          (~HeldByDump(it.path) /\ There(it.path) => zfs[it.path] = "installer")
    /\ it.op = "zpool_create" => (it.use = "create" => There(it.path))
    /\ it.op \in {"fs_create", "zvol_create"} => There(it.path)
    /\ it.op # "raise"
\* Something is still to be destroyed.
Early == \E it \in Range(work) : it.op \in Destroying

WorkShape ==
    /\ work \in Seq(Items) /\ InRanks(work)
    /\ \A it \in Range(work) : Rightful(it) /\ (want.zone => it.op \in {"be_init", "be_fs"})
    /\ result \in {"running", "done", "failed"}
    /\ result # "running" => work = <<>>
PoolShape ==
    /\ DOMAIN zfs \subseteq Paths \ {<<>>}
    /\ \A d \in DOMAIN zfs : There(<<d[1]>>)
BusyShape ==
    busy => /\ result = "failed"
            /\ \E d \in (swaps \cup {dump}) \cap DOMAIN zfs :
                    d = dump \/ d \notin SwapVolumes(Replaced)
MadeAbove == \A d \in DOMAIN zfs : zfs[d] = "installer" => Above(d)

Going == ~want.zone /\ ~want.dry /\ result # "failed"
EarlyShape ==
    Early => /\ \A d \in DOMAIN zfs : zfs[d] # "installer"
             /\ dump = had.dump
             /\ \A it \in Range(ExecuteWork) : Rank(it) = 2 => it \in Range(work)
SwapGone ==
    Early => \A d \in SwapVolumes(Replaced) :
                 d \notin swaps \/ Do("zvol_destroy", d, "swap") \in Range(work)
SwapNew ==
    \A d \in SwapVolumes({"create"}) : There(d) /\ zfs[d] = "installer" => d \in swaps
DoneHeld == \A it \in Range(ExecuteWork) : it \in Range(work) \/ Held(it)
Progress == Going => EarlyShape /\ SwapGone /\ SwapNew /\ DoneHeld

PoolInv ==
    /\ want \in Targets /\ had \in Systems
    /\ WorkShape /\ PoolShape /\ swaps \subseteq DOMAIN zfs
    /\ KeptUntouched /\ DryRunHarmless /\ BusyShape /\ MadeAbove /\ Progress

LEMMA NotEmpty ==
    ASSUME NEW N, NEW a \in Seq(N), NEW r \in Seq(N), a # <<>>
    PROVE  a \o r # <<>>
  BY ConcatEqualIffEmpty

LEMMA PathKinds ==
    ASSUME want \in Targets, NEW p \in Range(WantedPools)
    PROVE  /\ PoolPath(p) \in Paths \ {<<>>} /\ Len(PoolPath(p)) = 1
           /\ Root(p) \in Paths \ {<<>>}
           /\ \A x \in Range(p.fs) \cup Range(p.zvols) :
                 Path(p, x) \in Paths \ {<<>>} /\ Beneath(PoolPath(p), Path(p, x))
<1>1. p \in PoolType
  BY PoolsOfTarget
<1>2. /\ PoolPath(p) \in Paths /\ Len(PoolPath(p)) = 1 /\ Root(p) \in Paths
      /\ \A x \in Range(p.fs) \cup Range(p.zvols) :
            Path(p, x) \in Paths /\ Beneath(PoolPath(p), Path(p, x))
  BY <1>1, PathsOfPool DEF Kids
<1>3. PoolPath(p) # <<>>
  <2>1. Len(<<>>) = 0
    OBVIOUS
  <2>. QED
    BY <1>2, <2>1
<1>4. Root(p) # <<>>
  <2>. DEFINE N == STRING \cup {"ROOT"}
              r == <<"ROOT">>
              a == PoolPath(p)
  <2>1. r \in Seq(N) /\ a \in Seq(N) /\ a # <<>>
    BY <1>2, <1>3 DEF Paths
  <2>2. Root(p) = a \o r
    BY DEF Root
  <2>. HIDE DEF N, r, a
  <2>3. a \o r # <<>>
    BY <2>1, NotEmpty
  <2>. QED
    BY <2>2, <2>3
<1>5. ASSUME NEW x \in Range(p.fs) \cup Range(p.zvols)
      PROVE  Path(p, x) # <<>>
  <2>1. Len(PoolPath(p)) <= Len(Path(p, x))
    BY <1>2 DEF Beneath, IsPrefix
  <2>2. Len(<<>>) = 0
    OBVIOUS
  <2>. QED
    BY <1>2, <2>1, <2>2
<1>. QED
  BY <1>2, <1>3, <1>4, <1>5

\* Nothing that is asked for is beneath a volume but the volume itself.
LEMMA VolumesApart ==
    ASSUME want \in Targets, NEW p \in Range(WantedPools), NEW q \in Range(WantedPools),
           NEW v \in Range(p.zvols)
    PROVE  /\ ~Beneath(Path(p, v), PoolPath(q)) /\ ~Beneath(Path(p, v), Root(q))
           /\ \A f \in Range(q.fs) : ~Beneath(Path(p, v), Path(q, f))
           /\ \A w \in Range(q.zvols) : Beneath(Path(p, v), Path(q, w)) => w = v
  BY PoolsAssumption DEF WantedPools

LEMMA HeadAndTail ==
    ASSUME work \in Seq(Items), work # <<>>, InRanks(work)
    PROVE  /\ WorkItem \in Items /\ WorkItem \in Range(work)
           /\ Tail(work) \in Seq(Items) /\ InRanks(Tail(work))
           /\ \A it : it \in Range(work) <=> it = WorkItem \/ it \in Range(Tail(work))
           /\ \A it \in Range(work) : Rank(WorkItem) <= Rank(it)
<1>. DEFINE t == Tail(work)
            n == Len(work)
<1>1. /\ n \in Nat \ {0} /\ DOMAIN work = 1 .. n /\ WorkItem = work[1]
      /\ t \in Seq(Items) /\ Len(t) = n - 1 /\ DOMAIN t = 1 .. n - 1
      /\ \A i \in 1 .. n - 1 : t[i] = work[i + 1]
      /\ \A i \in 1 .. n : work[i] \in Items
  BY DEF WorkItem
<1>. HIDE DEF t, n
<1>2. 1 \in 1 .. n
  BY <1>1
<1>3. WorkItem \in Items /\ WorkItem \in Range(work)
  BY <1>1, <1>2 DEF Range
<1>4. InRanks(t)
  <2>1. ASSUME NEW i \in 1 .. n - 1, NEW j \in 1 .. n - 1, i < j
        PROVE  Rank(t[i]) <= Rank(t[j])
    <3>1. i + 1 \in 1 .. n /\ j + 1 \in 1 .. n /\ i + 1 < j + 1
      BY <1>1, <2>1
    <3>. QED
      BY <1>1, <3>1 DEF InRanks
  <2>. QED
    BY <1>1, <2>1 DEF InRanks
<1>5. ASSUME NEW it \in Range(work)
      PROVE  (it = WorkItem \/ it \in Range(t)) /\ Rank(WorkItem) <= Rank(it)
  <2>1. PICK i \in 1 .. n : it = work[i]
    BY <1>1, <1>5 DEF Range
  <2>2. CASE i = 1
    <3>1. Rank(it) \in Nat
      BY DEF Rank
    <3>. QED
      BY <1>1, <2>1, <2>2, <3>1
  <2>3. CASE i # 1
    <3>1. i - 1 \in 1 .. n - 1 /\ 1 < i /\ (i - 1) + 1 = i
      BY <1>1, <2>3
    <3>2. t[i - 1] = it
      BY <1>1, <2>1, <3>1
    <3>3. it \in Range(t)
      BY <1>1, <3>1, <3>2 DEF Range
    <3>4. Rank(WorkItem) <= Rank(it)
      BY <1>1, <1>2, <2>1, <3>1 DEF InRanks
    <3>. QED
      BY <3>3, <3>4
  <2>. QED
    BY <2>2, <2>3
<1>6. ASSUME NEW it \in Range(t)
      PROVE  it \in Range(work)
  <2>1. PICK i \in 1 .. n - 1 : it = t[i]
    BY <1>1, <1>6 DEF Range
  <2>2. i + 1 \in 1 .. n /\ it = work[i + 1]
    BY <1>1, <2>1
  <2>. QED
    BY <1>1, <2>2 DEF Range
<1>. QED
  BY <1>1, <1>3, <1>4, <1>5, <1>6 DEF t

-----------------------------------------------------------------------------
(* What is common to the steps.                                            *)

LEMMA PoolStart == PoolInit => PoolInv
<1>. SUFFICES ASSUME PoolInit
              PROVE  PoolInv
  OBVIOUS
<1>1. /\ want \in Targets /\ had \in Systems
      /\ zfs = had.zfs /\ swaps = had.swaps /\ dump = had.dump
      /\ work = IF want.zone THEN ZoneWork ELSE ExecuteWork
      /\ result = IF work = <<>> THEN "done" ELSE "running"
      /\ busy = FALSE
  BY DEF PoolInit
<1>2. /\ had.swaps \subseteq DOMAIN had.zfs
      /\ \A d \in DOMAIN had.zfs :
            d \in Seq(STRING) \ {<<>>} /\ <<d[1]>> \in DOMAIN had.zfs /\ had.zfs[d] # "installer"
  BY <1>1, PoolsAssumption
<1>3. WorkShape
  <2>1. CASE want.zone
    <3>1. work = ZoneWork
      BY <1>1, <2>1
    <3>2. work \in Seq(Items) /\ \A it \in Range(work) : Rightful(it) /\ it.op \in {"be_init", "be_fs"}
      BY <1>1, <3>1, ZoneRightful
    <3>3. \A it \in Range(work) : Rank(it) = 2
      BY <3>2 DEF Rank, Destroying
    <3>4. InRanks(work)
      <4>1. 2 \in 0 .. 2
        OBVIOUS
      <4>. QED
        BY <3>2, <3>3, <4>1, InRanksSame
    <3>. QED
      BY <1>1, <3>2, <3>4 DEF WorkShape
  <2>2. CASE ~want.zone
    <3>1. work = ExecuteWork
      BY <1>1, <2>2
    <3>. QED
      BY <1>1, <2>2, <3>1, ExecuteItems DEF WorkShape
  <2>. QED
    BY <2>1, <2>2
<1>4. PoolShape
  <2>. DEFINE N == STRING \cup {"ROOT"}
  <2>1. \A d \in Seq(STRING) : d \in Seq(N)
    OBVIOUS
  <2>. QED
    BY <1>1, <1>2, <2>1 DEF PoolShape, Paths, There
<1>5. KeptUntouched /\ DryRunHarmless /\ BusyShape
  BY <1>1 DEF KeptUntouched, DryRunHarmless, BusyShape, There
<1>6. MadeAbove
  BY <1>1, <1>2 DEF MadeAbove
<1>7. ASSUME Going
      PROVE  EarlyShape /\ SwapGone /\ SwapNew /\ DoneHeld
  <2>1. work = ExecuteWork
    BY <1>1, <1>7 DEF Going
  <2>2. EarlyShape
    BY <1>1, <1>2, <2>1 DEF EarlyShape
  <2>3. SwapNew
    BY <1>1, <1>2 DEF SwapNew, There
  <2>4. SwapGone
    <3>1. ASSUME NEW d \in SwapVolumes(Replaced)
          PROVE  Do("zvol_destroy", d, "swap") \in Range(ExecuteWork)
      <4>1. PICK p \in Range(WantedPools) :
                \E v \in Range(p.zvols) : v.use = "swap" /\ v.action \in Replaced /\ d = Path(p, v)
        BY DEF SwapVolumes, Volumes, Acting
      <4>. QED
        BY <1>1, <4>1, ExecuteDestroys
    <3>. QED
      BY <2>1, <3>1 DEF SwapGone
  <2>5. DoneHeld
    BY <2>1 DEF DoneHeld
  <2>. QED
    BY <2>2, <2>3, <2>4, <2>5
<1>. QED
  BY <1>1, <1>2, <1>3, <1>4, <1>5, <1>6, <1>7 DEF PoolInv, Progress

\* A step goes on to the next item, or fails.
LEMMA WorkKeeps ==
    ASSUME PoolInv, result = "running", work # <<>>, want' = want,
           Proceed \/ (result' = "failed" /\ work' = <<>>)
    PROVE  WorkShape'
<1>1. /\ WorkItem \in Items /\ WorkItem \in Range(work)
      /\ Tail(work) \in Seq(Items) /\ InRanks(Tail(work))
      /\ \A it : it \in Range(work) <=> it = WorkItem \/ it \in Range(Tail(work))
  BY HeadAndTail DEF PoolInv, WorkShape
<1>2. \A it \in Range(work) : Rightful(it) /\ (want.zone => it.op \in {"be_init", "be_fs"})
  BY DEF PoolInv, WorkShape
<1>3. \A it : Rightful(it) => Rightful(it)'
  BY DEF Rightful, WantedPools
<1>4. CASE Proceed
  <2>1. work' = Tail(work) /\ result' = IF Len(work) = 1 THEN "done" ELSE "running"
    BY <1>4 DEF Proceed
  <2>2. work' \in Seq(Items) /\ InRanks(work)'
    BY <1>1, <2>1 DEF InRanks
  <2>3. \A it \in Range(work') : Rightful(it)' /\ (want'.zone => it.op \in {"be_init", "be_fs"})
    BY <1>1, <1>2, <1>3, <2>1
  <2>4. result' \in {"running", "done", "failed"} /\ (result' # "running" => work' = <<>>)
    <3>1. Len(work) = 1 => Tail(work) = <<>>
      <4>. DEFINE t == Tail(work)
      <4>1. work \in Seq(Items)
        BY DEF PoolInv, WorkShape
      <4>2. t \in Seq(Items) /\ Len(t) = Len(work) - 1
        BY <4>1
      <4>. HIDE DEF t
      <4>3. Len(work) = 1 => t = <<>>
        BY <4>2
      <4>. QED
        BY <4>3 DEF t
    <3>. QED
      BY <2>1, <3>1
  <2>. QED
    BY <2>2, <2>3, <2>4 DEF WorkShape
<1>5. CASE result' = "failed" /\ work' = <<>>
  <2>1. Range(<<>>) = {} /\ DOMAIN <<>> = {} /\ <<>> \in Seq(Items)
    BY DEF Range
  <2>2. InRanks(<<>>)
    BY <2>1 DEF InRanks
  <2>3. InRanks(work)'
    BY <1>5, <2>2 DEF InRanks
  <2>. QED
    BY <1>5, <2>1, <2>3 DEF WorkShape
<1>. QED
  BY <1>4, <1>5

\* A step that takes datasets away.
LEMMA TakingKeeps ==
    ASSUME PoolInv, UNCHANGED <<want, had>>, NEW ds, zfs' = ZfsWithout(ds),
           \A d \in ds : d \in DOMAIN had.zfs => d \in Doomed,
           \A d \in DOMAIN zfs \ ds : <<d[1]>> \notin ds
    PROVE  PoolShape' /\ KeptUntouched' /\ MadeAbove'
<1>1. /\ DOMAIN zfs' = DOMAIN zfs \ ds
      /\ \A d \in DOMAIN zfs \ ds : zfs'[d] = zfs[d]
  BY DEF ZfsWithout
<1>2. PoolShape'
  BY <1>1 DEF PoolInv, PoolShape, There
<1>3. Doomed' = Doomed /\ \A d : Above(d)' <=> Above(d)
  BY DEF Doomed, Asked, Above, WantedPools
<1>4. KeptUntouched'
  BY <1>1, <1>3 DEF PoolInv, KeptUntouched, There
<1>5. MadeAbove'
  BY <1>1, <1>3 DEF PoolInv, MadeAbove
<1>. QED
  BY <1>2, <1>4, <1>5

\* A step that adds datasets.
LEMMA AddingKeeps ==
    ASSUME PoolInv, UNCHANGED <<want, had>>, NEW ds \in SUBSET (Paths \ {<<>>}), zfs' = Added(ds),
           \A d \in ds : Above(d) /\ (There(<<d[1]>>) \/ <<d[1]>> \in ds)
    PROVE  PoolShape' /\ KeptUntouched' /\ MadeAbove'
<1>1. /\ DOMAIN zfs' = DOMAIN zfs \cup ds
      /\ \A d \in DOMAIN zfs : zfs'[d] = zfs[d]
      /\ \A d \in DOMAIN zfs' : zfs'[d] = "installer" => d \in ds \/ zfs[d] = "installer"
  BY DEF Added, There
<1>2. PoolShape'
  BY <1>1 DEF PoolInv, PoolShape, There
<1>3. Doomed' = Doomed /\ \A d : Above(d)' <=> Above(d)
  BY DEF Doomed, Asked, Above, WantedPools
<1>4. KeptUntouched'
  BY <1>1, <1>3 DEF PoolInv, KeptUntouched, There
<1>5. MadeAbove'
  BY <1>1, <1>3 DEF PoolInv, MadeAbove
<1>. QED
  BY <1>2, <1>4, <1>5

\* A step that leaves the datasets alone.
LEMMA LeavingKeeps ==
    ASSUME PoolInv, UNCHANGED <<want, had, zfs>>
    PROVE  PoolShape' /\ KeptUntouched' /\ MadeAbove'
<1>1. Doomed' = Doomed /\ \A d : Above(d)' <=> Above(d)
  BY DEF Doomed, Asked, Above, WantedPools
<1>. QED
  BY <1>1 DEF PoolInv, PoolShape, KeptUntouched, MadeAbove, There

\* A step that destroys something leaves what is done, done.
LEMMA DestroyProgress ==
    ASSUME PoolInv, result = "running", work # <<>>, Proceed, UNCHANGED <<want, had, dump>>,
           DOMAIN zfs' \subseteq DOMAIN zfs, \A d \in DOMAIN zfs' : zfs'[d] = zfs[d],
           swaps' \subseteq swaps,
           NEW it, it = WorkItem, it.op \in Destroying, ~want.zone /\ ~want.dry => Held(it)',
           it.op = "zvol_destroy" => it.path \notin swaps' \/ want.dry
    PROVE  Progress'
<1>. SUFFICES ASSUME Going'
              PROVE  EarlyShape' /\ SwapGone' /\ SwapNew' /\ DoneHeld'
  BY DEF Progress
<1>1. Going
  BY DEF Going
<1>2. EarlyShape /\ SwapGone /\ DoneHeld
  BY <1>1 DEF PoolInv, Progress
<1>3. /\ it \in Range(work)
      /\ work' = Tail(work)
      /\ \A x : x \in Range(work) <=> x = it \/ x \in Range(Tail(work))
  BY HeadAndTail DEF PoolInv, WorkShape, Proceed
<1>4. Early
  BY <1>3 DEF Early
<1>5. Rank(it) # 2
  BY DEF Rank
<1>6. ExecuteWork' = ExecuteWork /\ SwapVolumes(Replaced)' = SwapVolumes(Replaced)
      /\ SwapVolumes({"create"})' = SwapVolumes({"create"})
  BY DEF ExecuteWork, DestroySwap, DestroyDump, DestroyLogicals, DestroyOf, CreateLogicals,
         CreateOf, CreateSwap, CreateDump, OfVolumes, GetVdevNames, BootEnvironment, InBoot,
         SwapVolumes, WantedPools
<1>7. \A d \in DOMAIN zfs' : zfs'[d] # "installer"
  BY <1>2, <1>4 DEF EarlyShape
<1>8. EarlyShape'
  BY <1>2, <1>3, <1>4, <1>5, <1>6, <1>7 DEF EarlyShape
<1>9. SwapGone'
  <2>1. ASSUME NEW d \in SwapVolumes(Replaced), d \in swaps'
        PROVE  Do("zvol_destroy", d, "swap") \in Range(work')
    <3>1. Do("zvol_destroy", d, "swap") \in Range(work)
      BY <1>2, <1>4, <2>1 DEF SwapGone
    <3>2. Do("zvol_destroy", d, "swap") # it
      BY <1>1, <2>1 DEF Do, Going
    <3>. QED
      BY <1>3, <3>1, <3>2
  <2>. QED
    BY <1>6, <2>1 DEF SwapGone
<1>10. SwapNew'
  BY <1>7 DEF SwapNew, There
<1>11. DoneHeld'
  <2>1. ASSUME NEW x \in Range(ExecuteWork), x \notin Range(work')
        PROVE  Held(x)'
    <3>1. CASE x = it
      BY <1>1, <3>1 DEF Going
    <3>2. CASE x # it
      <4>1. x \notin Range(work) /\ Held(x) /\ Rank(x) # 2
        BY <1>2, <1>3, <1>4, <2>1, <3>2 DEF DoneHeld, EarlyShape
      <4>2. x.op \in Destroying
        BY <4>1 DEF Rank, Destroying
      <4>. QED
        BY <4>1, <4>2 DEF Held, HeldByDump, There, Destroying
    <3>. QED
      BY <3>1, <3>2
  <2>. QED
    BY <1>6, <2>1 DEF DoneHeld
<1>. QED
  BY <1>8, <1>9, <1>10, <1>11

\* A step that makes something, too: nothing is destroyed after it.
LEMMA MakeProgress ==
    ASSUME PoolInv, result = "running", work # <<>>, Proceed, UNCHANGED <<want, had>>,
           DOMAIN zfs \subseteq DOMAIN zfs', \A d \in DOMAIN zfs : zfs'[d] = zfs[d],
           \A d \in DOMAIN zfs' \ DOMAIN zfs : zfs'[d] = "installer",
           swaps \subseteq swaps',
           \A d \in SwapVolumes({"create"}) \cap (DOMAIN zfs' \ DOMAIN zfs) :
               d \in swaps' \/ want.dry,
           NEW it, it = WorkItem, it.op \notin Destroying, ~want.zone /\ ~want.dry => Held(it)'
    PROVE  Progress'
<1>. SUFFICES ASSUME Going'
              PROVE  EarlyShape' /\ SwapGone' /\ SwapNew' /\ DoneHeld'
  BY DEF Progress
<1>1. Going
  BY DEF Going
<1>2. EarlyShape /\ SwapGone /\ SwapNew /\ DoneHeld
  BY <1>1 DEF PoolInv, Progress
<1>3. /\ work' = Tail(work)
      /\ \A x : x \in Range(work) <=> x = it \/ x \in Range(Tail(work))
      /\ \A x \in Range(work) : Rank(it) <= Rank(x)
  BY HeadAndTail DEF PoolInv, WorkShape, Proceed
<1>4. ~Early'
  <2>1. Rank(it) = 2
    BY DEF Rank, Destroying
  <2>2. \A x : x.op \in Destroying => Rank(x) \in {0, 1}
    BY DEF Rank
  <2>3. \A x \in Range(work') : x.op \notin Destroying
    BY <1>3, <2>1, <2>2
  <2>. QED
    BY <2>3 DEF Early
<1>5. ExecuteWork' = ExecuteWork /\ SwapVolumes({"create"})' = SwapVolumes({"create"})
  BY DEF ExecuteWork, DestroySwap, DestroyDump, DestroyLogicals, DestroyOf, CreateLogicals,
         CreateOf, CreateSwap, CreateDump, OfVolumes, GetVdevNames, BootEnvironment, InBoot,
         SwapVolumes, WantedPools
<1>6. EarlyShape' /\ SwapGone'
  BY <1>4 DEF EarlyShape, SwapGone
<1>7. SwapNew'
  <2>1. ASSUME NEW d \in SwapVolumes({"create"}), d \in DOMAIN zfs', zfs'[d] = "installer"
        PROVE  d \in swaps'
    <3>1. CASE d \in DOMAIN zfs
      BY <1>2, <2>1, <3>1 DEF SwapNew, There
    <3>2. CASE d \notin DOMAIN zfs
      BY <1>1, <2>1, <3>2 DEF Going
    <3>. QED
      BY <3>1, <3>2
  <2>. QED
    BY <1>5, <2>1 DEF SwapNew, There
<1>8. DoneHeld'
  <2>1. ASSUME NEW x \in Range(ExecuteWork), x \notin Range(work')
        PROVE  Held(x)'
    <3>1. CASE x = it
      BY <1>1, <3>1 DEF Going
    <3>2. CASE x # it
      <4>1. x \notin Range(work) /\ Held(x)
        BY <1>2, <1>3, <2>1, <3>2 DEF DoneHeld
      <4>. QED
        BY <4>1 DEF Held, HeldByDump, There
    <3>. QED
      BY <3>1, <3>2
  <2>. QED
    BY <1>5, <2>1 DEF DoneHeld
<1>. QED
  BY <1>6, <1>7, <1>8

\* A step that fails with nothing changed.
LEMMA FailKeeps ==
    ASSUME PoolInv, result = "running", work # <<>>, Fails, UNCHANGED busy
    PROVE  PoolInv'
<1>1. result' = "failed" /\ work' = <<>> /\ UNCHANGED <<want, had, zfs, swaps, dump, busy>>
  BY DEF Fails
<1>2. WorkShape'
  BY <1>1, WorkKeeps
<1>3. PoolShape' /\ KeptUntouched' /\ MadeAbove'
  BY <1>1, LeavingKeeps
<1>4. DryRunHarmless'
  BY <1>1 DEF PoolInv, DryRunHarmless
<1>5. BusyShape'
  BY <1>1 DEF PoolInv, BusyShape
<1>6. Progress'
  BY <1>1 DEF Progress, Going
<1>. QED
  BY <1>1, <1>2, <1>3, <1>4, <1>5, <1>6 DEF PoolInv

\* A step that goes on with nothing changed, because what it is to do is done.
LEMMA SkipKeeps ==
    ASSUME PoolInv, result = "running", work # <<>>, Skip, NEW it, it = WorkItem,
           ~want.zone /\ ~want.dry => Held(it),
           it.op = "zvol_destroy" => ~There(it.path) \/ want.dry
    PROVE  PoolInv'
<1>1. Proceed /\ UNCHANGED <<want, had, zfs, swaps, dump, busy>>
  BY DEF Skip
<1>2. WorkShape'
  BY <1>1, WorkKeeps
<1>3. PoolShape' /\ KeptUntouched' /\ MadeAbove'
  BY <1>1, LeavingKeeps
<1>4. DryRunHarmless'
  BY <1>1 DEF PoolInv, DryRunHarmless
<1>5. BusyShape'
  BY <1>1 DEF PoolInv, BusyShape
<1>6. ~want.zone /\ ~want.dry => Held(it)'
  BY <1>1 DEF Held, HeldByDump, There
<1>7. Progress'
  <2>1. CASE it.op \in Destroying
    <3>1. it.op = "zvol_destroy" => it.path \notin swaps' \/ want.dry
      BY <1>1 DEF PoolInv, There
    <3>. QED
      BY <1>1, <1>6, <2>1, <3>1, DestroyProgress
  <2>2. CASE it.op \notin Destroying
    <3>1. DOMAIN zfs' \ DOMAIN zfs = {}
      BY <1>1
    <3>. QED
      BY <1>1, <1>6, <2>2, <3>1, MakeProgress
  <2>. QED
    BY <2>1, <2>2
<1>. QED
  BY <1>1, <1>2, <1>3, <1>4, <1>5, <1>7 DEF PoolInv

\* What is at hand.
LEMMA AtHand ==
    ASSUME PoolInv, result = "running", work # <<>>
    PROVE  /\ WorkItem \in Items /\ WorkItem \in Range(work) /\ Rightful(WorkItem) /\ ~busy
           /\ want.zone => WorkItem.op \in {"be_init", "be_fs"}
           /\ \A it \in Range(work) : Rank(WorkItem) <= Rank(it)
  BY HeadAndTail DEF PoolInv, WorkShape, BusyShape

LEMMA ZpoolDestroyKeeps == PoolInv /\ ZpoolDestroy => PoolInv'
<1>. SUFFICES ASSUME PoolInv, ZpoolDestroy
              PROVE  PoolInv'
  OBVIOUS
<1>0. PICK it : it = WorkItem
  OBVIOUS
<1>. DEFINE d0 == it.path
<1>1. result = "running" /\ work # <<>> /\ it.op = "zpool_destroy"
  BY <1>0 DEF ZpoolDestroy, Is
<1>2. PICK p \in Range(WantedPools) : p.action \in Replaced /\ d0 = PoolPath(p)
  BY <1>0, <1>1, AtHand DEF Rightful
<1>3. d0 \in Paths \ {<<>>} /\ Len(d0) = 1 /\ d0 \in Asked(Replaced)
  <2>1. d0 \in Asked(Replaced)
    BY <1>2 DEF Asked
  <2>. QED
    BY <1>2, <2>1, PathKinds DEF PoolInv
<1>4. \A d \in DOMAIN zfs : /\ d \in Paths \ {<<>>} /\ <<d[1]>> \in DOMAIN zfs
                            /\ Beneath(d0, d) => d0 = <<d[1]>>
  BY <1>3, PathFacts DEF PoolInv, PoolShape, There
<1>5. ~want.zone /\ ~busy
  BY <1>0, <1>1, AtHand
<1>. HIDE DEF d0
<1>6. CASE ~There(d0) /\ Skip
  <2>1. Held(it)
    BY <1>1, <1>4, <1>6 DEF Held, There, d0
  <2>. QED
    BY <1>1, <1>6, <2>1, <1>0, SkipKeeps
<1>7. CASE There(d0) /\ want.dry /\ Skip
  BY <1>1, <1>7, <1>0, SkipKeeps
<1>8. CASE Fails /\ UNCHANGED busy
  BY <1>1, <1>8, FailKeeps
<1>9. CASE /\ There(d0) /\ ~InUse(d0) /\ ~want.dry
           /\ zfs' = ZfsWithout(Below(d0)) /\ UNCHANGED <<swaps, dump>>
           /\ Proceed /\ UNCHANGED <<want, had, busy>>
  <2>1. WorkShape'
    BY <1>1, <1>9, WorkKeeps
  <2>2. Below(d0) = {e \in DOMAIN zfs : Beneath(d0, e)}
    BY DEF Below
  <2>3. \A d \in Below(d0) : d \in DOMAIN had.zfs => d \in Doomed
    BY <1>3, <2>2 DEF Doomed
  <2>4. ASSUME NEW d \in DOMAIN zfs \ Below(d0), <<d[1]>> \in Below(d0)
        PROVE  FALSE
    <3>. DEFINE e == <<d[1]>>
    <3>1. e \in DOMAIN zfs /\ Beneath(d0, e) /\ e[1] = d[1]
      BY <2>2, <2>4
    <3>2. Beneath(e, d)
      BY <1>4, PathFacts
    <3>3. d0 = <<e[1]>>
      <4>. HIDE DEF e
      <4>. QED
        BY <1>4, <3>1
    <3>4. d0 = e
      BY <3>3
    <3>. QED
      BY <2>2, <2>4, <3>2, <3>4
  <2>5. PoolShape' /\ KeptUntouched' /\ MadeAbove'
    <3>. DEFINE ds == Below(d0)
    <3>1. zfs' = ZfsWithout(ds)
      BY <1>9
    <3>. HIDE DEF ds
    <3>2. \A d \in ds : d \in DOMAIN had.zfs => d \in Doomed
      BY <2>3 DEF ds
    <3>3. \A d \in DOMAIN zfs \ ds : <<d[1]>> \notin ds
      BY <2>4 DEF ds
    <3>. QED
      BY <1>9, <3>1, <3>2, <3>3, TakingKeeps
  <2>6. DOMAIN zfs' = DOMAIN zfs \ Below(d0) /\ \A d \in DOMAIN zfs' : zfs'[d] = zfs[d]
    BY <1>9 DEF ZfsWithout
  <2>7. swaps' \subseteq DOMAIN zfs'
    BY <1>9, <2>6 DEF PoolInv, InUse
  <2>8. DryRunHarmless' /\ BusyShape'
    BY <1>5, <1>9 DEF DryRunHarmless, BusyShape
  <2>9. Held(it)'
    <3>1. it.op = "zpool_destroy" /\ \A d \in DOMAIN zfs' : ~Beneath(it.path, d)
      BY <1>1, <2>2, <2>6 DEF d0
    <3>. QED
      BY <3>1 DEF Held
  <2>10. Progress'
    <3>1. it.op \in Destroying /\ DOMAIN zfs' \subseteq DOMAIN zfs /\ swaps' \subseteq swaps
      BY <1>1, <1>9, <2>6 DEF Destroying
    <3>. QED
      BY <1>0, <1>1, <1>9, <2>6, <2>9, <3>1, DestroyProgress
  <2>. QED
    BY <1>9, <2>1, <2>5, <2>7, <2>8, <2>10 DEF PoolInv
<1>10. CASE There(d0) /\ InUse(d0) /\ ~want.dry /\ Fails /\ busy' = TRUE
  <2>1. result' = "failed" /\ work' = <<>> /\ UNCHANGED <<want, had, zfs, swaps, dump>>
    BY <1>10 DEF Fails
  <2>2. WorkShape'
    BY <1>1, <2>1, WorkKeeps
  <2>3. PoolShape' /\ KeptUntouched' /\ MadeAbove'
    BY <2>1, LeavingKeeps
  <2>4. PICK e \in Below(d0) : e \in swaps \/ e = dump
    BY <1>10 DEF InUse
  <2>5. e \in (swaps \cup {dump}) \cap DOMAIN zfs
    BY <2>4 DEF Below
  <2>6. ASSUME e \in swaps, e \in SwapVolumes(Replaced)
        PROVE  FALSE
    <3>1. Going
      BY <1>1, <1>5, <1>10 DEF Going
    <3>2. it \in Range(work) /\ \A x \in Range(work) : Rank(it) <= Rank(x)
      BY <1>0, <1>1, AtHand
    <3>3. Early
      BY <1>1, <3>2 DEF Early, Destroying
    <3>4. Do("zvol_destroy", e, "swap") \in Range(work)
      BY <2>6, <3>1, <3>3 DEF PoolInv, Progress, SwapGone
    <3>5. Rank(Do("zvol_destroy", e, "swap")) = 0 /\ Rank(it) = 1
      BY <1>1 DEF Rank, Do, Destroying
    <3>6. Rank(it) <= Rank(Do("zvol_destroy", e, "swap"))
      BY <3>2, <3>4
    <3>. QED
      BY <3>5, <3>6
  <2>7. BusyShape'
    <3>1. SwapVolumes(Replaced)' = SwapVolumes(Replaced)
      BY <2>1 DEF SwapVolumes, WantedPools
    <3>. QED
      BY <2>1, <2>4, <2>5, <2>6, <3>1 DEF BusyShape
  <2>8. DryRunHarmless' /\ Progress'
    BY <1>10, <2>1 DEF DryRunHarmless, Progress, Going
  <2>. QED
    BY <2>1, <2>2, <2>3, <2>7, <2>8 DEF PoolInv
<1>11. \/ ~There(d0) /\ Skip
       \/ There(d0) /\ ~InUse(d0) /\ Command(TRUE, zfs' = ZfsWithout(Below(d0)) /\ UNCHANGED <<swaps, dump>>)
       \/ There(d0) /\ InUse(d0) /\ want.dry /\ Skip
       \/ There(d0) /\ InUse(d0) /\ ~want.dry /\ Fails /\ busy' = TRUE
  BY <1>0 DEF ZpoolDestroy, d0
<1>. QED
  BY <1>6, <1>7, <1>8, <1>9, <1>10, <1>11 DEF Command, Skip

\* A dataset is taken away, and swap is not on it any more.
LEMMA TakeOneKeeps ==
    ASSUME PoolInv, result = "running", work # <<>>, NEW it, it = WorkItem,
           it.op \in {"fs_destroy", "zvol_destroy"}, it.path \in Asked(Replaced),
           ~want.dry, Proceed, UNCHANGED <<want, had, dump, busy>>,
           zfs' = ZfsWithout({it.path}), swaps' = swaps \ {it.path},
           \A d \in DOMAIN zfs : d # it.path => <<d[1]>> # it.path
    PROVE  PoolInv'
<1>1. WorkShape'
  BY WorkKeeps
<1>2. DOMAIN zfs' = DOMAIN zfs \ {it.path} /\ \A d \in DOMAIN zfs' : zfs'[d] = zfs[d]
  BY DEF ZfsWithout
<1>3. PoolShape' /\ KeptUntouched' /\ MadeAbove'
  <2>. DEFINE ds == {it.path}
  <2>1. zfs' = ZfsWithout(ds)
    OBVIOUS
  <2>2. \A d \in ds : d \in DOMAIN had.zfs => d \in Doomed
    BY DEF Doomed
  <2>3. \A d \in DOMAIN zfs \ ds : <<d[1]>> \notin ds
    OBVIOUS
  <2>. HIDE DEF ds
  <2>. QED
    BY <2>1, <2>2, <2>3, TakingKeeps
<1>4. swaps' \subseteq DOMAIN zfs'
  BY <1>2 DEF PoolInv
<1>5. DryRunHarmless' /\ BusyShape'
  BY AtHand DEF DryRunHarmless, BusyShape
<1>6. Held(it)'
  BY <1>2 DEF Held, There
<1>7. Progress'
  <2>1. it.op \in Destroying /\ DOMAIN zfs' \subseteq DOMAIN zfs /\ swaps' \subseteq swaps
        /\ it.path \notin swaps'
    BY <1>2 DEF Destroying
  <2>. QED
    BY <1>2, <1>6, <2>1, DestroyProgress
<1>. QED
  BY <1>1, <1>3, <1>4, <1>5, <1>7 DEF PoolInv

LEMMA FilesystemDestroyKeeps == PoolInv /\ FilesystemDestroy => PoolInv'
<1>. SUFFICES ASSUME PoolInv, FilesystemDestroy
              PROVE  PoolInv'
  OBVIOUS
<1>0. PICK it : it = WorkItem
  OBVIOUS
<1>. DEFINE d0 == it.path
<1>1. result = "running" /\ work # <<>> /\ it.op = "fs_destroy"
  BY <1>0 DEF FilesystemDestroy, Is
<1>2. PICK p \in Range(WantedPools) : \E f \in Range(p.fs) : f.action \in Replaced /\ d0 = Path(p, f)
  BY <1>0, <1>1, AtHand DEF Rightful
<1>3. d0 \in Asked(Replaced)
  BY <1>2 DEF Asked
<1>4. CASE ~There(d0) /\ Skip
  <2>1. Held(it)
    BY <1>1, <1>4 DEF Held
  <2>. QED
    BY <1>0, <1>1, <1>4, <2>1, SkipKeeps
<1>5. CASE want.dry /\ Skip
  BY <1>0, <1>1, <1>5, SkipKeeps
<1>6. CASE Fails /\ UNCHANGED busy
  BY <1>1, <1>6, FailKeeps
<1>7. CASE /\ There(d0) /\ Below(d0) = {d0} /\ ~InUse(d0) /\ ~want.dry
           /\ zfs' = ZfsWithout({d0}) /\ UNCHANGED <<swaps, dump>>
           /\ Proceed /\ UNCHANGED <<want, had, busy>>
  <2>1. d0 \notin swaps
    BY <1>7 DEF InUse
  <2>2. swaps' = swaps \ {d0}
    BY <1>7, <2>1
  <2>3. ASSUME NEW d \in DOMAIN zfs, <<d[1]>> = d0
        PROVE  d = d0
    <3>1. Beneath(<<d[1]>>, d)
      BY PathFacts DEF PoolInv, PoolShape
    <3>2. d \in Below(d0)
      BY <2>3, <3>1 DEF Below
    <3>. QED
      BY <1>7, <3>2
  <2>. QED
    BY <1>0, <1>1, <1>3, <1>7, <2>2, <2>3, TakeOneKeeps
<1>8. \/ ~There(d0) /\ Skip
      \/ There(d0) /\ Command(Below(d0) = {d0} /\ ~InUse(d0),
                              zfs' = ZfsWithout({d0}) /\ UNCHANGED <<swaps, dump>>)
  BY <1>0 DEF FilesystemDestroy
<1>. QED
  BY <1>4, <1>5, <1>6, <1>7, <1>8 DEF Command, Skip

LEMMA ZvolDestroyKeeps == PoolInv /\ ZvolDestroy => PoolInv'
<1>. SUFFICES ASSUME PoolInv, ZvolDestroy
              PROVE  PoolInv'
  OBVIOUS
<1>0. PICK it : it = WorkItem
  OBVIOUS
<1>. DEFINE d0 == it.path
<1>1. result = "running" /\ work # <<>> /\ it.op = "zvol_destroy"
  BY <1>0 DEF ZvolDestroy, Is
<1>2. PICK p \in Range(WantedPools) :
          \E v \in Range(p.zvols) : v.action \in Replaced /\ d0 = Path(p, v)
  BY <1>0, <1>1, AtHand DEF Rightful
<1>3. PICK v \in Range(p.zvols) : v.action \in Replaced /\ d0 = Path(p, v)
  BY <1>2
<1>4. d0 \in Asked(Replaced)
  BY <1>3 DEF Asked
<1>5. ~want.zone /\ ~busy
  BY <1>0, <1>1, AtHand
<1>6. CASE ~There(d0) /\ Skip
  <2>1. Held(it)
    BY <1>1, <1>6 DEF Held
  <2>. QED
    BY <1>0, <1>1, <1>6, <2>1, SkipKeeps
<1>7. CASE want.dry /\ Skip
  BY <1>0, <1>1, <1>7, SkipKeeps
<1>8. CASE Fails /\ UNCHANGED busy
  BY <1>1, <1>8, FailKeeps
<1>9. CASE /\ There(d0) /\ ~want.dry /\ swaps' = swaps \ {d0} /\ zfs' = ZfsWithout({d0})
           /\ UNCHANGED dump /\ Proceed /\ UNCHANGED <<want, had, busy>>
  <2>1. ASSUME NEW d \in DOMAIN zfs, <<d[1]>> = d0
        PROVE  FALSE
    <3>1. d0 \in Paths \ {<<>>} /\ Beneath(PoolPath(p), d0)
          /\ PoolPath(p) \in Paths /\ Len(PoolPath(p)) = 1
      BY <1>3, PathKinds DEF PoolInv
    <3>2. PoolPath(p) = <<d0[1]>>
      BY <3>1, PathFacts
    <3>3. d0[1] = d[1]
      BY <2>1
    <3>4. Beneath(Path(p, v), PoolPath(p))
      BY <1>3, <2>1, <3>1, <3>2, <3>3, PathFacts
    <3>. QED
      BY <3>4, VolumesApart DEF PoolInv
  <2>. QED
    BY <1>0, <1>1, <1>4, <1>9, <2>1, TakeOneKeeps
<1>10. CASE /\ There(d0) /\ ~want.dry /\ swaps' = swaps \ {d0} /\ zfs' = zfs /\ LooksLike(d0, dump)
            /\ UNCHANGED dump /\ Proceed /\ UNCHANGED <<want, had, busy>>
  <2>1. WorkShape' /\ PoolShape' /\ KeptUntouched' /\ MadeAbove'
    BY <1>1, <1>10, WorkKeeps, LeavingKeeps
  <2>2. swaps' \subseteq DOMAIN zfs' /\ DryRunHarmless' /\ BusyShape'
    BY <1>5, <1>10 DEF PoolInv, DryRunHarmless, BusyShape
  <2>3. dump = had.dump
    <3>1. it \in Range(work)
      BY <1>0, <1>1, AtHand
    <3>2. Early /\ Going
      BY <1>1, <1>5, <1>10, <3>1 DEF Early, Going, Destroying
    <3>. QED
      BY <3>2 DEF PoolInv, Progress, EarlyShape
  <2>4. Held(it)'
    BY <1>1, <1>10, <2>3 DEF Held, HeldByDump
  <2>5. Progress'
    <3>1. it.op \in Destroying /\ DOMAIN zfs' \subseteq DOMAIN zfs /\ swaps' \subseteq swaps
          /\ it.path \notin swaps' /\ \A d \in DOMAIN zfs' : zfs'[d] = zfs[d]
      BY <1>1, <1>10 DEF Destroying
    <3>. QED
      BY <1>0, <1>1, <1>10, <2>4, <3>1, DestroyProgress
  <2>. QED
    BY <1>10, <2>1, <2>2, <2>5 DEF PoolInv
<1>11. CASE /\ ~want.dry /\ swaps' = swaps \ {d0} /\ result' = "failed" /\ work' = <<>>
            /\ UNCHANGED <<want, had, zfs, dump, busy>>
  <2>1. WorkShape' /\ PoolShape' /\ KeptUntouched' /\ MadeAbove'
    BY <1>1, <1>11, WorkKeeps, LeavingKeeps
  <2>2. swaps' \subseteq DOMAIN zfs' /\ DryRunHarmless' /\ BusyShape' /\ Progress'
    BY <1>5, <1>11 DEF PoolInv, DryRunHarmless, BusyShape, Progress, Going
  <2>. QED
    BY <1>11, <2>1, <2>2 DEF PoolInv
<1>12. \/ ~There(d0) /\ Skip
       \/ There(d0) /\ Command(\A s \in swaps : LooksLike(d0, s) => s = d0,
                                    /\ swaps' = swaps \ {d0}
                                    /\ zfs' = IF LooksLike(d0, dump) THEN zfs ELSE ZfsWithout({d0})
                                    /\ UNCHANGED dump)
       \/ /\ ~want.dry /\ swaps' = swaps \ {d0} /\ result' = "failed" /\ work' = <<>>
          /\ UNCHANGED <<want, had, zfs, dump, busy>>
  BY <1>0 DEF ZvolDestroy
<1>. QED
  BY <1>6, <1>7, <1>8, <1>9, <1>10, <1>11, <1>12 DEF Command, Skip

\* A new swap volume is above nothing that is asked for but itself.
LEMMA SwapApart ==
    ASSUME want \in Targets, NEW d \in SwapVolumes({"create"}), NEW q \in Range(WantedPools)
    PROVE  /\ ~Beneath(d, PoolPath(q)) /\ ~Beneath(d, Root(q))
           /\ \A f \in Range(q.fs) : ~Beneath(d, Path(q, f))
           /\ \A w \in Range(q.zvols) : Beneath(d, Path(q, w)) =>
                 w.use = "swap" /\ Len(d) = Len(Path(q, w))
<1>1. PICK p \in Range(WantedPools) : \E v \in Range(p.zvols) : v.use = "swap" /\ d = Path(p, v)
  BY DEF SwapVolumes, Volumes
<1>2. PICK v \in Range(p.zvols) : v.use = "swap" /\ d = Path(p, v)
  BY <1>1
<1>3. ASSUME NEW w \in Range(q.zvols), Beneath(d, Path(q, w))
      PROVE  w.use = "swap" /\ Len(d) = Len(Path(q, w))
  <2>1. w = v
    BY <1>2, <1>3, VolumesApart
  <2>2. p \in PoolType /\ q \in PoolType /\ v \in Kids(p) /\ v \in Kids(q)
    BY <1>3, <2>1, PoolsOfTarget DEF Kids
  <2>3. Len(Path(p, v)) = 1 + Len(v.name) /\ Len(Path(q, v)) = 1 + Len(v.name)
    BY <2>2, PathsOfPool
  <2>. QED
    BY <1>2, <2>1, <2>3
<1>. QED
  BY <1>2, <1>3, VolumesApart

\* What is to be made is above nothing else, and in its pool.
LEMMA ParentsAbove ==
    ASSUME PoolInv, NEW d0 \in Paths \ {<<>>},
           d0 \in Asked({"create", "preserve"}) \cup {Root(p) : p \in Range(WantedPools)}
    PROVE  /\ Parents(d0) \in SUBSET (Paths \ {<<>>}) /\ d0 \in Parents(d0)
           /\ \A d \in Parents(d0) : Above(d) /\ <<d[1]>> \in Parents(d0) /\ Beneath(d, d0)
                                     /\ (Len(d) = Len(d0) => d = d0)
<1>1. /\ d0 \in Parents(d0) /\ <<d0[1]>> \in Parents(d0)
      /\ \A e \in Parents(d0) :
            /\ e \in Paths \ {<<>>} /\ e[1] = d0[1] /\ Beneath(e, d0)
            /\ Len(e) = Len(d0) => e = d0
  BY PathFacts
<1>2. \A d \in Parents(d0) : Above(d)
  BY <1>1 DEF Above
<1>. QED
  BY <1>1, <1>2

\* A dataset is made with what is above it, and the command may fail after it.
LEMMA MakeKeeps ==
    ASSUME PoolInv, result = "running", work # <<>>, NEW it, it = WorkItem,
           it.op \notin Destroying, it.op # "raise", it.path \in Paths \ {<<>>},
           it.path \in Asked({"create", "preserve"}) \cup {Root(p) : p \in Range(WantedPools)},
           ~want.dry, Proceed \/ (result' = "failed" /\ work' = <<>>),
           UNCHANGED <<want, had, busy>>, zfs' = Added(Parents(it.path)),
           swaps' = swaps \/ swaps' = swaps \cup {it.path},
           Proceed => \A d \in SwapVolumes({"create"}) : d \in Parents(it.path) => d \in swaps'
    PROVE  PoolInv'
<1>. DEFINE ds == Parents(it.path)
<1>1. /\ ds \in SUBSET (Paths \ {<<>>}) /\ it.path \in ds
      /\ \A d \in ds : Above(d) /\ (There(<<d[1]>>) \/ <<d[1]>> \in ds)
  BY ParentsAbove
<1>2. zfs' = Added(ds)
  OBVIOUS
<1>. HIDE DEF ds
<1>3. WorkShape'
  BY WorkKeeps
<1>4. PoolShape' /\ KeptUntouched' /\ MadeAbove'
  BY <1>1, <1>2, AddingKeeps
<1>5. /\ DOMAIN zfs' = DOMAIN zfs \cup ds
      /\ \A d \in DOMAIN zfs : zfs'[d] = zfs[d]
      /\ \A d \in DOMAIN zfs' \ DOMAIN zfs : zfs'[d] = "installer"
  BY <1>2 DEF Added, There
<1>6. swaps' \subseteq DOMAIN zfs'
  BY <1>1, <1>5 DEF PoolInv
<1>7. DryRunHarmless' /\ BusyShape'
  BY AtHand DEF DryRunHarmless, BusyShape
<1>8. Held(it)'
  BY <1>1, <1>5 DEF Held, There, Destroying
<1>9. Progress'
  <2>1. CASE Proceed
    <3>1. \A d \in SwapVolumes({"create"}) \cap (DOMAIN zfs' \ DOMAIN zfs) : d \in swaps'
      BY <1>5, <2>1 DEF ds
    <3>2. swaps \subseteq swaps'
      OBVIOUS
    <3>. QED
      BY <1>5, <1>8, <2>1, <3>1, <3>2, MakeProgress
  <2>2. CASE result' = "failed"
    BY <2>2 DEF Progress, Going
  <2>. QED
    BY <2>1, <2>2
<1>. QED
  BY <1>3, <1>4, <1>6, <1>7, <1>9 DEF PoolInv

LEMMA ZpoolCreateKeeps == PoolInv /\ ZpoolCreate => PoolInv'
<1>. SUFFICES ASSUME PoolInv, ZpoolCreate
              PROVE  PoolInv'
  OBVIOUS
<1>0. PICK it : it = WorkItem
  OBVIOUS
<1>. DEFINE d0 == it.path
            making == it.use = "create" \/ (it.use = "preserve" /\ ~There(d0))
<1>1. result = "running" /\ work # <<>> /\ it.op = "zpool_create"
  BY <1>0 DEF ZpoolCreate, Is
<1>2. PICK p \in Range(WantedPools) : d0 = PoolPath(p) /\ it.use = p.action
  BY <1>0, <1>1, AtHand DEF Rightful
<1>3. d0 \in Paths \ {<<>>} /\ Len(d0) = 1
  BY <1>2, PathKinds DEF PoolInv
<1>4. CASE ~making /\ Skip
  <2>1. Held(it)
    BY <1>1, <1>4 DEF Held
  <2>. QED
    BY <1>0, <1>1, <1>4, <2>1, SkipKeeps
<1>5. CASE want.dry /\ Skip
  BY <1>0, <1>1, <1>5, SkipKeeps
<1>6. CASE Fails /\ UNCHANGED busy
  BY <1>1, <1>6, FailKeeps
<1>7. CASE /\ making /\ ~There(d0) /\ ~want.dry /\ zfs' = Added({d0})
           /\ UNCHANGED <<swaps, dump>> /\ Proceed /\ UNCHANGED <<want, had, busy>>
  <2>1. d0 \in Asked({"create", "preserve"})
    BY <1>2, <1>7 DEF Asked
  <2>2. Parents(d0) = {d0}
    <3>1. d0 \in Parents(d0)
      BY <1>3, PathFacts
    <3>2. Parents(d0) = {SubSeq(d0, 1, 1)}
      <4>1. 1 .. Len(d0) = {1}
        BY <1>3
      <4>. QED
        BY <4>1 DEF Parents
    <3>. QED
      BY <3>1, <3>2
  <2>3. \A d \in SwapVolumes({"create"}) : d \notin Parents(d0)
    <3>1. \A d \in SwapVolumes({"create"}) : ~Beneath(d, d0)
      BY <1>2, SwapApart DEF PoolInv
    <3>. QED
      BY <1>3, <3>1, PathFacts
  <2>4. it.op \notin Destroying /\ it.op # "raise"
    BY <1>1 DEF Destroying
  <2>. QED
    BY <1>0, <1>1, <1>3, <1>7, <2>1, <2>2, <2>3, <2>4, MakeKeeps
<1>8. \/ ~making /\ Skip
      \/ making /\ Command(~There(d0), zfs' = Added({d0}) /\ UNCHANGED <<swaps, dump>>)
  BY <1>0 DEF ZpoolCreate
<1>. QED
  BY <1>4, <1>5, <1>6, <1>7, <1>8 DEF Command, Skip

LEMMA FilesystemCreateKeeps == PoolInv /\ FilesystemCreate => PoolInv'
<1>. SUFFICES ASSUME PoolInv, FilesystemCreate
              PROVE  PoolInv'
  OBVIOUS
<1>0. PICK it : it = WorkItem
  OBVIOUS
<1>. DEFINE d0 == it.path
<1>1. result = "running" /\ work # <<>> /\ it.op = "fs_create"
  BY <1>0 DEF FilesystemCreate, Is
<1>2. PICK p \in Range(WantedPools) :
          \E f \in Range(p.fs) : f.action \in {"create", "preserve"} /\ d0 = Path(p, f)
  BY <1>0, <1>1, AtHand DEF Rightful
<1>3. d0 \in Paths \ {<<>>} /\ d0 \in Asked({"create", "preserve"})
  BY <1>2, PathKinds DEF PoolInv, Asked
<1>4. CASE There(d0) /\ Skip
  <2>1. Held(it)
    BY <1>1, <1>4 DEF Held
  <2>. QED
    BY <1>0, <1>1, <1>4, <2>1, SkipKeeps
<1>5. CASE want.dry /\ Skip
  BY <1>0, <1>1, <1>5, SkipKeeps
<1>6. CASE Fails /\ UNCHANGED busy
  BY <1>1, <1>6, FailKeeps
<1>7. CASE /\ ~want.dry /\ zfs' = Added(Parents(d0))
           /\ UNCHANGED <<swaps, dump>> /\ Proceed /\ UNCHANGED <<want, had, busy>>
  <2>1. \A d \in SwapVolumes({"create"}) : d \notin Parents(d0)
    <3>1. \A d \in SwapVolumes({"create"}) : ~Beneath(d, d0)
      BY <1>2, SwapApart DEF PoolInv
    <3>. QED
      BY <1>3, <3>1, PathFacts
  <2>2. it.op \notin Destroying /\ it.op # "raise"
    BY <1>1 DEF Destroying
  <2>. QED
    BY <1>0, <1>1, <1>3, <1>7, <2>1, <2>2, MakeKeeps
<1>8. CASE /\ ~want.dry /\ zfs' = Added(Parents(d0)) /\ result' = "failed" /\ work' = <<>>
           /\ UNCHANGED <<want, had, swaps, dump, busy>>
  <2>1. ~Proceed /\ it.op \notin Destroying /\ it.op # "raise"
    BY <1>1, <1>8 DEF Proceed, Destroying
  <2>. QED
    BY <1>0, <1>1, <1>3, <1>8, <2>1, MakeKeeps
<1>9. \/ There(d0) /\ Skip
      \/ ~There(d0) /\ Command(There(<<d0[1]>>),
                               zfs' = Added(Parents(d0)) /\ UNCHANGED <<swaps, dump>>)
      \/ /\ ~want.dry /\ zfs' = Added(Parents(d0)) /\ result' = "failed" /\ work' = <<>>
         /\ UNCHANGED <<want, had, swaps, dump, busy>>
  BY <1>0 DEF FilesystemCreate, FailsOnce
<1>. QED
  BY <1>4, <1>5, <1>6, <1>7, <1>8, <1>9 DEF Command, Skip

LEMMA ZvolCreateKeeps == PoolInv /\ ZvolCreate => PoolInv'
<1>. SUFFICES ASSUME PoolInv, ZvolCreate
              PROVE  PoolInv'
  OBVIOUS
<1>0. PICK it : it = WorkItem
  OBVIOUS
<1>. DEFINE d0 == it.path
<1>1. result = "running" /\ work # <<>> /\ it.op = "zvol_create"
  BY <1>0 DEF ZvolCreate, Is
<1>2. PICK p \in Range(WantedPools) :
          \E v \in Range(p.zvols) : /\ v.action \in {"create", "preserve"}
                                    /\ d0 = Path(p, v) /\ it.use = v.use
  BY <1>0, <1>1, AtHand DEF Rightful
<1>3. d0 \in Paths \ {<<>>} /\ d0 \in Asked({"create", "preserve"})
  BY <1>2, PathKinds DEF PoolInv, Asked
<1>4. it.op \notin Destroying /\ it.op # "raise"
  BY <1>1 DEF Destroying
<1>5. CASE There(d0) /\ Skip
  <2>1. Held(it)
    BY <1>1, <1>5 DEF Held
  <2>. QED
    BY <1>0, <1>1, <1>5, <2>1, SkipKeeps
<1>6. CASE want.dry /\ Skip
  BY <1>0, <1>1, <1>6, SkipKeeps
<1>7. CASE Fails /\ UNCHANGED busy
  BY <1>1, <1>7, FailKeeps
<1>8. CASE /\ ~want.dry /\ zfs' = Added(Parents(d0))
           /\ swaps' = IF it.use = "swap" THEN swaps \cup {d0} ELSE swaps
           /\ Proceed /\ UNCHANGED <<want, had, busy>>
  <2>1. ASSUME NEW d \in SwapVolumes({"create"}), d \in Parents(d0)
        PROVE  d \in swaps'
    <3>1. Beneath(d, d0) /\ (Len(d) = Len(d0) => d = d0)
      BY <1>3, <2>1, PathFacts
    <3>2. it.use = "swap" /\ Len(d) = Len(d0)
      BY <1>2, <3>1, SwapApart DEF PoolInv
    <3>. QED
      BY <1>8, <3>1, <3>2
  <2>2. swaps' = swaps \/ swaps' = swaps \cup {d0}
    BY <1>8
  <2>. QED
    BY <1>0, <1>1, <1>3, <1>4, <1>8, <2>1, <2>2, MakeKeeps
<1>9. CASE /\ ~want.dry /\ zfs' = Added(Parents(d0)) /\ result' = "failed" /\ work' = <<>>
           /\ UNCHANGED <<want, had, swaps, dump, busy>>
  <2>1. ~Proceed
    BY <1>9 DEF Proceed
  <2>. QED
    BY <1>0, <1>1, <1>3, <1>4, <1>9, <2>1, MakeKeeps
<1>10. \/ There(d0) /\ Skip
       \/ ~There(d0) /\ Command(There(<<d0[1]>>),
              /\ zfs' = Added(Parents(d0))
              /\ swaps' = IF it.use = "swap" THEN swaps \cup {d0} ELSE swaps
              /\ dump' \in {dump} \cup IF it.use = "dump" THEN {d0} ELSE {})
       \/ /\ ~want.dry /\ zfs' = Added(Parents(d0)) /\ result' = "failed" /\ work' = <<>>
          /\ UNCHANGED <<want, had, swaps, dump, busy>>
  BY <1>0 DEF ZvolCreate, FailsOnce
<1>. QED
  BY <1>5, <1>6, <1>7, <1>8, <1>9, <1>10 DEF Command, Skip

LEMMA BEKeeps == PoolInv /\ (BEInit \/ BEFilesystem) => PoolInv'
<1>. SUFFICES ASSUME PoolInv, BEInit \/ BEFilesystem
              PROVE  PoolInv'
  OBVIOUS
<1>0. PICK it : it = WorkItem
  OBVIOUS
<1>. DEFINE d0 == it.path
<1>1. result = "running" /\ work # <<>> /\ it.op \in {"be_init", "be_fs"}
  BY <1>0 DEF BEInit, BEFilesystem, Is
<1>2. it.op \notin Destroying /\ it.op # "raise"
  BY <1>1 DEF Destroying
<1>3. Held(it)
  BY <1>1 DEF Held
<1>4. CASE Skip
  BY <1>0, <1>1, <1>3, <1>4, SkipKeeps
<1>5. CASE Fails /\ UNCHANGED busy
  BY <1>1, <1>5, FailKeeps
<1>6. CASE /\ it.op = "be_init" /\ ~want.dry /\ zfs' = Added(Parents(d0))
           /\ UNCHANGED <<swaps, dump>> /\ Proceed /\ UNCHANGED <<want, had, busy>>
  <2>1. PICK p \in Range(WantedPools) : d0 = Root(p)
    BY <1>0, <1>1, <1>6, AtHand DEF Rightful
  <2>2. d0 \in Paths \ {<<>>}
    BY <2>1, PathKinds DEF PoolInv
  <2>3. \A d \in SwapVolumes({"create"}) : d \notin Parents(d0)
    <3>1. \A d \in SwapVolumes({"create"}) : ~Beneath(d, d0)
      BY <2>1, SwapApart DEF PoolInv
    <3>. QED
      BY <2>2, <3>1, PathFacts
  <2>4. d0 \in Asked({"create", "preserve"}) \cup {Root(q) : q \in Range(WantedPools)}
    BY <2>1
  <2>. QED
    BY <1>0, <1>1, <1>2, <1>6, <2>2, <2>3, <2>4, MakeKeeps
<1>7. \/ Skip \/ (Fails /\ UNCHANGED busy)
      \/ /\ it.op = "be_init" /\ ~want.dry /\ zfs' = Added(Parents(d0))
         /\ UNCHANGED <<swaps, dump>> /\ Proceed /\ UNCHANGED <<want, had, busy>>
  <2>1. CASE BEInit
    BY <1>0, <2>1 DEF BEInit, Is, Command, Skip
  <2>2. CASE BEFilesystem
    BY <2>2 DEF BEFilesystem, Command, Skip
  <2>. QED
    BY <2>1, <2>2
<1>. QED
  BY <1>4, <1>5, <1>6, <1>7

LEMMA NoDevicesKeeps == PoolInv /\ NoDevices => PoolInv'
<1>. SUFFICES ASSUME PoolInv, NoDevices
              PROVE  PoolInv'
  OBVIOUS
<1>1. result = "running" /\ work # <<>> /\ Fails /\ UNCHANGED busy
  BY DEF NoDevices, Is
<1>. QED
  BY <1>1, FailKeeps

\* When all the work is done, the target is as it is to be.
LEMMA DoneFromInv == PoolInv => DoneIsInstantiated
<1>. SUFFICES ASSUME PoolInv, result = "done", ~want.dry, ~want.zone
              PROVE  /\ \A d \in Asked({"create"}) :
                            ~HeldByDump(d) /\ ~Inside(d) /\ ~InBE(d) =>
                                There(d) /\ zfs[d] = "installer"
                     /\ \A d \in Asked({"delete"}) : ~HeldByDump(d) /\ ~Above(d) => ~There(d)
                     /\ \A d \in SwapVolumes({"create"}) : ~HeldByDump(d) => d \in swaps
  BY DEF DoneIsInstantiated
<1>1. SwapNew /\ \A it \in Range(ExecuteWork) : Held(it)
  <2>1. Going /\ work = <<>>
    BY DEF PoolInv, WorkShape, Going
  <2>2. Range(work) = {}
    BY <2>1 DEF Range
  <2>. QED
    BY <2>1, <2>2 DEF PoolInv, Progress, DoneHeld
<1>2. want \in Targets
  BY DEF PoolInv
\* What is given up has gone, unless it was made again.
<1>3. ASSUME NEW p \in Range(WantedPools), p.action \in Replaced,
             NEW d \in DOMAIN zfs, Beneath(PoolPath(p), d)
      PROVE  zfs[d] = "installer"
  <2>1. Held(Do("zpool_destroy", PoolPath(p), "none"))
    BY <1>1, <1>2, <1>3, ExecuteDestroys
  <2>. QED
    BY <1>3, <2>1 DEF Held, Do
<1>4. ASSUME NEW d \in Asked(Replaced), ~HeldByDump(d), d \in DOMAIN zfs
      PROVE  zfs[d] = "installer"
  <2>1. CASE \E p \in Range(WantedPools) : p.action \in Replaced /\ d = PoolPath(p)
    <3>1. PICK p \in Range(WantedPools) : p.action \in Replaced /\ d = PoolPath(p)
      BY <2>1
    <3>2. Beneath(PoolPath(p), d)
      BY <1>2, <3>1, PathKinds, PathFacts
    <3>. QED
      BY <1>3, <1>4, <3>1, <3>2
  <2>2. CASE \E p \in Range(WantedPools) : \E x \in Range(p.fs) \cup Range(p.zvols) :
                 x.action \in Replaced /\ d = Path(p, x)
    <3>1. PICK p \in Range(WantedPools) : \E x \in Range(p.fs) \cup Range(p.zvols) :
                   x.action \in Replaced /\ d = Path(p, x)
      BY <2>2
    <3>2. PICK x \in Range(p.fs) \cup Range(p.zvols) : x.action \in Replaced /\ d = Path(p, x)
      BY <3>1
    <3>3. CASE p.action \in Replaced
      <4>1. Beneath(PoolPath(p), d)
        BY <1>2, <3>2, PathKinds
      <4>. QED
        BY <1>3, <1>4, <3>3, <4>1
    <3>4. CASE p.action \notin Replaced /\ x \in Range(p.fs)
      <4>1. Held(Do("fs_destroy", d, "none"))
        BY <1>1, <1>2, <3>2, <3>4, ExecuteDestroys
      <4>. QED
        BY <1>4, <4>1 DEF Held, Do, There
    <3>5. CASE p.action \notin Replaced /\ x \in Range(p.zvols)
      <4>1. Held(Do("zvol_destroy", d, "none"))
        BY <1>1, <1>2, <3>2, <3>5, ExecuteDestroys
      <4>. QED
        BY <1>4, <4>1 DEF Held, Do, There
    <3>. QED
      BY <3>2, <3>3, <3>4, <3>5
  <2>. QED
    BY <1>4, <2>1, <2>2 DEF Asked
<1>5. Asked({"create"}) \subseteq Asked(Replaced) /\ Asked({"delete"}) \subseteq Asked(Replaced)
      /\ SwapVolumes({"create"}) \subseteq Asked(Replaced)
  BY DEF Asked, Replaced, SwapVolumes, Volumes, Acting
<1>6. ASSUME NEW d \in Asked({"create"}), ~HeldByDump(d), ~Inside(d), ~InBE(d)
      PROVE  There(d) /\ zfs[d] = "installer"
  <2>1. CASE \E p \in Range(WantedPools) : p.action = "create" /\ d = PoolPath(p)
    <3>1. PICK p \in Range(WantedPools) : p.action = "create" /\ d = PoolPath(p)
      BY <2>1
    <3>2. Held(PoolItem(p))
      BY <1>1, <1>2, ExecuteMakes
    <3>. QED
      BY <1>4, <1>5, <1>6, <3>1, <3>2 DEF Held, PoolItem, Do, There
  <2>2. CASE \E p \in Range(WantedPools) : \E f \in Range(p.fs) :
                 f.action = "create" /\ d = Path(p, f)
    <3>1. PICK p \in Range(WantedPools) : \E f \in Range(p.fs) :
                   f.action = "create" /\ d = Path(p, f)
      BY <2>2
    <3>2. PICK f \in Range(p.fs) : f.action = "create" /\ d = Path(p, f)
      BY <3>1
    <3>3. ~f.inBe
      BY <1>6, <3>2 DEF InBE
    <3>4. Held(Do("fs_create", d, "none"))
      BY <1>1, <1>2, <3>2, <3>3, ExecuteMakes
    <3>5. There(d)
      BY <3>4 DEF Held, Do
    <3>. QED
      BY <1>4, <1>5, <1>6, <3>5 DEF There
  <2>3. CASE \E p \in Range(WantedPools) : \E v \in Range(p.zvols) :
                 v.action = "create" /\ d = Path(p, v)
    <3>1. PICK p \in Range(WantedPools) : \E v \in Range(p.zvols) :
                   v.action = "create" /\ d = Path(p, v)
      BY <2>3
    <3>2. PICK v \in Range(p.zvols) : v.action = "create" /\ d = Path(p, v)
      BY <3>1
    <3>3. Held(Do("zvol_create", d, v.use))
      BY <1>1, <1>2, <3>2, ExecuteMakes
    <3>4. There(d)
      BY <3>3 DEF Held, Do
    <3>. QED
      BY <1>4, <1>5, <1>6, <3>4 DEF There
  <2>. QED
    BY <1>6, <2>1, <2>2, <2>3 DEF Asked
<1>7. ASSUME NEW d \in Asked({"delete"}), ~HeldByDump(d), ~Above(d), There(d)
      PROVE  FALSE
  <2>1. zfs[d] = "installer"
    BY <1>4, <1>5, <1>7 DEF There
  <2>. QED
    BY <1>7, <2>1 DEF PoolInv, MadeAbove, There
<1>8. ASSUME NEW d \in SwapVolumes({"create"}), ~HeldByDump(d)
      PROVE  d \in swaps
  <2>1. PICK p \in Range(WantedPools) : \E v \in Range(p.zvols) :
                 v.action = "create" /\ d = Path(p, v)
    BY <1>8 DEF SwapVolumes, Volumes, Acting
  <2>2. PICK v \in Range(p.zvols) : v.action = "create" /\ d = Path(p, v)
    BY <2>1
  <2>3. Held(Do("zvol_create", d, v.use))
    BY <1>1, <1>2, <2>2, ExecuteMakes
  <2>4. There(d)
    BY <2>3 DEF Held, Do
  <2>5. zfs[d] = "installer"
    BY <1>4, <1>5, <1>8, <2>4 DEF There
  <2>. QED
    BY <1>1, <1>8, <2>4, <2>5 DEF SwapNew
<1>. QED
  BY <1>6, <1>7, <1>8

(* Pools: whatever command fails, what the manifest does not give up is    *)
(* untouched; what is to be made is there, new, and in use as swap when    *)
(* execute() returns, and what is to be deleted is gone; a dry run changes *)
(* nothing; no pool is in use because of a swap volume being replaced.     *)
THEOREM PoolsAreSound == PoolSpec => []PoolsSound
<1>1. PoolInit => PoolInv
  BY PoolStart
<1>2. PoolInv /\ [PoolNext]_poolVars => PoolInv'
  <2>. SUFFICES ASSUME PoolInv, [PoolNext]_poolVars
                PROVE  PoolInv'
    OBVIOUS
  <2>1. CASE UNCHANGED poolVars
    <3>1. UNCHANGED <<want, had, zfs, swaps, dump, work, result, busy>>
      BY <2>1 DEF poolVars
    <3>2. PoolShape' /\ KeptUntouched' /\ MadeAbove'
      BY <3>1, LeavingKeeps
    <3>3. WorkShape'
      BY <3>1 DEF PoolInv, WorkShape, Rightful, WantedPools, InRanks
    <3>4. /\ ExecuteWork' = ExecuteWork
          /\ SwapVolumes(Replaced)' = SwapVolumes(Replaced)
          /\ SwapVolumes({"create"})' = SwapVolumes({"create"})
      BY <3>1 DEF ExecuteWork, DestroySwap, DestroyDump, DestroyLogicals, DestroyOf,
         CreateLogicals, CreateOf, CreateSwap, CreateDump, OfVolumes, GetVdevNames,
         BootEnvironment, InBoot, SwapVolumes, WantedPools
    <3>5. DryRunHarmless' /\ BusyShape'
      BY <3>1, <3>4 DEF PoolInv, DryRunHarmless, BusyShape
    <3>6. Progress'
      <4>1. \A it : Held(it)' <=> Held(it)
        BY <3>1 DEF Held, HeldByDump, There
      <4>2. DoneHeld' <=> DoneHeld
        BY <3>1, <3>4, <4>1 DEF DoneHeld
      <4>. QED
        BY <3>1, <3>4, <4>2 DEF PoolInv, Progress, Going, EarlyShape, Early, SwapGone, SwapNew, There
    <3>. QED
      BY <3>1, <3>2, <3>3, <3>5, <3>6 DEF PoolInv
  <2>2. CASE PoolNext
    BY <2>2, ZpoolDestroyKeeps, FilesystemDestroyKeeps, ZvolDestroyKeeps, ZpoolCreateKeeps,
       FilesystemCreateKeeps, ZvolCreateKeeps, BEKeeps, NoDevicesKeeps DEF PoolNext
  <2>. QED
    BY <2>1, <2>2
<1>3. PoolInv => PoolsSound
  <2>1. PoolInv => DevicesThere
    BY DEF PoolInv, BusyShape, DevicesThere
  <2>. QED
    BY <2>1, DoneFromInv DEF PoolInv, PoolsSound
<1>. QED
  BY <1>1, <1>2, <1>3, PTL DEF PoolSpec

-----------------------------------------------------------------------------
(* Transfer of software (Transfer): the inductive invariant.               *)

\* What the first k operations of a list are about.
Touched(items, k) == UNION {items[i].contents : i \in 1 .. k}
Undoes(i) == i.action = "uninstall"
\* What they leave transferred: the last operation on it did not take it away.
Standing(items, k) ==
    {x \in Touched(items, k) :
        \E i \in 1 .. k : /\ x \in items[i].contents /\ ~Undoes(items[i])
                          /\ \A j \in i + 1 .. k : x \in items[j].contents => ~Undoes(items[j])}
\* Nothing against an item comes between it and the same item asked for again.
Unopposed(items) ==
    \A i, j \in 1 .. Len(items) : i < j /\ items[i] = items[j] =>
        \A k \in i .. j : items[k].contents \cap items[i].contents # {} =>
                              (Undoes(items[k]) <=> Undoes(items[i]))
NoneUndone == \A s \in Softwares : s.kind = "IPS" => Unopposed(s.items)

ImagePub == [name : STRING \cup {NoPub}, origins : SUBSET (STRING \cup {Default})]
CkType ==
    [spec : Softwares,
     pc : {"new", "failed", "ready", "image", "monitor", "publishers", "next", "busy",
           "cleanup", "done"},
     list : Seq(ItemType), args : SUBSET STRING, parses : Nat, at : Nat \ {0},
     prog : BOOLEAN, dry : BOOLEAN, cancel : BOOLEAN, seen : BOOLEAN, raised : BOOLEAN,
     res : {"none", "ok", "raised"}]
TransferTypes ==
    /\ ck \in CkType
    /\ dst \in [there : BOOLEAN, have : SUBSET STRING, pubs : Seq(ImagePub)]
    /\ DOMAIN mon = {"pc", "done", "init", "pct"} /\ mon.pc \in {"off", "init", "watch", "ended"}

\* The places after the list was made.
Working == {"image", "monitor", "publishers", "next", "busy"}
Succeeded == ck.pc \in {"cleanup", "done"} /\ ck.res = "ok"
Unreported ==
    /\ ck.pc \notin {"cleanup", "done"} => ck.res = "none"
    /\ ck.pc = "new" => ck.list = <<>> /\ ck.parses = 0
    /\ ck.pc \in {"new", "ready"} => ~ck.raised
    /\ ck.pc \in {"new", "ready", "image", "monitor", "publishers"} => ck.at = 1
\* The list stands for the items of the node, whichever of them it holds once.
ListFits(list, items) ==
    /\ \A i \in 1 .. Len(items) : items[i] \in ToSet(list)
    /\ Touched(list, Len(list)) = Touched(items, Len(items))
    /\ NoneUndone => Standing(list, Len(list)) = Standing(items, Len(items))
ListShape ==
    /\ ck.pc = "ready" /\ CPIO(ck) => ck.list = <<>>
    /\ (ck.pc \in Working \cup {"ready"} \/ Succeeded) /\ ck.spec.kind \in {"IPS", "SVR4"} =>
          ListFits(ck.list, ck.spec.items)
    /\ ck.pc = "ready" /\ ck.spec.kind = "SVR4" => ck.parses > 0
    /\ ck.pc = "busy" => ck.at <= Len(ck.list)
    /\ ck.pc \in Working \/ Succeeded => ck.at <= Len(ck.list) + 1
    /\ Succeeded => ck.at = Len(ck.list) + 1
\* The operations that are done are those the loop has gone by.
DoneSoFar ==
    ck.pc \in Working \/ Succeeded =>
        (ck.spec.kind \in {"IPS", "SVR4"} /\ ~ck.dry =>
            dst.have \cap Touched(ck.list, ck.at - 1) = Standing(ck.list, ck.at - 1))
Named(s) == {Preferred(s)[1].name} \cup {Additional(s)[n].name : n \in DOMAIN Additional(s)}
\* The publishers of the node, each once, and the preferred one first.
Right(pubs, s) ==
    /\ {pubs[n].name : n \in DOMAIN pubs} = Named(s)
    /\ Len(pubs) = Cardinality(Named(s))
    /\ pubs[1].name = Preferred(s)[1].name
    /\ (\A n \in DOMAIN Additional(s) : Additional(s)[n].name # Preferred(s)[1].name) =>
           pubs[1].origins = Preferred(s)[1].origins
Publishers ==
    (~ck.dry /\ IPS(ck) /\ Preferred(ck.spec) # <<>>) =>
        /\ ck.pc \in {"monitor", "publishers"}
           /\ ck.spec.kind = "IPS" /\ ck.spec.action = "create" =>
              dst.pubs = <<Given(Preferred(ck.spec)[1])>>
        /\ ck.pc \in {"next", "busy"} \/ Succeeded => Right(dst.pubs, ck.spec)
\* The temporary files there can be.
FilesOf(c) == IF CPIO(c) THEN TempsOf(c) ELSE {Admin}
Files ==
    /\ ck.pc \in {"new", "ready", "cleanup", "done"} => tmp = {}
    /\ ck.pc \in Working => tmp \subseteq FilesOf(ck)
    /\ ck.pc = "done" => mon.pc \in {"off", "ended"}
TransferInv == TransferTypes /\ Unreported /\ ListShape /\ DoneSoFar /\ Publishers /\ Files

-----------------------------------------------------------------------------
(* What operations leave, one after the other.                             *)

AllDone(base, s) == FoldLeft(Done, base, s)
DoneInOrder(h, base, s, n) == h[0] = base /\ \A i \in 1 .. n : h[i] = Done(h[i - 1], s[i])

\* The operations of a transfer take effect one after the other.
LEMMA DoneStages ==
    ASSUME NEW base, NEW s, NEW n \in Nat, DOMAIN s = 1 .. n
    PROVE  \E h : DoneInOrder(h, base, s, n) /\ AllDone(base, s) = h[n]
<1>. DEFINE U == base \cup UNION {s[i].contents : i \in 1 .. n}
            it == AllDone(base, s)
            iter == CHOOSE iter : iter = [t \in SUBSET DOMAIN s |->
                       IF t = {} THEN base ELSE Done(iter[t \ {Max(t)}], s[Max(t)])]
            step(g, t) == Done(g[t \ {Max(t)}], s[Max(t)])
            Unfolds(g) == g = [t \in SUBSET DOMAIN s |-> IF t = {} THEN base ELSE step(g, t)]
            A == SUBSET U
            B == {s[i] : i \in 1 .. n}
            f == [p \in A \X B |-> Done(p[1], p[2])]
<1>1. it = iter[DOMAIN s]
  BY DEF AllDone, FoldLeft, MapThenFoldSet
<1>2. f \in [A \X B -> A] /\ base \in A /\ \A i \in 1 .. n : s[i] \in B
  BY DEF Done
<1>3. PICK g : FoldOf(g, A, f, base, s, n)
  <2>. HIDE DEF f, A, B
  <2>. QED
    BY <1>2, FoldGraph
<1>4. Unfolds(g)
  <2>1. ASSUME NEW t \in SUBSET (1 .. n), t # {}
        PROVE  g[t] = step(g, t)
    <3>1. Max(t) \in 1 .. n /\ t \ {Max(t)} \in SUBSET (1 .. n)
      BY <2>1, GreatestOf
    <3>2. s[Max(t)] \in B /\ g[t \ {Max(t)}] \in SUBSET U
      BY <1>3, <3>1 DEF FoldOf
    <3>3. g[t] = f[<<g[t \ {Max(t)}], s[Max(t)]>>]
      BY <1>3, <2>1 DEF FoldOf
    <3>. QED
      BY <3>2, <3>3
  <2>. QED
    BY <1>3, <2>1 DEF FoldOf
<1>5. Unfolds(iter)
  BY <1>4, Zenon
<1>6. \A t \in SUBSET (1 .. n) : iter[t] = IF t = {} THEN base ELSE step(iter, t)
  <2>. HIDE DEF iter, step
  <2>. QED
    BY <1>5
<1>. DEFINE h == [i \in 0 .. n |-> iter[1 .. i]]
<1>7. ASSUME NEW i \in 1 .. n PROVE h[i] = Done(h[i - 1], s[i])
  <2>. HIDE DEF iter
  <2>1. iter[1 .. i] = step(iter, 1 .. i)
    BY <1>6, UpTo
  <2>2. step(iter, 1 .. i) = Done(iter[1 .. i - 1], s[i])
    BY UpTo
  <2>. QED
    BY <2>1, <2>2
<1>8. h[0] = base
  <2>. HIDE DEF iter, step
  <2>1. 1 .. 0 = {}
    OBVIOUS
  <2>. QED
    BY <1>6, <2>1
<1>9. it = h[n]
  <2>. HIDE DEF iter, it
  <2>. QED
    BY <1>1
<1>. HIDE DEF h, it
<1>10. \E g0 : DoneInOrder(g0, base, s, n) /\ it = g0[n]
  BY <1>7, <1>8, <1>9 DEF DoneInOrder
<1>. QED
  BY <1>10 DEF it, AllDone

\* One more operation.
LEMMA StandingNext ==
    ASSUME NEW items \in Seq(ItemType), NEW k \in 1 .. Len(items)
    PROVE  /\ Standing(items, k) = Done(Standing(items, k - 1), items[k])
           /\ Touched(items, k) = Touched(items, k - 1) \cup items[k].contents
<1>1. 1 .. k = (1 .. k - 1) \cup {k} /\ k \notin 1 .. k - 1 /\ k + 1 .. k = {}
  OBVIOUS
<1>2. \A i \in 1 .. k - 1 : i + 1 .. k = (i + 1 .. k - 1) \cup {k}
  OBVIOUS
<1>3. Touched(items, k) = Touched(items, k - 1) \cup items[k].contents
  BY <1>1 DEF Touched
<1>4. ASSUME NEW x
      PROVE  x \in Standing(items, k) <=> x \in Done(Standing(items, k - 1), items[k])
  <2>1. x \in Standing(items, k) <=>
           /\ x \in Touched(items, k)
           /\ \/ \E i \in 1 .. k - 1 :
                    /\ x \in items[i].contents /\ ~Undoes(items[i])
                    /\ \A j \in i + 1 .. k - 1 : x \in items[j].contents => ~Undoes(items[j])
                    /\ x \in items[k].contents => ~Undoes(items[k])
              \/ x \in items[k].contents /\ ~Undoes(items[k])
    BY <1>1, <1>2 DEF Standing
  <2>2. x \in Standing(items, k - 1) <=>
           /\ x \in Touched(items, k - 1)
           /\ \E i \in 1 .. k - 1 :
                 /\ x \in items[i].contents /\ ~Undoes(items[i])
                 /\ \A j \in i + 1 .. k - 1 : x \in items[j].contents => ~Undoes(items[j])
    BY DEF Standing
  <2>3. \A i \in 1 .. k - 1 : x \in items[i].contents => x \in Touched(items, k - 1)
    BY DEF Touched
  <2>4. x \in Done(Standing(items, k - 1), items[k]) <=>
           IF Undoes(items[k]) THEN x \in Standing(items, k - 1) /\ x \notin items[k].contents
           ELSE x \in Standing(items, k - 1) \/ x \in items[k].contents
    BY DEF Done, Undoes
  <2>. QED
    BY <1>3, <2>1, <2>2, <2>3, <2>4
<1>5. Standing(items, k) = Done(Standing(items, k - 1), items[k])
  BY <1>4
<1>. QED
  BY <1>3, <1>5

LEMMA StandingNone ==
    ASSUME NEW items
    PROVE  Standing(items, 0) = {} /\ Touched(items, 0) = {}
  BY DEF Standing, Touched

LEMMA StandingTouched ==
    ASSUME NEW items, NEW k
    PROVE  Standing(items, k) \subseteq Touched(items, k)
  BY DEF Standing

\* What is transferred in the end, of what any operation is about.
LEMMA FoldDone ==
    ASSUME NEW items \in Seq(ItemType)
    PROVE  AllDone({}, items) = Standing(items, Len(items))
<1>. DEFINE n == Len(items)
<1>1. n \in Nat /\ DOMAIN items = 1 .. n
  OBVIOUS
<1>2. PICK h : DoneInOrder(h, {}, items, n) /\ AllDone({}, items) = h[n]
  <2>. HIDE DEF n
  <2>. QED
    BY <1>1, DoneStages
<1>. DEFINE Bad == {k \in 0 .. n : h[k] # Standing(items, k)}
<1>3. Bad = {}
  <2>1. SUFFICES ASSUME Bad # {} PROVE FALSE
    OBVIOUS
  <2>2. PICK m \in Bad : \A y \in Bad : m <= y
    <3>1. Bad \subseteq Nat
      BY <1>1
    <3>. HIDE DEF Bad
    <3>. QED
      BY <2>1, <3>1, LeastNat
  <2>3. m # 0 /\ m \in 0 .. n /\ h[m] # Standing(items, m)
    BY <1>2, <2>2, StandingNone DEF DoneInOrder
  <2>4. m \in 1 .. n /\ m - 1 \in 0 .. n /\ ~(m <= m - 1)
    BY <1>1, <2>3
  <2>5. h[m - 1] = Standing(items, m - 1)
    <3>1. m - 1 \notin Bad
      <4>. HIDE DEF Bad
      <4>. QED
        BY <2>2, <2>4
    <3>. QED
      BY <2>4, <3>1
  <2>6. h[m] = Done(h[m - 1], items[m])
    BY <1>2, <2>4 DEF DoneInOrder
  <2>. QED
    BY <2>3, <2>4, <2>5, <2>6, StandingNext
<1>. QED
  BY <1>1, <1>2, <1>3

LEMMA AddToType ==
    ASSUME NEW pubs \in Seq(ImagePub), NEW p \in SpecPub
    PROVE  AddTo(pubs, p) \in Seq(ImagePub)
<1>1. Given(p) \in ImagePub
  BY DEF Given, ImagePub, SpecPub
<1>2. CASE \E i \in DOMAIN pubs : pubs[i].name = p.name
  <2>. DEFINE e(i) == IF pubs[i].name = p.name THEN [pubs[i] EXCEPT !.origins = @ \cup p.origins]
                      ELSE pubs[i]
  <2>1. ASSUME NEW i \in 1 .. Len(pubs) PROVE e(i) \in ImagePub
    <3>1. pubs[i] \in ImagePub
      BY ElementOfSeq
    <3>. QED
      BY <3>1 DEF ImagePub, SpecPub
  <2>2. AddTo(pubs, p) = [i \in 1 .. Len(pubs) |-> e(i)]
    <3>1. DOMAIN pubs = 1 .. Len(pubs)
      BY LenProperties
    <3>2. AddTo(pubs, p) = [i \in DOMAIN pubs |-> e(i)]
      BY <1>2 DEF AddTo
    <3>. QED
      BY <3>1, <3>2
  <2>. HIDE DEF e
  <2>. QED
    BY <2>1, <2>2
<1>3. CASE ~\E i \in DOMAIN pubs : pubs[i].name = p.name
  BY <1>1, <1>3 DEF AddTo
<1>. QED
  BY <1>2, <1>3

AllAdded(base, s) == FoldLeft(AddTo, base, s)
AddedInOrder(h, base, s, n) == h[0] = base /\ \A i \in 1 .. n : h[i] = AddTo(h[i - 1], s[i])

\* The additional publishers are added one after the other.
LEMMA AddStages ==
    ASSUME NEW base \in Seq(ImagePub), NEW n \in Nat, NEW s, DOMAIN s = 1 .. n,
           \A i \in 1 .. n : s[i] \in SpecPub
    PROVE  \E h : AddedInOrder(h, base, s, n) /\ AllAdded(base, s) = h[n]
<1>. DEFINE it == AllAdded(base, s)
            iter == CHOOSE iter : iter = [t \in SUBSET DOMAIN s |->
                       IF t = {} THEN base ELSE AddTo(iter[t \ {Max(t)}], s[Max(t)])]
            step(g, t) == AddTo(g[t \ {Max(t)}], s[Max(t)])
            Unfolds(g) == g = [t \in SUBSET DOMAIN s |-> IF t = {} THEN base ELSE step(g, t)]
            A == Seq(ImagePub)
            B == SpecPub
            f == [p \in A \X B |-> AddTo(p[1], p[2])]
<1>1. it = iter[DOMAIN s]
  BY DEF AllAdded, FoldLeft, MapThenFoldSet
<1>2. f \in [A \X B -> A] /\ base \in A /\ \A i \in 1 .. n : s[i] \in B
  BY AddToType
<1>3. PICK g : FoldOf(g, A, f, base, s, n)
  <2>. HIDE DEF f, A, B
  <2>. QED
    BY <1>2, FoldGraph
<1>4. Unfolds(g)
  <2>1. ASSUME NEW t \in SUBSET (1 .. n), t # {}
        PROVE  g[t] = step(g, t)
    <3>1. Max(t) \in 1 .. n /\ t \ {Max(t)} \in SUBSET (1 .. n)
      BY <2>1, GreatestOf
    <3>2. s[Max(t)] \in B /\ g[t \ {Max(t)}] \in A
      BY <1>3, <3>1 DEF FoldOf
    <3>3. g[t] = f[<<g[t \ {Max(t)}], s[Max(t)]>>]
      BY <1>3, <2>1 DEF FoldOf
    <3>. QED
      BY <3>2, <3>3
  <2>. QED
    BY <1>3, <2>1 DEF FoldOf
<1>5. Unfolds(iter)
  BY <1>4, Zenon
<1>6. \A t \in SUBSET (1 .. n) : iter[t] = IF t = {} THEN base ELSE step(iter, t)
  <2>. HIDE DEF iter, step
  <2>. QED
    BY <1>5
<1>. DEFINE h == [i \in 0 .. n |-> iter[1 .. i]]
<1>7. ASSUME NEW i \in 1 .. n PROVE h[i] = AddTo(h[i - 1], s[i])
  <2>. HIDE DEF iter
  <2>1. iter[1 .. i] = step(iter, 1 .. i)
    BY <1>6, UpTo
  <2>2. step(iter, 1 .. i) = AddTo(iter[1 .. i - 1], s[i])
    BY UpTo
  <2>. QED
    BY <2>1, <2>2
<1>8. h[0] = base
  <2>. HIDE DEF iter, step
  <2>1. 1 .. 0 = {}
    OBVIOUS
  <2>. QED
    BY <1>6, <2>1
<1>9. it = h[n]
  <2>. HIDE DEF iter, it
  <2>. QED
    BY <1>1
<1>. HIDE DEF h, it
<1>10. \E g0 : AddedInOrder(g0, base, s, n) /\ it = g0[n]
  BY <1>7, <1>8, <1>9 DEF AddedInOrder
<1>. QED
  BY <1>10 DEF it, AllAdded

AllNoted(base, s) == FoldLeft(Noted, base, s)
NotedInOrder(h, base, s, n) == h[0] = base /\ \A i \in 1 .. n : h[i] = Noted(h[i - 1], s[i])

\* The items of a node are noted one after the other.
LEMMA NoteStages ==
    ASSUME NEW base \in Seq(ItemType), NEW n \in Nat, NEW s, DOMAIN s = 1 .. n,
           \A i \in 1 .. n : s[i] \in ItemType
    PROVE  \E h : NotedInOrder(h, base, s, n) /\ AllNoted(base, s) = h[n]
<1>. DEFINE it == AllNoted(base, s)
            iter == CHOOSE iter : iter = [t \in SUBSET DOMAIN s |->
                       IF t = {} THEN base ELSE Noted(iter[t \ {Max(t)}], s[Max(t)])]
            step(g, t) == Noted(g[t \ {Max(t)}], s[Max(t)])
            Unfolds(g) == g = [t \in SUBSET DOMAIN s |-> IF t = {} THEN base ELSE step(g, t)]
            A == Seq(ItemType)
            B == ItemType
            f == [p \in A \X B |-> Noted(p[1], p[2])]
<1>1. it = iter[DOMAIN s]
  BY DEF AllNoted, FoldLeft, MapThenFoldSet
<1>2. f \in [A \X B -> A] /\ base \in A /\ \A i \in 1 .. n : s[i] \in B
  BY DEF Noted
<1>3. PICK g : FoldOf(g, A, f, base, s, n)
  <2>. HIDE DEF f, A, B
  <2>. QED
    BY <1>2, FoldGraph
<1>4. Unfolds(g)
  <2>1. ASSUME NEW t \in SUBSET (1 .. n), t # {}
        PROVE  g[t] = step(g, t)
    <3>1. Max(t) \in 1 .. n /\ t \ {Max(t)} \in SUBSET (1 .. n)
      BY <2>1, GreatestOf
    <3>2. s[Max(t)] \in B /\ g[t \ {Max(t)}] \in A
      BY <1>3, <3>1 DEF FoldOf
    <3>3. g[t] = f[<<g[t \ {Max(t)}], s[Max(t)]>>]
      BY <1>3, <2>1 DEF FoldOf
    <3>. QED
      BY <3>2, <3>3
  <2>. QED
    BY <1>3, <2>1 DEF FoldOf
<1>5. Unfolds(iter)
  BY <1>4, Zenon
<1>6. \A t \in SUBSET (1 .. n) : iter[t] = IF t = {} THEN base ELSE step(iter, t)
  <2>. HIDE DEF iter, step
  <2>. QED
    BY <1>5
<1>. DEFINE h == [i \in 0 .. n |-> iter[1 .. i]]
<1>7. ASSUME NEW i \in 1 .. n PROVE h[i] = Noted(h[i - 1], s[i])
  <2>. HIDE DEF iter
  <2>1. iter[1 .. i] = step(iter, 1 .. i)
    BY <1>6, UpTo
  <2>2. step(iter, 1 .. i) = Noted(iter[1 .. i - 1], s[i])
    BY UpTo
  <2>. QED
    BY <2>1, <2>2
<1>8. h[0] = base
  <2>. HIDE DEF iter, step
  <2>1. 1 .. 0 = {}
    OBVIOUS
  <2>. QED
    BY <1>6, <2>1
<1>9. it = h[n]
  <2>. HIDE DEF iter, it
  <2>. QED
    BY <1>1
<1>. HIDE DEF h, it
<1>10. \E g0 : NotedInOrder(g0, base, s, n) /\ it = g0[n]
  BY <1>7, <1>8, <1>9 DEF NotedInOrder
<1>. QED
  BY <1>10 DEF it, AllNoted

-----------------------------------------------------------------------------
(* The list of a node.                                                     *)

\* Both depend on the first k operations only.
LEMMA StandingPrefix ==
    ASSUME NEW a, NEW b, NEW k \in Nat, \A i \in 1 .. k : a[i] = b[i]
    PROVE  Standing(a, k) = Standing(b, k) /\ Touched(a, k) = Touched(b, k)
<1>1. Touched(a, k) = Touched(b, k)
  BY DEF Touched
<1>2. \A i \in 1 .. k : \A j \in i + 1 .. k : j \in 1 .. k
  OBVIOUS
<1>3. ASSUME NEW x PROVE x \in Standing(a, k) <=> x \in Standing(b, k)
  BY <1>1, <1>2 DEF Standing
<1>. QED
  BY <1>1, <1>3

\* An operation that is asked for again, and none against it in between, does nothing.
LEMMA Repeated ==
    ASSUME NEW items \in Seq(ItemType), Unopposed(items),
           NEW k \in 1 .. Len(items), NEW i \in 1 .. k - 1, items[i] = items[k]
    PROVE  Done(Standing(items, k - 1), items[k]) = Standing(items, k - 1)
<1>. DEFINE S == Standing(items, k - 1)
<1>1. i \in 1 .. Len(items) /\ i < k
  OBVIOUS
<1>2. \A j \in i .. k - 1 : items[j].contents \cap items[i].contents # {} =>
                               (Undoes(items[j]) <=> Undoes(items[i]))
  BY <1>1 DEF Unopposed
<1>3. CASE ~Undoes(items[k])
  <2>1. ASSUME NEW x \in items[k].contents PROVE x \in S
    <3>1. x \in items[i].contents /\ ~Undoes(items[i])
      BY <1>3
    <3>2. \A j \in i + 1 .. k - 1 : x \in items[j].contents => ~Undoes(items[j])
      BY <1>2, <3>1
    <3>3. x \in Touched(items, k - 1)
      BY <3>1 DEF Touched
    <3>. QED
      BY <3>1, <3>2, <3>3 DEF Standing
  <2>. QED
    BY <1>3, <2>1 DEF Done, Undoes
<1>4. CASE Undoes(items[k])
  <2>1. ASSUME NEW x \in items[k].contents, x \in S PROVE FALSE
    <3>1. PICK m \in 1 .. k - 1 :
              /\ x \in items[m].contents /\ ~Undoes(items[m])
              /\ \A j \in m + 1 .. k - 1 : x \in items[j].contents => ~Undoes(items[j])
      BY <2>1 DEF Standing
    <3>2. x \in items[i].contents /\ Undoes(items[i])
      BY <1>4, <2>1
    <3>3. ~(m < i)
      BY <3>1, <3>2
    <3>. QED
      BY <1>2, <3>1, <3>2, <3>3
  <2>. QED
    BY <1>4, <2>1 DEF Done, Undoes
<1>. QED
  BY <1>3, <1>4

LEMMA NotedType ==
    ASSUME NEW list \in Seq(ItemType), NEW i \in ItemType
    PROVE  Noted(list, i) \in Seq(ItemType)
  BY DEF Noted

LEMMA AllNotedType ==
    ASSUME NEW list \in Seq(ItemType), NEW items \in Seq(ItemType)
    PROVE  AllNoted(list, items) \in Seq(ItemType)
<1>. DEFINE n == Len(items)
<1>1. /\ n \in Nat /\ DOMAIN items = 1 .. n
      /\ \A i \in 1 .. n : items[i] \in ItemType
  BY LenProperties, ElementOfSeq
<1>2. PICK h : NotedInOrder(h, list, items, n) /\ AllNoted(list, items) = h[n]
  <2>. HIDE DEF n
  <2>. QED
    BY <1>1, NoteStages
<1>. DEFINE Bad == {k \in 0 .. n : h[k] \notin Seq(ItemType)}
<1>3. Bad = {}
  <2>1. SUFFICES ASSUME Bad # {} PROVE FALSE
    OBVIOUS
  <2>2. PICK m \in Bad : \A y \in Bad : m <= y
    <3>1. Bad \subseteq Nat
      BY <1>1
    <3>. HIDE DEF Bad
    <3>. QED
      BY <2>1, <3>1, LeastNat
  <2>3. m # 0 /\ m \in 0 .. n /\ h[m] \notin Seq(ItemType)
    BY <1>2, <2>2 DEF NotedInOrder
  <2>4. m \in 1 .. n /\ m - 1 \in 0 .. n /\ ~(m <= m - 1)
    BY <1>1, <2>3
  <2>5. h[m - 1] \in Seq(ItemType)
    <3>1. m - 1 \notin Bad
      <4>. HIDE DEF Bad
      <4>. QED
        BY <2>2, <2>4
    <3>. QED
      BY <2>4, <3>1
  <2>6. h[m] = Noted(h[m - 1], items[m])
    BY <1>2, <2>4 DEF NotedInOrder
  <2>. QED
    BY <1>1, <2>3, <2>4, <2>5, <2>6, NotedType
<1>. QED
  BY <1>1, <1>2, <1>3

\* A list that has all the items of a node is not changed by them.
LEMMA NotedAgain ==
    ASSUME NEW list \in Seq(ItemType), NEW items \in Seq(ItemType),
           \A i \in 1 .. Len(items) : items[i] \in ToSet(list)
    PROVE  AllNoted(list, items) = list
<1>. DEFINE n == Len(items)
<1>1. /\ n \in Nat /\ DOMAIN items = 1 .. n
      /\ \A i \in 1 .. n : items[i] \in ItemType
  BY LenProperties, ElementOfSeq
<1>2. PICK h : NotedInOrder(h, list, items, n) /\ AllNoted(list, items) = h[n]
  <2>. HIDE DEF n
  <2>. QED
    BY <1>1, NoteStages
<1>. DEFINE Bad == {k \in 0 .. n : h[k] # list}
<1>3. Bad = {}
  <2>1. SUFFICES ASSUME Bad # {} PROVE FALSE
    OBVIOUS
  <2>2. PICK m \in Bad : \A y \in Bad : m <= y
    <3>1. Bad \subseteq Nat
      BY <1>1
    <3>. HIDE DEF Bad
    <3>. QED
      BY <2>1, <3>1, LeastNat
  <2>3. m # 0 /\ m \in 0 .. n /\ h[m] # list
    BY <1>2, <2>2 DEF NotedInOrder
  <2>4. m \in 1 .. n /\ m - 1 \in 0 .. n /\ ~(m <= m - 1)
    BY <1>1, <2>3
  <2>5. h[m - 1] = list
    <3>1. m - 1 \notin Bad
      <4>. HIDE DEF Bad
      <4>. QED
        BY <2>2, <2>4
    <3>. QED
      BY <2>4, <3>1
  <2>6. h[m] = Noted(h[m - 1], items[m])
    BY <1>2, <2>4 DEF NotedInOrder
  <2>. QED
    BY <2>3, <2>4, <2>5, <2>6 DEF Noted
<1>. QED
  BY <1>1, <1>2, <1>3

\* What a list of items has of the first k items of a node.
Covers(list, items, k) ==
    /\ list \in Seq(ItemType)
    /\ \A i \in 1 .. k : items[i] \in ToSet(list)
    /\ \A x \in ToSet(list) : \E i \in 1 .. k : x = items[i]
    /\ Touched(list, Len(list)) = Touched(items, k)
    /\ Unopposed(items) => Standing(list, Len(list)) = Standing(items, k)

\* One more item of the node is noted.
LEMMA CoversNext ==
    ASSUME NEW items \in Seq(ItemType), NEW k \in 1 .. Len(items), NEW list,
           Covers(list, items, k - 1)
    PROVE  Covers(Noted(list, items[k]), items, k)
<1>. DEFINE it == items[k]
            new == Append(list, it)
<1>1. 1 .. k = (1 .. k - 1) \cup {k}
  OBVIOUS
<1>2. it \in ItemType /\ list \in Seq(ItemType)
  BY ElementOfSeq DEF Covers
<1>3. /\ Standing(items, k) = Done(Standing(items, k - 1), it)
      /\ Touched(items, k) = Touched(items, k - 1) \cup it.contents
  BY StandingNext
<1>4. CASE it \in ToSet(list)
  <2>1. PICK i \in 1 .. k - 1 : it = items[i]
    BY <1>4 DEF Covers
  <2>2. it.contents \subseteq Touched(items, k - 1)
    BY <2>1 DEF Touched
  <2>3. Unopposed(items) => Standing(items, k) = Standing(items, k - 1)
    BY <1>3, <2>1, Repeated
  <2>4. \A j \in 1 .. k : items[j] \in ToSet(list)
    BY <1>1, <1>4 DEF Covers
  <2>5. \A x \in ToSet(list) : \E j \in 1 .. k : x = items[j]
    BY <1>1 DEF Covers
  <2>6. Covers(list, items, k)
    BY <1>3, <2>2, <2>3, <2>4, <2>5 DEF Covers
  <2>. QED
    BY <1>4, <2>6 DEF Noted
<1>5. CASE it \notin ToSet(list)
  <2>. DEFINE n == Len(list)
  <2>1. /\ new \in Seq(ItemType) /\ Len(new) = n + 1 /\ n \in Nat
        /\ new[n + 1] = it /\ \A i \in 1 .. n : new[i] = list[i]
    BY <1>2
  <2>2. ToSet(new) = ToSet(list) \cup {it}
    <3>1. DOMAIN new = 1 .. n + 1 /\ DOMAIN list = 1 .. n
      BY <1>2, <2>1, LenProperties
    <3>2. 1 .. n + 1 = (1 .. n) \cup {n + 1}
      BY <2>1
    <3>. HIDE DEF new
    <3>. QED
      BY <2>1, <3>1, <3>2 DEF ToSet
  <2>. HIDE DEF new, n
  <2>3. /\ Standing(new, n + 1) = Done(Standing(new, n), it)
        /\ Touched(new, n + 1) = Touched(new, n) \cup it.contents
    <3>1. n + 1 \in 1 .. Len(new) /\ (n + 1) - 1 = n
      BY <2>1
    <3>. QED
      BY <2>1, <3>1, StandingNext
  <2>4. Standing(new, n) = Standing(list, n) /\ Touched(new, n) = Touched(list, n)
    BY <2>1, StandingPrefix
  <2>5. Covers(new, items, k)
    <3>1. \A j \in 1 .. k : items[j] \in ToSet(new)
      BY <1>1, <2>2 DEF Covers
    <3>2. \A x \in ToSet(new) : \E j \in 1 .. k : x = items[j]
      BY <1>1, <2>2 DEF Covers
    <3>. QED
      BY <1>3, <2>1, <2>3, <2>4, <3>1, <3>2 DEF Covers, n
  <2>. QED
    BY <1>5, <2>5 DEF Noted, new
<1>. QED
  BY <1>4, <1>5

LEMMA NotedAll ==
    ASSUME NEW items \in Seq(ItemType)
    PROVE  Covers(AllNoted(<<>>, items), items, Len(items))
<1>. DEFINE n == Len(items)
            empty == <<>>
<1>1. /\ n \in Nat /\ DOMAIN items = 1 .. n
      /\ \A i \in 1 .. n : items[i] \in ItemType
  BY LenProperties, ElementOfSeq
<1>2. PICK h : NotedInOrder(h, empty, items, n) /\ AllNoted(empty, items) = h[n]
  <2>1. empty \in Seq(ItemType)
    OBVIOUS
  <2>. HIDE DEF n, empty
  <2>. QED
    BY <1>1, <2>1, NoteStages
<1>3. Covers(empty, items, 0)
  <2>1. empty \in Seq(ItemType) /\ Len(empty) = 0 /\ ToSet(empty) = {}
    BY DEF ToSet
  <2>2. Standing(empty, 0) = {} /\ Touched(empty, 0) = {}
    BY StandingNone
  <2>3. Standing(items, 0) = {} /\ Touched(items, 0) = {}
    BY StandingNone
  <2>4. 1 .. 0 = {}
    OBVIOUS
  <2>. HIDE DEF empty
  <2>. QED
    BY <2>1, <2>2, <2>3, <2>4 DEF Covers
<1>. DEFINE Bad == {k \in 0 .. n : ~Covers(h[k], items, k)}
<1>4. Bad = {}
  <2>. HIDE DEF empty
  <2>1. SUFFICES ASSUME Bad # {} PROVE FALSE
    OBVIOUS
  <2>2. PICK m \in Bad : \A y \in Bad : m <= y
    <3>1. Bad \subseteq Nat
      BY <1>1
    <3>. HIDE DEF Bad
    <3>. QED
      BY <2>1, <3>1, LeastNat
  <2>3. m # 0 /\ m \in 0 .. n /\ ~Covers(h[m], items, m)
    BY <1>2, <1>3, <2>2 DEF NotedInOrder
  <2>4. m \in 1 .. n /\ m - 1 \in 0 .. n /\ ~(m <= m - 1)
    BY <1>1, <2>3
  <2>5. Covers(h[m - 1], items, m - 1)
    <3>1. m - 1 \notin Bad
      <4>. HIDE DEF Bad
      <4>. QED
        BY <2>2, <2>4
    <3>. QED
      BY <2>4, <3>1
  <2>6. h[m] = Noted(h[m - 1], items[m])
    BY <1>2, <2>4 DEF NotedInOrder
  <2>. QED
    BY <2>3, <2>4, <2>5, <2>6, CoversNext
<1>. QED
  BY <1>1, <1>2, <1>4

-----------------------------------------------------------------------------
(* The publishers of an image.                                             *)

\* What the nodes of the manifest are.
LEMMA SoftwareIs ==
    ASSUME NEW s \in Softwares
    PROVE  /\ s.kind \in {"IPS", "P5I", "CPIO", "SVR4"} /\ s.action \in {"create", "use_existing"}
           /\ s.items \in Seq(ItemType) /\ s.pubs \in Seq(SpecPub) /\ s.args \in SUBSET STRING
           /\ s.zone \in BOOLEAN
  BY TransferAssumption DEF SoftwareType, SpecPub

LEMMA PublishersOf ==
    ASSUME NEW s \in Softwares
    PROVE  /\ Preferred(s) \in Seq(SpecPub) /\ Additional(s) \in Seq(SpecPub)
           /\ Preferred(s) # <<>> => Preferred(s)[1] \in SpecPub
<1>. DEFINE p == s.pubs
<1>1. p \in Seq(SpecPub) /\ Len(p) \in Nat
  BY SoftwareIs
<1>2. Preferred(s) \in Seq(SpecPub) /\ Additional(s) \in Seq(SpecPub)
  <2>1. CASE s.kind = "P5I"
    <3>1. \A i \in 2 .. Len(p) : p[i] \in SpecPub
      BY <1>1, ElementOfSeq
    <3>2. SubSeq(p, 3, Len(p)) \in Seq(SpecPub)
      BY <1>1, <3>1, SubSeqProperties
    <3>. DEFINE m == IF Len(p) > 1 THEN 2 ELSE 0
    <3>3. m \in Int /\ \A i \in 2 .. m : p[i] \in SpecPub
      BY <1>1, <3>1
    <3>4. SubSeq(p, 2, m) \in Seq(SpecPub)
      <4>. HIDE DEF m
      <4>. QED
        BY <3>3, SubSeqProperties
    <3>. QED
      BY <2>1, <3>2, <3>4 DEF Preferred, Additional
  <2>2. CASE s.kind # "P5I" /\ (s.zone \/ p = <<>>)
    BY <1>1, <2>2 DEF Preferred, Additional
  <2>3. CASE s.kind # "P5I" /\ ~s.zone /\ p # <<>>
    <3>1. Head(p) \in SpecPub /\ Tail(p) \in Seq(SpecPub)
      BY <1>1, <2>3, HeadTailProperties
    <3>. QED
      BY <2>3, <3>1 DEF Preferred, Additional
  <2>. QED
    BY <2>1, <2>2, <2>3
<1>. DEFINE q == Preferred(s)
<1>3. q # <<>> => q[1] \in SpecPub
  <2>. HIDE DEF q
  <2>1. q \in Seq(SpecPub)
    BY <1>2 DEF q
  <2>2. q # <<>> => 1 \in 1 .. Len(q)
    BY <2>1
  <2>. QED
    BY <2>1, <2>2, ElementOfSeq
<1>. QED
  BY <1>2, <1>3

\* The publishers that an image has stay publishers.
LEMMA WithoutType ==
    ASSUME NEW pubs \in Seq(ImagePub), NEW name
    PROVE  Without(pubs, name) \in Seq(ImagePub)
<1>. DEFINE n == Len(pubs)
            e(i) == IF pubs[i].name = name THEN <<>> ELSE <<pubs[i]>>
            seqs == [i \in 1 .. n |-> e(i)]
<1>1. n \in Nat /\ DOMAIN pubs = 1 .. n
  BY LenProperties
<1>2. ASSUME NEW i \in 1 .. n PROVE e(i) \in Seq(ImagePub)
  <2>1. pubs[i] \in ImagePub
    BY ElementOfSeq
  <2>. QED
    BY <2>1
<1>3. seqs \in [1 .. n -> Seq(ImagePub)]
  <2>. HIDE DEF e
  <2>. QED
    BY <1>2
<1>4. Without(pubs, name) = FlattenSeq(seqs)
  BY <1>1 DEF Without
<1>5. FlattenSeq(seqs) \in Seq(ImagePub)
  <2>. HIDE DEF seqs, n
  <2>. QED
    BY <1>1, <1>3, RangeOfAll
<1>. QED
  BY <1>4, <1>5

LEMMA GivenType ==
    ASSUME NEW p \in SpecPub
    PROVE  Given(p) \in ImagePub /\ Given(p).name = p.name /\ Given(p).origins = p.origins
  BY DEF Given, ImagePub, SpecPub

\* What the first of the publishers is, and the rest, after k additional ones.
AddedRight(pubs, p, add, k) ==
    /\ pubs \in Seq(ImagePub) /\ Len(pubs) >= 1
    /\ \A i, j \in 1 .. Len(pubs) : pubs[i].name = pubs[j].name => i = j
    /\ \A i \in 1 .. Len(pubs) :
          pubs[i].name = p.name \/ \E n \in 1 .. k : pubs[i].name = add[n].name
    /\ \A n \in 1 .. k : \E i \in 1 .. Len(pubs) : pubs[i].name = add[n].name
    /\ pubs[1].name = p.name
    /\ (\A n \in 1 .. k : add[n].name # p.name) => pubs[1].origins = p.origins

\* One more additional publisher.
LEMMA AddedNext ==
    ASSUME NEW p \in SpecPub, NEW add \in Seq(SpecPub), NEW k \in 1 .. Len(add), NEW pubs,
           AddedRight(pubs, p, add, k - 1)
    PROVE  AddedRight(AddTo(pubs, add[k]), p, add, k)
<1>. DEFINE a == add[k]
            new == AddTo(pubs, a)
            l == Len(pubs)
<1>1. 1 .. k = (1 .. k - 1) \cup {k}
  OBVIOUS
<1>2. a \in SpecPub
  BY ElementOfSeq
<1>3. pubs \in Seq(ImagePub) /\ l \in Nat /\ l >= 1 /\ DOMAIN pubs = 1 .. l
  BY LenProperties DEF AddedRight
<1>4. new \in Seq(ImagePub)
  BY <1>2, <1>3, AddToType
<1>5. CASE \E i \in DOMAIN pubs : pubs[i].name = a.name
  <2>1. new = [i \in 1 .. l |-> IF pubs[i].name = a.name
                                THEN [pubs[i] EXCEPT !.origins = @ \cup a.origins] ELSE pubs[i]]
    BY <1>3, <1>5 DEF AddTo
  <2>2. ASSUME NEW i \in 1 .. l
        PROVE  /\ new[i].name = pubs[i].name
               /\ pubs[i].name # a.name => new[i].origins = pubs[i].origins
    <3>1. pubs[i] \in ImagePub
      BY <1>3, ElementOfSeq
    <3>. QED
      BY <2>1, <3>1 DEF ImagePub
  <2>3. Len(new) = l
    BY <1>3, <2>1
  <2>. HIDE DEF new
  <2>4. 1 \in 1 .. l
    BY <1>3
  <2>. HIDE DEF l, a
  <2>5. \A i \in 1 .. l :
           new[i].name = p.name \/ \E n \in 1 .. k : new[i].name = add[n].name
    BY <1>1, <2>2 DEF AddedRight, l
  <2>6. \A n \in 1 .. k : \E i \in 1 .. l : new[i].name = add[n].name
    <3>1. \E i \in 1 .. l : new[i].name = a.name
      BY <1>3, <1>5, <2>2
    <3>2. ASSUME NEW n \in 1 .. k - 1 PROVE \E i \in 1 .. l : new[i].name = add[n].name
      <4>1. PICK i \in 1 .. l : pubs[i].name = add[n].name
        BY DEF AddedRight, l
      <4>. QED
        BY <2>2, <4>1
    <3>. QED
      BY <1>1, <3>1, <3>2 DEF a
  <2>7. (\A n \in 1 .. k : add[n].name # p.name) => new[1].origins = p.origins
    BY <1>1, <2>2, <2>4 DEF AddedRight, a
  <2>8. \A i, j \in 1 .. l : new[i].name = new[j].name => i = j
    BY <2>2 DEF AddedRight, l
  <2>9. new[1].name = p.name
    BY <2>2, <2>4 DEF AddedRight
  <2>10. AddedRight(new, p, add, k)
    BY <1>3, <1>4, <2>3, <2>5, <2>6, <2>7, <2>8, <2>9 DEF AddedRight
  <2>. QED
    BY <2>10 DEF new, a
<1>6. CASE ~\E i \in DOMAIN pubs : pubs[i].name = a.name
  <2>. DEFINE g == Given(a)
  <2>1. new = Append(pubs, g) /\ g \in ImagePub /\ g.name = a.name
    BY <1>2, <1>6, GivenType DEF AddTo
  <2>. HIDE DEF g
  <2>2. Len(new) = l + 1 /\ new[l + 1] = g /\ \A i \in 1 .. l : new[i] = pubs[i]
    BY <1>3, <2>1
  <2>3. 1 .. l + 1 = (1 .. l) \cup {l + 1} /\ 1 \in 1 .. l /\ l + 1 \notin 1 .. l
    BY <1>3
  <2>. HIDE DEF new, l, a
  <2>4. \A i \in 1 .. l + 1 :
           new[i].name = p.name \/ \E n \in 1 .. k : new[i].name = add[n].name
    BY <1>1, <2>1, <2>2, <2>3 DEF AddedRight, l, a
  <2>5. \A n \in 1 .. k : \E i \in 1 .. l + 1 : new[i].name = add[n].name
    BY <1>1, <2>1, <2>2, <2>3 DEF AddedRight, l, a
  <2>6. (\A n \in 1 .. k : add[n].name # p.name) => new[1].origins = p.origins
    BY <1>1, <2>2, <2>3 DEF AddedRight
  <2>7. \A i, j \in 1 .. l + 1 : new[i].name = new[j].name => i = j
    BY <1>3, <1>6, <2>1, <2>2, <2>3 DEF AddedRight, l
  <2>8. new[1].name = p.name
    BY <2>2, <2>3 DEF AddedRight
  <2>9. AddedRight(new, p, add, k)
    BY <1>3, <1>4, <2>2, <2>4, <2>5, <2>6, <2>7, <2>8 DEF AddedRight
  <2>. QED
    BY <2>9 DEF new, a
<1>. QED
  BY <1>5, <1>6

LEMMA AddedAll ==
    ASSUME NEW p \in SpecPub, NEW add \in Seq(SpecPub)
    PROVE  AddedRight(AllAdded(<<Given(p)>>, add), p, add, Len(add))
<1>. DEFINE n == Len(add)
            first == <<Given(p)>>
<1>1. /\ n \in Nat /\ DOMAIN add = 1 .. n
      /\ \A i \in 1 .. n : add[i] \in SpecPub
  BY LenProperties, ElementOfSeq
<1>2. AddedRight(first, p, add, 0)
  <2>1. first \in Seq(ImagePub) /\ Len(first) = 1 /\ first[1] = Given(p)
    BY GivenType
  <2>2. 1 .. 0 = {} /\ 1 .. 1 = {1}
    OBVIOUS
  <2>. HIDE DEF first
  <2>. QED
    BY <2>1, <2>2, GivenType DEF AddedRight
<1>3. PICK h : AddedInOrder(h, first, add, n) /\ AllAdded(first, add) = h[n]
  <2>1. first \in Seq(ImagePub)
    BY <1>2 DEF AddedRight
  <2>. HIDE DEF n, first
  <2>. QED
    BY <1>1, <2>1, AddStages
<1>. DEFINE Bad == {k \in 0 .. n : ~AddedRight(h[k], p, add, k)}
<1>4. Bad = {}
  <2>. HIDE DEF first
  <2>1. SUFFICES ASSUME Bad # {} PROVE FALSE
    OBVIOUS
  <2>2. PICK m \in Bad : \A y \in Bad : m <= y
    <3>1. Bad \subseteq Nat
      BY <1>1
    <3>. HIDE DEF Bad
    <3>. QED
      BY <2>1, <3>1, LeastNat
  <2>3. m # 0 /\ m \in 0 .. n /\ ~AddedRight(h[m], p, add, m)
    BY <1>2, <1>3, <2>2 DEF AddedInOrder
  <2>4. m \in 1 .. n /\ m - 1 \in 0 .. n /\ ~(m <= m - 1)
    BY <1>1, <2>3
  <2>5. AddedRight(h[m - 1], p, add, m - 1)
    <3>1. m - 1 \notin Bad
      <4>. HIDE DEF Bad
      <4>. QED
        BY <2>2, <2>4
    <3>. QED
      BY <2>4, <3>1
  <2>6. h[m] = AddTo(h[m - 1], add[m])
    BY <1>3, <2>4 DEF AddedInOrder
  <2>. QED
    BY <2>3, <2>4, <2>5, <2>6, AddedNext
<1>. QED
  BY <1>1, <1>3, <1>4

LEMMA AllAddedType ==
    ASSUME NEW pubs \in Seq(ImagePub), NEW add \in Seq(SpecPub)
    PROVE  AllAdded(pubs, add) \in Seq(ImagePub)
<1>. DEFINE n == Len(add)
<1>1. /\ n \in Nat /\ DOMAIN add = 1 .. n
      /\ \A i \in 1 .. n : add[i] \in SpecPub
  BY LenProperties, ElementOfSeq
<1>2. PICK h : AddedInOrder(h, pubs, add, n) /\ AllAdded(pubs, add) = h[n]
  <2>. HIDE DEF n
  <2>. QED
    BY <1>1, AddStages
<1>. DEFINE Bad == {k \in 0 .. n : h[k] \notin Seq(ImagePub)}
<1>3. Bad = {}
  <2>1. SUFFICES ASSUME Bad # {} PROVE FALSE
    OBVIOUS
  <2>2. PICK m \in Bad : \A y \in Bad : m <= y
    <3>1. Bad \subseteq Nat
      BY <1>1
    <3>. HIDE DEF Bad
    <3>. QED
      BY <2>1, <3>1, LeastNat
  <2>3. m # 0 /\ m \in 0 .. n /\ h[m] \notin Seq(ImagePub)
    BY <1>2, <2>2 DEF AddedInOrder
  <2>4. m \in 1 .. n /\ m - 1 \in 0 .. n /\ ~(m <= m - 1)
    BY <1>1, <2>3
  <2>5. h[m - 1] \in Seq(ImagePub)
    <3>1. m - 1 \notin Bad
      <4>. HIDE DEF Bad
      <4>. QED
        BY <2>2, <2>4
    <3>. QED
      BY <2>4, <3>1
  <2>6. h[m] = AddTo(h[m - 1], add[m])
    BY <1>2, <2>4 DEF AddedInOrder
  <2>. QED
    BY <1>1, <2>3, <2>4, <2>5, <2>6, AddToType
<1>. QED
  BY <1>1, <1>2, <1>3

\* Publishers with different names are as many as their names.
LEMMA NamesCounted ==
    ASSUME NEW pubs \in Seq(ImagePub),
           \A i, j \in 1 .. Len(pubs) : pubs[i].name = pubs[j].name => i = j
    PROVE  Cardinality({pubs[n].name : n \in DOMAIN pubs}) = Len(pubs)
<1>. DEFINE l == Len(pubs)
            T == {pubs[n].name : n \in 1 .. l}
            f == [n \in 1 .. l |-> pubs[n].name]
<1>1. l \in Nat /\ DOMAIN pubs = 1 .. l
  BY LenProperties
<1>2. f \in Bijection(1 .. l, T)
  BY DEF Bijection, Injection, Surjection, IsInjective
<1>3. IsFiniteSet(1 .. l) /\ Cardinality(1 .. l) = l
  BY <1>1, FS_Interval
<1>4. ExistsBijection(1 .. l, T)
  BY <1>2 DEF ExistsBijection
<1>5. Cardinality(T) = l
  <2>. HIDE DEF T, l
  <2>. QED
    BY <1>3, <1>4, FS_Bijection
<1>. QED
  BY <1>1, <1>5

\* What update_publishers() leaves in the image.
LEMMA SetPublishersRight ==
    ASSUME NEW s \in Softwares, NEW pubs \in Seq(ImagePub)
    PROVE  /\ SetPublishers(pubs, s) \in Seq(ImagePub)
           /\ Preferred(s) # <<>> /\ (\/ s.kind = "P5I" \/ s.action = "use_existing"
                                      \/ pubs = <<Given(Preferred(s)[1])>>)
              => Right(SetPublishers(pubs, s), s)
<1>. DEFINE p == Preferred(s)[1]
            add == Additional(s)
            Resets == (s.kind = "P5I" \/ s.action = "use_existing") /\ Preferred(s) # <<>>
            first == IF Resets THEN <<Head(PlaceFirst(pubs, p))>> ELSE pubs
<1>1. SetPublishers(pubs, s) = AllAdded(first, add)
  BY DEF SetPublishers, AllAdded
<1>2. add \in Seq(SpecPub) /\ (Preferred(s) # <<>> => p \in SpecPub)
  BY PublishersOf
<1>3. Preferred(s) # <<>> => Head(PlaceFirst(pubs, p)) = Given(p) /\ Given(p) \in ImagePub
  <2>. DEFINE rest == Without(pubs, p.name)
              g == Given(p)
  <2>1. rest \in Seq(ImagePub)
    BY WithoutType
  <2>2. Preferred(s) # <<>> => g \in ImagePub
    BY <1>2, GivenType
  <2>3. PlaceFirst(pubs, p) = <<g>> \o rest
    BY DEF PlaceFirst
  <2>. HIDE DEF g, rest
  <2>4. g \in ImagePub => Head(<<g>> \o rest) = g
    BY <2>1
  <2>. QED
    BY <2>2, <2>3, <2>4 DEF g
<1>4. first \in Seq(ImagePub)
  BY <1>3
<1>5. SetPublishers(pubs, s) \in Seq(ImagePub)
  <2>. HIDE DEF first, add
  <2>. QED
    BY <1>1, <1>2, <1>4, AllAddedType
<1>6. ASSUME Preferred(s) # <<>>,
             s.kind = "P5I" \/ s.action = "use_existing" \/ pubs = <<Given(p)>>
      PROVE  Right(SetPublishers(pubs, s), s)
  <2>. DEFINE q == SetPublishers(pubs, s)
  <2>1. first = <<Given(p)>>
    BY <1>3, <1>6
  <2>. HIDE DEF first
  <2>2. AddedRight(q, p, add, Len(add))
    <3>. HIDE DEF p, add
    <3>. QED
      BY <1>1, <1>2, <1>6, <2>1, AddedAll
  <2>. HIDE DEF q
  <2>3. q \in Seq(ImagePub) /\ DOMAIN q = 1 .. Len(q) /\ DOMAIN add = 1 .. Len(add)
        /\ Len(q) >= 1 /\ Len(q) \in Nat
    BY <1>2, <2>2, LenProperties DEF AddedRight
  <2>4. {q[n].name : n \in DOMAIN q} = Named(s)
    <3>1. 1 \in DOMAIN q
      BY <2>3
    <3>. HIDE DEF p, add
    <3>2. Named(s) = {p.name} \cup {add[n].name : n \in DOMAIN add}
      BY DEF Named, p, add
    <3>3. /\ \A i \in DOMAIN q : q[i].name = p.name \/ \E n \in DOMAIN add : q[i].name = add[n].name
          /\ \A n \in DOMAIN add : \E i \in DOMAIN q : q[i].name = add[n].name
          /\ q[1].name = p.name
      <4>1. /\ \A i \in 1 .. Len(q) : q[i].name = p.name \/ \E n \in 1 .. Len(add) : q[i].name = add[n].name
            /\ \A n \in 1 .. Len(add) : \E i \in 1 .. Len(q) : q[i].name = add[n].name
            /\ q[1].name = p.name
        BY <2>2 DEF AddedRight
      <4>2. DOMAIN q = 1 .. Len(q) /\ DOMAIN add = 1 .. Len(add)
        BY <2>3
      <4>. QED
        BY <4>1, <4>2, Zenon
    <3>4. {q[n].name : n \in DOMAIN q} \subseteq {p.name} \cup {add[n].name : n \in DOMAIN add}
      BY <3>3
    <3>5. {p.name} \cup {add[n].name : n \in DOMAIN add} \subseteq {q[n].name : n \in DOMAIN q}
      BY <3>1, <3>3
    <3>. QED
      BY <3>2, <3>4, <3>5
  <2>5. Cardinality({q[n].name : n \in DOMAIN q}) = Len(q)
    BY <2>2, NamesCounted DEF AddedRight
  <2>6. Right(q, s)
    BY <2>2, <2>3, <2>4, <2>5 DEF AddedRight, Right
  <2>. QED
    BY <2>6 DEF q
<1>. QED
  BY <1>5, <1>6

-----------------------------------------------------------------------------
(* Parsing.                                                                *)

\* The items before the first one that cannot be parsed.
LEMMA FirstBad ==
    ASSUME NEW n \in Nat, NEW bad \in SUBSET (1 .. n), bad # {}
    PROVE  Min(bad) \in 1 .. n
<1>1. bad \subseteq Nat
  OBVIOUS
<1>2. PICK m \in bad : \A x \in bad : m <= x
  BY <1>1, LeastNat
<1>. QED
  BY <1>2 DEF Min

LEMMA ItemsBefore ==
    ASSUME NEW items \in Seq(ItemType), NEW bad \in SUBSET (1 .. Len(items)), bad # {}
    PROVE  SubSeq(items, 1, Min(bad) - 1) \in Seq(ItemType)
<1>1. Len(items) \in Nat
  BY LenProperties
<1>2. Min(bad) \in 1 .. Len(items)
  BY <1>1, FirstBad
<1>3. Min(bad) - 1 \in 0 .. Len(items)
  BY <1>1, <1>2
<1>. QED
  BY <1>3, FirstOnes

LEMMA ReadBeforeType ==
    ASSUME ck \in CkType, NEW have, NEW full \in BOOLEAN
    PROVE  ReadBefore(ck, have, full) \in Seq(ItemType)
<1>. DEFINE its == ck.spec.items
            bad == {n \in DOMAIN its : /\ ~Skips(its[n], full)
                                       /\ Unreadable(its[n], have \ Removed(SubSeq(its, 1, n - 1), full))}
<1>1. its \in Seq(ItemType) /\ DOMAIN its = 1 .. Len(its)
  BY SoftwareIs, LenProperties DEF CkType
<1>2. bad \in SUBSET (1 .. Len(its))
  BY <1>1
<1>3. ReadBefore(ck, have, full) = IF bad = {} THEN its ELSE SubSeq(its, 1, Min(bad) - 1)
  BY DEF ReadBefore
<1>. HIDE DEF bad
<1>. QED
  BY <1>1, <1>2, <1>3, ItemsBefore

\* What reading the node leaves alone.
Kept(c) ==
    /\ c \in CkType /\ c.spec = ck.spec /\ c.pc = ck.pc /\ c.at = ck.at /\ c.res = ck.res
    /\ c.cancel = ck.cancel

\* What _parse_input() makes of the node, for each kind of transfer.
LEMMA IPSParsed ==
    ASSUME ck \in CkType, ck.spec.kind = "IPS"
    PROVE  LET c == ParseIPS(ck) IN
           /\ Kept(c)
           /\ ck.list = <<>> => ListFits(c.list, ck.spec.items)
           /\ ListFits(ck.list, ck.spec.items) => c.list = ck.list
<1>. DEFINE c == ParseIPS(ck)
            items == ck.spec.items
<1>1. items \in Seq(ItemType) /\ ck.list \in Seq(ItemType) /\ ck.spec \in Softwares
  BY SoftwareIs DEF CkType
<1>2. c.list = AllNoted(ck.list, items)
  BY DEF ParseIPS, AllNoted, CkType
<1>3. AllNoted(ck.list, items) \in Seq(ItemType)
  <2>. HIDE DEF items
  <2>. QED
    BY <1>1, AllNotedType
<1>4. Kept(c)
  BY <1>1, <1>2, <1>3, SoftwareIs DEF ParseIPS, CkType, Kept, AllNoted
<1>5. ck.list = <<>> => ListFits(c.list, items)
  <2>1. Covers(AllNoted(<<>>, items), items, Len(items))
    BY <1>1, NotedAll
  <2>2. NoneUndone => Unopposed(items)
    BY <1>1 DEF NoneUndone
  <2>. HIDE DEF c, items
  <2>. QED
    BY <1>2, <2>1, <2>2 DEF Covers, ListFits
<1>6. ListFits(ck.list, items) => c.list = ck.list
  <2>. HIDE DEF c, items
  <2>. QED
    BY <1>1, <1>2, NotedAgain DEF ListFits
<1>. QED
  BY <1>4, <1>5, <1>6

LEMMA P5IParsed ==
    ASSUME ck \in CkType, ck.spec.kind = "P5I"
    PROVE  Kept(ParseP5I(ck))
<1>. DEFINE items == ck.spec.items
            list == IF items = <<>> THEN ck.list ELSE Noted(ck.list, Last(items))
<1>1. items \in Seq(ItemType) /\ ck.list \in Seq(ItemType)
  BY SoftwareIs DEF CkType
<1>2. items # <<>> => Last(items) \in ItemType
  BY <1>1 DEF Last
<1>3. list \in Seq(ItemType)
  BY <1>1, <1>2 DEF Noted
<1>. HIDE DEF list
<1>4. ParseP5I(ck) = [ck EXCEPT !.raised = items = <<>> \/ TwoPolicies(ck.spec), !.list = list]
  BY DEF ParseP5I, list, CkType
<1>. HIDE DEF items
<1>. QED
  BY <1>3, <1>4 DEF Kept, CkType

LEMMA SVR4Parsed ==
    ASSUME ck \in CkType, ck.spec.kind = "SVR4"
    PROVE  LET c == ParseSVR4(ck) IN
           /\ Kept(c)
           /\ ck.list = <<>> /\ ck.parses = 0 /\ ~c.raised =>
                 c.list = ck.spec.items /\ c.parses > 0
           /\ ck.parses > 0 => c = ck
<1>. DEFINE items == ck.spec.items
            bad == {n \in DOMAIN items : items[n].file # ""}
            its == IF bad = {} THEN items ELSE SubSeq(items, 1, Min(bad) - 1)
            c == ParseSVR4(ck)
<1>1. items \in Seq(ItemType) /\ ck.list \in Seq(ItemType) /\ DOMAIN items = 1 .. Len(items)
  BY SoftwareIs, LenProperties DEF CkType
<1>2. its \in Seq(ItemType)
  <2>1. bad \in SUBSET (1 .. Len(items))
    BY <1>1
  <2>. HIDE DEF bad
  <2>. QED
    BY <1>1, <2>1, ItemsBefore
<1>3. ck.list \o its \in Seq(ItemType)
  <2>. HIDE DEF its
  <2>. QED
    BY <1>1, <1>2, ConcatProperties
<1>4. ck.parses \in Nat
  BY DEF CkType
<1>5. CASE ck.parses > 0
  <2>1. c = ck
    BY <1>5 DEF ParseSVR4
  <2>. HIDE DEF c
  <2>2. Kept(c)
    BY <2>1 DEF Kept
  <2>3. ck.parses # 0
    BY <1>4, <1>5
  <2>. QED
    BY <2>1, <2>2, <2>3 DEF c
<1>6. CASE ck.parses = 0
  <2>1. c = [ck EXCEPT !.raised = bad # {}, !.list = ck.list \o its,
                       !.parses = IF bad = {} THEN 1 ELSE 0]
    BY <1>6 DEF ParseSVR4, CkType
  <2>2. ck.list = <<>> => ck.list \o its = its
    <3>. HIDE DEF its
    <3>. QED
      BY <1>2, ConcatEmptySeq
  <2>. HIDE DEF c
  <2>3. Kept(c)
    <3>. HIDE DEF its, bad
    <3>. QED
      BY <1>3, <2>1 DEF Kept, CkType
  <2>4. ck.list = <<>> /\ ~c.raised => c.list = items /\ c.parses > 0
    <3>1. ~c.raised => bad = {}
      BY <2>1 DEF CkType
    <3>2. c.list = ck.list \o its /\ (bad = {} => c.parses = 1)
      BY <2>1 DEF CkType
    <3>3. bad = {} => its = items
      OBVIOUS
    <3>. HIDE DEF its, bad
    <3>. QED
      BY <2>2, <3>1, <3>2, <3>3
  <2>. QED
    BY <1>6, <2>3, <2>4 DEF c
<1>. QED
  BY <1>4, <1>5, <1>6

LEMMA CPIOParsed ==
    ASSUME ck \in CkType, CPIO(ck), NEW have, NEW full \in BOOLEAN
    PROVE  LET c == ParseCPIO(ck, have, full)
               its == ReadBefore(ck, have, full) IN
           /\ Kept(c)
           /\ full /\ ck.list = <<>> => TempLists(ck, its, full) \subseteq TempsOf(c)
<1>. DEFINE c == ParseCPIO(ck, have, full)
            its == ReadBefore(ck, have, full)
            e(n) == [its[n] EXCEPT !.temp = IF Skips(its[n], full) THEN <<>> ELSE Sorted(ck, n)]
            new == [n \in 1 .. Len(its) |-> e(n)]
<1>1. its \in Seq(ItemType)
  BY ReadBeforeType
<1>2. Len(its) \in Nat /\ DOMAIN its = 1 .. Len(its)
  <2>. HIDE DEF its
  <2>. QED
    BY <1>1, LenProperties
<1>3. \A n \in 1 .. Len(its) : its[n] \in ItemType /\ Sorted(ck, n) \in Seq(Nat)
  <2>. HIDE DEF its
  <2>. QED
    BY <1>1, <1>2, ElementOfSeq DEF Sorted, CkType
<1>4. \A n \in 1 .. Len(its) :
         e(n) \in ItemType /\ e(n).action = its[n].action
         /\ e(n).temp = IF Skips(its[n], full) THEN <<>> ELSE Sorted(ck, n)
  <2>. TAKE n \in 1 .. Len(its)
  <2>. DEFINE r == its[n]
              t == IF Skips(its[n], full) THEN <<>> ELSE Sorted(ck, n)
  <2>1. r \in ItemType /\ t \in Seq(Nat)
    BY <1>3
  <2>2. e(n) = [r EXCEPT !.temp = t]
    OBVIOUS
  <2>. HIDE DEF r, t, e
  <2>3. e(n) \in ItemType /\ e(n).action = r.action /\ e(n).temp = t
    BY <2>1, <2>2 DEF ItemType
  <2>. QED
    BY <2>3 DEF r, t
<1>5. new \in Seq(ItemType) /\ Len(new) = Len(its) /\ \A n \in 1 .. Len(its) : new[n] = e(n)
  <2>. HIDE DEF its, e
  <2>. QED
    BY <1>2, <1>4
<1>6. c = [ck EXCEPT !.raised = Len(its) < Len(ck.spec.items), !.parses = @ + 1,
                     !.list = ck.list \o new]
  BY <1>2 DEF ParseCPIO, CkType
<1>. HIDE DEF c
<1>7. Kept(c) /\ c.list = ck.list \o new
  <2>1. ck.list \o new \in Seq(ItemType)
    <3>. HIDE DEF new
    <3>. QED
      BY <1>5, ConcatProperties DEF CkType
  <2>2. Len(ck.spec.items) \in Nat
    BY SoftwareIs, LenProperties DEF CkType
  <2>. DEFINE short == Len(its) < Len(ck.spec.items)
              list == ck.list \o new
  <2>3. short \in BOOLEAN
    <3>. HIDE DEF its
    <3>. QED
      BY <1>2, <2>2
  <2>4. c = [ck EXCEPT !.raised = short, !.parses = @ + 1, !.list = list]
    BY <1>6
  <2>5. list \in Seq(ItemType)
    BY <2>1
  <2>. HIDE DEF its, new, short, list
  <2>6. Kept(c) /\ c.list = list
    <3>1. ck.parses + 1 \in Nat
      BY DEF CkType
    <3>2. c \in CkType
      BY <2>3, <2>4, <2>5, <3>1 DEF CkType
    <3>3. /\ c.spec = ck.spec /\ c.pc = ck.pc /\ c.at = ck.at /\ c.res = ck.res
          /\ c.cancel = ck.cancel /\ c.list = list
      BY <2>4 DEF CkType
    <3>. QED
      BY <3>2, <3>3 DEF Kept
  <2>. QED
    BY <2>6 DEF list
<1>8. ASSUME full, ck.list = <<>>, NEW f \in TempLists(ck, its, full)
      PROVE  f \in TempsOf(c)
  <2>1. PICK n \in DOMAIN its : its[n].action = "install" /\ ~Skips(its[n], full)
                                /\ f = Sorted(ck, n)
    BY <1>8 DEF TempLists
  <2>2. c.list = new
    <3>. HIDE DEF new
    <3>. QED
      BY <1>5, <1>7, <1>8, ConcatEmptySeq
  <2>3. n \in DOMAIN new
    BY <1>2, <2>1
  <2>4. new[n].action = "install" /\ new[n].temp = f
    <3>. HIDE DEF new, e
    <3>. QED
      BY <1>2, <1>4, <1>5, <2>1
  <2>. QED
    BY <2>2, <2>3, <2>4 DEF TempsOf
<1>. QED
  BY <1>7, <1>8 DEF c

LEMMA ParsedFacts ==
    ASSUME ck \in CkType, NEW have, NEW full \in BOOLEAN
    PROVE  LET c == Parsed(ck, have, full) IN
           /\ Kept(c)
           /\ ck.spec.kind = "IPS" /\ ck.list = <<>> => ListFits(c.list, ck.spec.items)
           /\ ck.spec.kind = "IPS" /\ ListFits(ck.list, ck.spec.items) => c.list = ck.list
           /\ ck.spec.kind = "SVR4" /\ ck.list = <<>> /\ ck.parses = 0 /\ ~c.raised =>
                 c.list = ck.spec.items /\ c.parses > 0
           /\ ck.spec.kind = "SVR4" /\ ck.parses > 0 => c = ck
           /\ CPIO(ck) /\ full /\ ck.list = <<>> =>
                 TempLists(ck, ReadBefore(ck, have, full), full) \subseteq TempsOf(c)
<1>1. CASE ck.spec.kind = "IPS"
  <2>1. Parsed(ck, have, full) = ParseIPS(ck)
    BY <1>1 DEF Parsed
  <2>. QED
    BY <1>1, <2>1, IPSParsed DEF CPIO
<1>2. CASE ck.spec.kind = "P5I"
  <2>1. Parsed(ck, have, full) = ParseP5I(ck)
    BY <1>2 DEF Parsed
  <2>. QED
    BY <1>2, <2>1, P5IParsed DEF CPIO
<1>3. CASE ck.spec.kind = "CPIO"
  <2>1. Parsed(ck, have, full) = ParseCPIO(ck, have, full)
    BY <1>3 DEF Parsed
  <2>. QED
    BY <1>3, <2>1, CPIOParsed DEF CPIO
<1>4. CASE ck.spec.kind = "SVR4"
  <2>1. Parsed(ck, have, full) = ParseSVR4(ck)
    BY <1>4 DEF Parsed
  <2>. QED
    BY <1>4, <2>1, SVR4Parsed DEF CPIO
<1>5. ck.spec.kind \in {"IPS", "P5I", "CPIO", "SVR4"}
  BY SoftwareIs DEF CkType
<1>. QED
  BY <1>1, <1>2, <1>3, <1>4, <1>5

-----------------------------------------------------------------------------
(* The steps.                                                              *)

\* The cleanup of a kind of transfer removes the files of that kind.
LEMMA CleansUp ==
    ASSUME NEW c, NEW files, files \subseteq FilesOf(c)
    PROVE  CleanupFiles(c, files) = {}
  BY DEF CleanupFiles, FilesOf

LEMMA FilesSame ==
    ASSUME NEW c, NEW d, c.spec = d.spec, c.list = d.list
    PROVE  FilesOf(c) = FilesOf(d)
  BY DEF FilesOf, TempsOf, CPIO

LEMMA MonitorStops ==
    ASSUME TransferTypes
    PROVE  /\ DOMAIN StopMonitor(mon) = {"pc", "done", "init", "pct"}
           /\ StopMonitor(mon).pc = mon.pc
  BY DEF TransferTypes, StopMonitor

\* An exception ends in the cleanup.
LEMMA RaiseKeeps ==
    ASSUME TransferInv, NEW c \in CkType, c.res = "raised", NEW files, files \subseteq FilesOf(c),
           Finally(c, files, mon),
           dst' \in [there : BOOLEAN, have : SUBSET STRING, pubs : Seq(ImagePub)]
    PROVE  TransferInv'
<1>1. ck' \in CkType /\ ck'.pc = "cleanup" /\ ck'.res = "raised"
  BY DEF Finally, CkType
<1>2. tmp' = {}
  BY CleansUp DEF Finally
<1>3. TransferTypes'
  BY <1>1, MonitorStops DEF TransferInv, TransferTypes, Finally
<1>4. ~Succeeded' /\ ck'.pc \notin Working
  BY <1>1 DEF Succeeded, Working
<1>. QED
  BY <1>1, <1>2, <1>3, <1>4
  DEF TransferInv, Unreported, ListShape, DoneSoFar, Publishers, Files

\* The steps one by one.
LEMMA EstimateKeeps ==
    ASSUME TransferInv, Estimate
    PROVE  TransferInv'
<1>. DEFINE c == Parsed(ck, lists, FALSE)
            raised == c.raised \/ Invalid(c.spec)
            its == ReadBefore(ck, lists, FALSE)
            made == IF CPIO(c) THEN TempLists(ck, its, FALSE) ELSE {}
            pc == IF raised THEN "failed" ELSE "ready"
            list == IF CPIO(c) /\ ~raised THEN <<>> ELSE c.list
<1>1. /\ ck \in CkType /\ ck.pc = "new" /\ ck.list = <<>> /\ ck.parses = 0 /\ ck.at = 1
      /\ ck.res = "none" /\ tmp = {}
  BY DEF Estimate, TransferInv, TransferTypes, Unreported, Files
<1>2. /\ Kept(c)
      /\ ck.spec.kind = "IPS" => ListFits(c.list, ck.spec.items)
      /\ ck.spec.kind = "SVR4" /\ ~c.raised => c.list = ck.spec.items /\ c.parses > 0
  BY <1>1, ParsedFacts
<1>3. /\ ck' = [c EXCEPT !.pc = pc, !.prog = ~raised, !.raised = FALSE, !.list = list]
      /\ tmp' = IF raised THEN tmp \cup made ELSE tmp
      /\ UNCHANGED <<dst, mon>>
  BY DEF Estimate
<1>. HIDE DEF c, made, its
<1>4. list \in Seq(ItemType)
  <2>1. c.list \in Seq(ItemType)
    BY <1>2 DEF Kept, CkType
  <2>. QED
    BY <2>1
<1>5. raised \in BOOLEAN
  BY <1>2 DEF Kept, CkType, Invalid
<1>. HIDE DEF list
<1>6. /\ ck' \in CkType /\ ck'.spec = ck.spec /\ ck'.pc = pc /\ ck'.at = 1 /\ ck'.res = "none"
      /\ ~ck'.raised /\ ck'.list = list /\ ck'.parses = c.parses
  BY <1>1, <1>2, <1>3, <1>4, <1>5 DEF Kept, CkType
<1>7. ~raised => /\ ~c.raised /\ tmp' = {} /\ pc = "ready"
                 /\ list = IF CPIO(ck) THEN <<>> ELSE c.list
  BY <1>1, <1>2, <1>3 DEF list, Kept, CPIO
<1>8. pc \in {"failed", "ready"} /\ (pc = "ready" => ~raised)
  OBVIOUS
<1>. HIDE DEF pc, raised
<1>9. ~raised /\ ck.spec.kind \in {"IPS", "SVR4"} => ListFits(list, ck.spec.items)
  <2>1. ck.spec.kind \in {"IPS", "SVR4"} => ~CPIO(ck)
    BY DEF CPIO
  <2>2. ListFits(ck.spec.items, ck.spec.items)
    <3>. DEFINE items == ck.spec.items
    <3>1. DOMAIN items = 1 .. Len(items)
      BY <1>1, SoftwareIs, LenProperties DEF CkType
    <3>. HIDE DEF items
    <3>2. ListFits(items, items)
      BY <3>1 DEF ListFits, ToSet
    <3>. QED
      BY <3>2 DEF items
  <2>. QED
    BY <1>2, <1>7, <2>1, <2>2
<1>10. ~Succeeded' /\ ck'.pc \notin Working
  BY <1>6, <1>8 DEF Succeeded, Working
<1>11. TransferTypes'
  BY <1>3, <1>6 DEF TransferInv, TransferTypes
<1>12. Unreported'
  BY <1>6, <1>8 DEF Unreported
<1>13. ListShape'
  BY <1>2, <1>6, <1>7, <1>8, <1>9, <1>10 DEF ListShape, CPIO
<1>14. DoneSoFar' /\ Publishers' /\ Files'
  BY <1>6, <1>7, <1>8, <1>10 DEF DoneSoFar, Publishers, Files
<1>. QED
  BY <1>11, <1>12, <1>13, <1>14 DEF TransferInv

LEMMA ExecuteKeeps ==
    ASSUME TransferInv, NEW dry \in BOOLEAN, Execute(dry)
    PROVE  TransferInv'
<1>. DEFINE p == Parsed(ck, lists, TRUE)
            c == [p EXCEPT !.dry = dry]
            its == ReadBefore(ck, lists, TRUE)
            made == IF CPIO(c) THEN TempLists(ck, its, TRUE)
                    ELSE IF c.spec.kind = "SVR4" /\ ~c.raised THEN {Admin} ELSE {}
<1>1. /\ ck \in CkType /\ ck.pc = "ready" /\ ck.at = 1 /\ ck.res = "none" /\ ~ck.raised
      /\ tmp = {} /\ (CPIO(ck) => ck.list = <<>>)
      /\ ck.spec.kind \in {"IPS", "SVR4"} => ListFits(ck.list, ck.spec.items)
      /\ ck.spec.kind = "SVR4" => ck.parses > 0
  BY DEF Execute, TransferInv, TransferTypes, Unreported, Files, ListShape
<1>2. /\ Kept(p)
      /\ ck.spec.kind = "IPS" => p.list = ck.list
      /\ ck.spec.kind = "SVR4" => p = ck
      /\ CPIO(ck) => TempLists(ck, its, TRUE) \subseteq TempsOf(p)
  BY <1>1, ParsedFacts
<1>. HIDE DEF p, its
<1>3. /\ c \in CkType /\ c.spec = ck.spec /\ c.at = 1 /\ c.res = "none" /\ c.list = p.list
      /\ c.raised = p.raised
  BY <1>1, <1>2 DEF Kept, CkType
<1>4. made \subseteq FilesOf(c)
  <2>. HIDE DEF c
  <2>1. TempsOf(p) = TempsOf(c)
    BY <1>3 DEF TempsOf
  <2>. QED
    BY <1>2, <1>3, <2>1 DEF FilesOf, CPIO
<1>5. CASE p.raised
  <2>. DEFINE r == [c EXCEPT !.res = "raised"]
  <2>1. Finally(r, tmp \cup made, mon) /\ UNCHANGED dst
    BY <1>3, <1>5 DEF Execute, p, its
  <2>2. r \in CkType /\ r.res = "raised" /\ r.spec = c.spec /\ r.list = c.list
    <3>. HIDE DEF c
    <3>. QED
      BY <1>3 DEF CkType
  <2>. HIDE DEF c, made, r
  <2>3. tmp \cup made \subseteq FilesOf(r)
    BY <1>1, <1>4, <2>2, FilesSame
  <2>. QED
    BY <2>1, <2>2, <2>3, RaiseKeeps DEF TransferInv, TransferTypes
<1>6. CASE ~p.raised
  <2>1. /\ ck' = [c EXCEPT !.pc = "image"]
        /\ tmp' = IF CPIO(c) /\ ck.cancel THEN CleanupFiles(c, tmp \cup made) ELSE tmp \cup made
        /\ UNCHANGED <<mon, dst>>
    BY <1>3, <1>6 DEF Execute, p, its
  <2>. HIDE DEF c, made
  <2>2. /\ ck' \in CkType /\ ck'.spec = ck.spec /\ ck'.pc = "image" /\ ck'.at = 1
        /\ ck'.res = "none" /\ ck'.list = c.list
    BY <1>3, <2>1 DEF CkType
  <2>3. tmp' \subseteq FilesOf(ck')
    <3>1. FilesOf(ck') = FilesOf(c)
      BY <1>3, <2>2, FilesSame
    <3>. QED
      BY <1>1, <1>4, <2>1, <3>1, CleansUp
  <2>4. ck.spec.kind \in {"IPS", "SVR4"} => ListFits(ck'.list, ck'.spec.items)
    BY <1>1, <1>2, <1>3, <2>2
  <2>5. ~Succeeded'
    BY <2>2 DEF Succeeded
  <2>6. TransferTypes' /\ Unreported'
    BY <2>1, <2>2 DEF TransferInv, TransferTypes, Unreported
  <2>7. ListShape'
    <3>1. Len(ck'.list) \in Nat
      BY <2>2, LenProperties DEF CkType
    <3>. QED
      BY <2>2, <2>4, <2>5, <3>1 DEF ListShape, Working
  <2>8. DoneSoFar'
    <3>1. 1 - 1 = 0
      OBVIOUS
    <3>2. Standing(ck'.list, 0) = {} /\ Touched(ck'.list, 0) = {}
      BY StandingNone
    <3>. QED
      BY <2>2, <3>1, <3>2 DEF DoneSoFar
  <2>9. Publishers' /\ Files'
    BY <2>2, <2>3, <2>5 DEF Publishers, Files, Working
  <2>. QED
    BY <2>6, <2>7, <2>8, <2>9 DEF TransferInv
<1>. QED
  BY <1>5, <1>6

LEMMA MakeImageKeeps ==
    ASSUME TransferInv, NEW ok \in BOOLEAN, MakeImage(ok)
    PROVE  TransferInv'
<1>. DEFINE s == ck.spec
            create == s.kind = "IPS" /\ s.action = "create"
            good == ck.dry \/ s.kind \notin {"IPS", "P5I"} \/ (ok /\ (dst.there \/ create))
            p == Preferred(s)[1]
            first == IF Preferred(s) = <<>> THEN <<[name |-> NoPub, origins |-> {Default}]>>
                     ELSE <<[name |-> p.name, origins |-> p.origins]>>
            image == IF ck.dry THEN dst
                     ELSE IF create THEN [there |-> TRUE, have |-> {}, pubs |-> first]
                     ELSE [dst EXCEPT !.there = TRUE]
            none == [there |-> FALSE, have |-> {}, pubs |-> <<>>]
            DstType == [there : BOOLEAN, have : SUBSET STRING, pubs : Seq(ImagePub)]
<1>1. /\ ck \in CkType /\ ck.pc = "image" /\ ck.at = 1 /\ ck.res = "none" /\ dst \in DstType
      /\ tmp \subseteq FilesOf(ck) /\ s \in Softwares
  BY DEF MakeImage, TransferInv, TransferTypes, Unreported, Files, Working, CkType
<1>2. first \in Seq(ImagePub) /\ (Preferred(s) # <<>> => first = <<Given(p)>>)
  <2>1. Preferred(s) # <<>> => Given(p) \in ImagePub
    BY <1>1, PublishersOf, GivenType
  <2>2. [name |-> NoPub, origins |-> {Default}] \in ImagePub
    BY DEF ImagePub
  <2>3. [name |-> p.name, origins |-> p.origins] = Given(p)
    BY DEF Given
  <2>. HIDE DEF p, s
  <2>. QED
    BY <2>1, <2>2, <2>3
<1>3. CASE ~good
  <2>. DEFINE r == [ck EXCEPT !.res = "raised"]
  <2>1. Finally(r, tmp, mon) /\ dst' = IF create THEN none ELSE dst
    BY <1>3 DEF MakeImage
  <2>2. r \in CkType /\ r.res = "raised" /\ r.spec = ck.spec /\ r.list = ck.list
    BY <1>1 DEF CkType
  <2>. HIDE DEF r
  <2>3. tmp \subseteq FilesOf(r)
    BY <1>1, <2>2, FilesSame
  <2>4. none \in DstType
    OBVIOUS
  <2>5. dst' \in DstType
    <3>. HIDE DEF none, DstType, create
    <3>. QED
      BY <1>1, <2>1, <2>4
  <2>. QED
    BY <2>1, <2>2, <2>3, <2>5, RaiseKeeps
<1>4. CASE good
  <2>1. ck' = [ck EXCEPT !.pc = "monitor"] /\ UNCHANGED <<tmp, mon>> /\ dst' = image
    BY <1>4 DEF MakeImage
  <2>2. /\ ck' \in CkType /\ ck'.spec = ck.spec /\ ck'.pc = "monitor" /\ ck'.at = 1
        /\ ck'.res = "none" /\ ck'.list = ck.list /\ ck'.dry = ck.dry
    BY <1>1, <2>1 DEF CkType
  <2>3. dst' \in DstType
    <3>. HIDE DEF first, create
    <3>. QED
      BY <1>1, <1>2, <2>1
  <2>4. ~Succeeded'
    BY <2>2 DEF Succeeded
  <2>5. FilesOf(ck') = FilesOf(ck)
    BY <2>2, FilesSame
  <2>6. TransferTypes' /\ Unreported'
    BY <2>1, <2>2, <2>3 DEF TransferInv, TransferTypes, Unreported
  <2>7. ListShape'
    <3>1. Len(ck'.list) \in Nat
      BY <2>2, LenProperties DEF CkType
    <3>. QED
      BY <1>1, <2>2, <2>4, <3>1 DEF TransferInv, ListShape, Working
  <2>8. DoneSoFar'
    <3>1. Standing(ck'.list, 0) = {} /\ Touched(ck'.list, 0) = {} /\ 1 - 1 = 0
      BY StandingNone
    <3>. QED
      BY <2>2, <3>1 DEF DoneSoFar
  <2>9. Publishers'
    <3>1. ~ck.dry /\ create /\ Preferred(s) # <<>> => dst'.pubs = <<Given(p)>>
      <4>. HIDE DEF first
      <4>. QED
        BY <1>2, <2>1
    <3>. QED
      BY <2>2, <2>4, <3>1 DEF Publishers
  <2>10. Files'
    BY <1>1, <2>1, <2>2, <2>5 DEF Files, Working
  <2>. QED
    BY <2>6, <2>7, <2>8, <2>9, <2>10 DEF TransferInv
<1>. QED
  BY <1>3, <1>4

\* Steps of the monitor alone.
LEMMA MonitorKeeps ==
    ASSUME TransferInv, StartMonitor \/ MonitorInit \/ MonitorLooks
    PROVE  TransferInv'
<1>1. UNCHANGED <<ck, dst, tmp>>
  BY DEF StartMonitor, MonitorInit, MonitorLooks
<1>2. /\ DOMAIN mon' = DOMAIN mon /\ mon'.pc \in {"off", "init", "watch", "ended"}
      /\ ck.pc = "done" => mon'.pc \in {"off", "ended"}
  <2>1. DOMAIN mon = {"pc", "done", "init", "pct"} /\ mon.pc \in {"off", "init", "watch", "ended"}
        /\ (ck.pc = "done" => mon.pc \in {"off", "ended"})
    BY DEF TransferInv, TransferTypes, Files
  <2>2. CASE StartMonitor
    BY <2>1, <2>2 DEF StartMonitor
  <2>3. CASE MonitorInit
    BY <2>1, <2>3 DEF MonitorInit
  <2>4. CASE MonitorLooks
    <3>1. CASE mon' = [mon EXCEPT !.pc = "ended"]
      BY <2>1, <3>1
    <3>2. CASE mon' # [mon EXCEPT !.pc = "ended"]
      <4>. DEFINE pct == Percent(Units(dst) - mon.init, Expected)
      <4>1. mon.pc = "watch"
            /\ mon' = [mon EXCEPT !.pct = pct, !.pc = IF pct = 100 THEN "ended" ELSE "watch"]
        BY <2>4, <3>2 DEF MonitorLooks
      <4>. HIDE DEF pct
      <4>. QED
        BY <2>1, <4>1
    <3>. QED
      BY <3>1, <3>2
  <2>. QED
    BY <2>2, <2>3, <2>4
<1>3. FilesOf(ck)' = FilesOf(ck)
  BY <1>1, FilesSame
<1>. QED
  BY <1>1, <1>2, <1>3
  DEF TransferInv, TransferTypes, Unreported, ListShape, DoneSoFar, Publishers, Files, Succeeded,
      CPIO, IPS

\* Steps that leave the destination and the list alone.
LEMMA StageKeepsTransfer ==
    ASSUME TransferInv, ck.pc \in Working, NEW pc \in Working,
           ck' = [ck EXCEPT !.pc = pc], UNCHANGED dst,
           tmp' \subseteq tmp, mon'.pc = mon.pc, DOMAIN mon' = DOMAIN mon,
           pc = "image" => ck.pc = "image",
           pc \in {"monitor", "publishers"} => ck.pc \in {"monitor", "publishers"},
           pc = "busy" => ck.at <= Len(ck.list),
           pc \in {"next", "busy"} => ck.pc \in {"next", "busy"} \/ ~IPS(ck)
    PROVE  TransferInv'
<1>1. ck \in CkType
  BY DEF TransferInv, TransferTypes
<1>2. /\ ck' \in CkType /\ ck'.spec = ck.spec /\ ck'.pc = pc /\ ck'.at = ck.at
      /\ ck'.res = ck.res /\ ck'.list = ck.list /\ ck'.dry = ck.dry
  BY <1>1 DEF CkType, Working
<1>3. FilesOf(ck') = FilesOf(ck)
  BY <1>2, FilesSame
<1>4. ~Succeeded /\ ~Succeeded' /\ ck.res = "none"
  BY <1>2 DEF TransferInv, Unreported, Succeeded, Working
<1>5. TransferTypes' /\ Unreported'
  BY <1>2, <1>4 DEF TransferInv, TransferTypes, Unreported, Working
<1>6. ListShape'
  BY <1>2, <1>4 DEF TransferInv, ListShape, Working
<1>7. DoneSoFar'
  BY <1>2, <1>4 DEF TransferInv, DoneSoFar
<1>8. Publishers'
  BY <1>2, <1>4 DEF TransferInv, Publishers, IPS, Working
<1>9. Files'
  BY <1>2, <1>3 DEF TransferInv, Files, Working
<1>. QED
  BY <1>5, <1>6, <1>7, <1>8, <1>9 DEF TransferInv

LEMMA MonitorReadyKeeps ==
    ASSUME TransferInv, MonitorReady
    PROVE  TransferInv'
<1>. DEFINE pc == IF IPS(ck) THEN "publishers" ELSE "next"
<1>1. /\ ck.pc = "monitor" /\ ck' = [ck EXCEPT !.pc = pc] /\ UNCHANGED <<dst, tmp, mon>>
  BY DEF MonitorReady
<1>2. pc \in {"publishers", "next"} /\ (pc = "next" => ~IPS(ck))
  OBVIOUS
<1>. HIDE DEF pc
<1>. QED
  BY <1>1, <1>2, StageKeepsTransfer DEF Working

LEMMA UpdatePublishersKeeps ==
    ASSUME TransferInv, NEW ok \in BOOLEAN, UpdatePublishers(ok)
    PROVE  TransferInv'
<1>. DEFINE s == ck.spec
            set == SetPublishers(dst.pubs, s)
            DstType == [there : BOOLEAN, have : SUBSET STRING, pubs : Seq(ImagePub)]
<1>1. /\ ck \in CkType /\ ck.pc = "publishers" /\ ck.at = 1 /\ ck.res = "none"
      /\ dst \in DstType /\ s \in Softwares /\ tmp \subseteq FilesOf(ck)
  BY DEF UpdatePublishers, TransferInv, TransferTypes, Unreported, CkType, Files, Working
<1>2. CASE ~(ok \/ ck.dry)
  <2>. DEFINE r == [ck EXCEPT !.res = "raised"]
  <2>1. Finally(r, tmp, mon) /\ UNCHANGED dst
    BY <1>2 DEF UpdatePublishers
  <2>2. r \in CkType /\ r.res = "raised" /\ r.spec = ck.spec /\ r.list = ck.list
    BY <1>1 DEF CkType
  <2>. HIDE DEF r
  <2>3. tmp \subseteq FilesOf(r)
    BY <1>1, <2>2, FilesSame
  <2>. QED
    BY <1>1, <2>1, <2>2, <2>3, RaiseKeeps
<1>3. CASE ok \/ ck.dry
  <2>1. /\ dst' = IF ck.dry THEN dst ELSE [dst EXCEPT !.pubs = set]
        /\ ck' = [ck EXCEPT !.pc = "next"]
        /\ mon' = IF ck.cancel THEN StopMonitor(mon) ELSE mon
        /\ UNCHANGED tmp
    BY <1>1, <1>3 DEF UpdatePublishers
  <2>2. set \in Seq(ImagePub)
    BY <1>1, SetPublishersRight
  <2>3. ~ck.dry /\ IPS(ck) /\ Preferred(s) # <<>> => Right(set, s)
    <3>1. ASSUME ~ck.dry, IPS(ck), Preferred(s) # <<>>
          PROVE  \/ s.kind = "P5I" \/ s.action = "use_existing"
                 \/ dst.pubs = <<Given(Preferred(s)[1])>>
      BY <1>1, <3>1, SoftwareIs DEF TransferInv, Publishers, IPS
    <3>2. dst.pubs \in Seq(ImagePub)
      BY <1>1
    <3>. QED
      BY <1>1, <3>1, <3>2, SetPublishersRight
  <2>. HIDE DEF set
  <2>4. /\ dst' \in DstType /\ dst'.have = dst.have
        /\ ~ck.dry => dst'.pubs = set
    BY <1>1, <2>1, <2>2
  <2>5. /\ ck' \in CkType /\ ck'.spec = ck.spec /\ ck'.pc = "next" /\ ck'.at = 1
        /\ ck'.res = "none" /\ ck'.list = ck.list /\ ck'.dry = ck.dry
    BY <1>1, <2>1 DEF CkType
  <2>6. ~Succeeded'
    BY <2>5 DEF Succeeded
  <2>7. FilesOf(ck') = FilesOf(ck)
    BY <2>5, FilesSame
  <2>8. TransferTypes'
    BY <2>1, <2>4, <2>5, MonitorStops DEF TransferInv, TransferTypes
  <2>9. Unreported'
    BY <2>5 DEF Unreported
  <2>10. ListShape'
    <3>1. Len(ck'.list) \in Nat
      BY <2>5, LenProperties DEF CkType
    <3>. QED
      BY <1>1, <2>5, <2>6, <3>1 DEF TransferInv, ListShape, Working
  <2>11. DoneSoFar'
    <3>1. Standing(ck'.list, 0) = {} /\ Touched(ck'.list, 0) = {} /\ 1 - 1 = 0
      BY StandingNone
    <3>. QED
      BY <2>5, <3>1 DEF DoneSoFar
  <2>12. Publishers'
    BY <2>3, <2>4, <2>5, <2>6 DEF Publishers, IPS
  <2>13. Files'
    BY <1>1, <2>1, <2>5, <2>7 DEF Files, Working
  <2>. QED
    BY <2>8, <2>9, <2>10, <2>11, <2>12, <2>13 DEF TransferInv
<1>. QED
  BY <1>2, <1>3

\* The next item of the list, that is done in a dry run, or without an operation
\* that is watched (cpio that was killed), or as it was asked.
LEMMA AdvanceKeeps ==
    ASSUME TransferInv, ck.pc \in {"next", "busy"}, ck.at <= Len(ck.list),
           NEW canceled \in BOOLEAN,
           ck' = [ck EXCEPT !.pc = "next", !.at = @ + 1, !.cancel = canceled],
           dst' \in [there : BOOLEAN, have : SUBSET STRING, pubs : Seq(ImagePub)],
           dst'.pubs = dst.pubs,
           ck.spec.kind \in {"IPS", "SVR4"} /\ ~ck.dry => dst'.have = Done(dst.have, Item),
           UNCHANGED <<tmp, mon>>
    PROVE  TransferInv'
<1>1. ck \in CkType /\ ck.list \in Seq(ItemType) /\ ck.at \in Nat \ {0}
      /\ Len(ck.list) \in Nat
  BY LenProperties DEF TransferInv, TransferTypes, CkType
<1>2. /\ ck' \in CkType /\ ck'.spec = ck.spec /\ ck'.pc = "next" /\ ck'.at = ck.at + 1
      /\ ck'.res = ck.res /\ ck'.list = ck.list /\ ck'.dry = ck.dry
  <2>. DEFINE n == ck.at + 1
  <2>1. n \in Nat \ {0} /\ ck' = [ck EXCEPT !.pc = "next", !.at = n, !.cancel = canceled]
    BY <1>1 DEF CkType
  <2>. HIDE DEF n
  <2>2. ck' \in CkType
    BY <1>1, <2>1 DEF CkType
  <2>3. /\ ck'.spec = ck.spec /\ ck'.pc = "next" /\ ck'.at = n
        /\ ck'.res = ck.res /\ ck'.list = ck.list /\ ck'.dry = ck.dry
    BY <1>1, <2>1 DEF CkType
  <2>. QED
    BY <2>2, <2>3 DEF n
<1>3. ck.pc \in Working /\ ck.res = "none" /\ ~Succeeded'
  BY <1>2 DEF TransferInv, Unreported, Working, Succeeded
<1>4. FilesOf(ck') = FilesOf(ck)
  BY <1>2, FilesSame
<1>5. TransferTypes' /\ Unreported'
  BY <1>2, <1>3 DEF TransferInv, TransferTypes, Unreported
<1>6. ListShape'
  BY <1>1, <1>2, <1>3 DEF TransferInv, ListShape, Working
<1>7. DoneSoFar'
  <2>1. SUFFICES ASSUME ck.spec.kind \in {"IPS", "SVR4"}, ~ck.dry
                 PROVE  dst'.have \cap Touched(ck.list, ck.at) = Standing(ck.list, ck.at)
    BY <1>1, <1>2 DEF DoneSoFar
  <2>2. dst.have \cap Touched(ck.list, ck.at - 1) = Standing(ck.list, ck.at - 1)
    BY <1>3, <2>1 DEF TransferInv, DoneSoFar
  <2>3. ck.at \in 1 .. Len(ck.list)
    BY <1>1
  <2>4. /\ Standing(ck.list, ck.at) = Done(Standing(ck.list, ck.at - 1), Item)
        /\ Touched(ck.list, ck.at) = Touched(ck.list, ck.at - 1) \cup Item.contents
    BY <1>1, <2>3, StandingNext DEF Item
  <2>5. dst'.have = Done(dst.have, Item)
    BY <2>1
  <2>. QED
    BY <2>2, <2>4, <2>5 DEF Done
<1>8. Publishers'
  BY <1>2, <1>3 DEF TransferInv, Publishers, IPS
<1>9. Files'
  BY <1>2, <1>3, <1>4 DEF TransferInv, Files, Working
<1>. QED
  BY <1>5, <1>6, <1>7, <1>8, <1>9 DEF TransferInv

LEMMA NextItemKeeps ==
    ASSUME TransferInv, NextItem
    PROVE  TransferInv'
<1>. DEFINE files == IF CPIO(ck) THEN tmp ELSE CheckCancel(ck, tmp)
            gone == CPIO(ck) /\ Item.action = "install" /\ Item.temp \notin files
            DstType == [there : BOOLEAN, have : SUBSET STRING, pubs : Seq(ImagePub)]
<1>1. /\ ck \in CkType /\ ck.pc = "next" /\ ck.at <= Len(ck.list) /\ ck.pc \in Working
      /\ dst \in DstType /\ tmp \subseteq FilesOf(ck) /\ UNCHANGED dst
  BY DEF NextItem, TransferInv, TransferTypes, Files, Working
<1>2. files \subseteq tmp
  BY DEF CheckCancel, CleanupFiles
<1>3. CASE ck.dry
  <2>1. ck' = [ck EXCEPT !.at = @ + 1] /\ UNCHANGED <<tmp, mon>>
    BY <1>3 DEF NextItem
  <2>2. ck' = [ck EXCEPT !.pc = "next", !.at = @ + 1, !.cancel = ck.cancel]
        /\ ck.cancel \in BOOLEAN
    BY <1>1, <2>1 DEF CkType
  <2>. QED
    BY <1>1, <1>3, <2>1, <2>2, AdvanceKeeps
<1>4. CASE ~ck.dry /\ gone
  <2>. DEFINE r == [ck EXCEPT !.res = "raised"]
  <2>1. Finally(r, files, mon)
    BY <1>4 DEF NextItem
  <2>2. r \in CkType /\ r.res = "raised" /\ r.spec = ck.spec /\ r.list = ck.list
    BY <1>1 DEF CkType
  <2>. HIDE DEF r, files
  <2>3. files \subseteq FilesOf(r)
    BY <1>1, <1>2, <2>2, FilesSame
  <2>. QED
    BY <1>1, <2>1, <2>2, <2>3, RaiseKeeps
<1>5. CASE ~ck.dry /\ ~gone
  <2>. DEFINE seen == ck.seen \/ (~CPIO(ck) /\ ck.cancel)
  <2>1. /\ ck' = [ck EXCEPT !.pc = "busy", !.seen = seen]
        /\ tmp' = files
        /\ mon' = IF ~CPIO(ck) /\ ck.cancel THEN StopMonitor(mon) ELSE mon
    BY <1>1, <1>5 DEF NextItem
  <2>. HIDE DEF seen, files, gone
  <2>2. seen \in BOOLEAN
    BY <1>1 DEF CkType, seen
  <2>3. /\ ck' \in CkType /\ ck'.spec = ck.spec /\ ck'.pc = "busy" /\ ck'.at = ck.at
        /\ ck'.res = ck.res /\ ck'.list = ck.list /\ ck'.dry = ck.dry
    BY <1>1, <2>1, <2>2 DEF CkType
  <2>4. FilesOf(ck') = FilesOf(ck)
    BY <2>3, FilesSame
  <2>5. ~Succeeded' /\ ck.res = "none"
    BY <1>1, <2>3 DEF TransferInv, Unreported, Succeeded
  <2>6. TransferTypes'
    BY <1>1, <2>1, <2>3, MonitorStops DEF TransferInv, TransferTypes
  <2>7. Unreported'
    BY <2>3, <2>5 DEF Unreported
  <2>8. ListShape' /\ DoneSoFar'
    BY <1>1, <2>3, <2>5 DEF TransferInv, ListShape, DoneSoFar, Working
  <2>9. Publishers'
    BY <1>1, <2>3, <2>5 DEF TransferInv, Publishers, IPS
  <2>10. Files'
    BY <1>1, <1>2, <2>1, <2>3, <2>4 DEF Files, Working
  <2>. QED
    BY <2>6, <2>7, <2>8, <2>9, <2>10 DEF TransferInv
<1>. QED
  BY <1>3, <1>4, <1>5

LEMMA ItemEndsKeeps ==
    ASSUME TransferInv, NEW ended \in {"ok", "failed", "closed"}, ItemEnds(ended)
    PROVE  TransferInv'
<1>. DEFINE DstType == [there : BOOLEAN, have : SUBSET STRING, pubs : Seq(ImagePub)]
<1>1. /\ ck \in CkType /\ ck.pc = "busy" /\ ck.at <= Len(ck.list) /\ ck.pc \in Working
      /\ dst \in DstType /\ tmp \subseteq FilesOf(ck)
  BY DEF ItemEnds, TransferInv, TransferTypes, Files, Working, ListShape
<1>2. Item \in ItemType
  <2>1. ck.list \in Seq(ItemType) /\ ck.at \in 1 .. Len(ck.list)
    BY <1>1, LenProperties DEF CkType
  <2>. QED
    BY <2>1, ElementOfSeq DEF Item
<1>3. dst' = IF Worked(ck, ended) THEN [dst EXCEPT !.have = Done(dst.have, Item)] ELSE dst
  BY <1>1 DEF ItemEnds
<1>4. dst' \in DstType /\ dst'.pubs = dst.pubs
      /\ (Worked(ck, ended) => dst'.have = Done(dst.have, Item))
  <2>1. Done(dst.have, Item) \in SUBSET STRING
    BY <1>1, <1>2 DEF Done, ItemType
  <2>. QED
    BY <1>1, <1>3, <2>1
<1>5. CASE ReportsFailure(ck, ended)
  <2>. DEFINE r == [ck EXCEPT !.res = "raised"]
  <2>1. Finally(r, tmp, mon)
    BY <1>5 DEF ItemEnds
  <2>2. r \in CkType /\ r.res = "raised" /\ r.spec = ck.spec /\ r.list = ck.list
    BY <1>1 DEF CkType
  <2>. HIDE DEF r
  <2>3. tmp \subseteq FilesOf(r)
    BY <1>1, <2>2, FilesSame
  <2>. QED
    BY <1>4, <2>1, <2>2, <2>3, RaiseKeeps
<1>6. CASE ~ReportsFailure(ck, ended)
  <2>1. ck' = [ck EXCEPT !.pc = "next", !.at = @ + 1] /\ UNCHANGED <<tmp, mon>>
    BY <1>6 DEF ItemEnds
  <2>2. ck' = [ck EXCEPT !.pc = "next", !.at = @ + 1, !.cancel = ck.cancel]
        /\ ck.cancel \in BOOLEAN
    BY <1>1, <2>1 DEF CkType
  <2>3. ck.spec.kind \in {"IPS", "SVR4"} => Worked(ck, ended)
    BY <1>6 DEF ReportsFailure, Worked
  <2>. QED
    BY <1>1, <1>4, <2>1, <2>2, <2>3, AdvanceKeeps
<1>. QED
  BY <1>5, <1>6

LEMMA AllItemsKeeps ==
    ASSUME TransferInv, AllItems
    PROVE  TransferInv'
<1>. DEFINE r == [ck EXCEPT !.res = "ok"]
<1>1. /\ ck \in CkType /\ ck.pc = "next" /\ ck.at > Len(ck.list) /\ ck.pc \in Working
      /\ tmp \subseteq FilesOf(ck) /\ UNCHANGED dst /\ Finally(r, tmp, mon)
  BY DEF AllItems, TransferInv, TransferTypes, Files, Working
<1>2. r \in CkType /\ r.spec = ck.spec /\ r.list = ck.list /\ r.at = ck.at /\ r.res = "ok"
      /\ r.dry = ck.dry
  BY <1>1 DEF CkType
<1>. HIDE DEF r
<1>3. /\ ck' \in CkType /\ ck'.spec = ck.spec /\ ck'.pc = "cleanup" /\ ck'.at = ck.at
      /\ ck'.res = "ok" /\ ck'.list = ck.list /\ ck'.dry = ck.dry
  BY <1>1, <1>2 DEF Finally, CkType
<1>4. tmp' = {}
  <2>1. tmp \subseteq FilesOf(r)
    BY <1>1, <1>2, FilesSame
  <2>. QED
    BY <1>1, <2>1, CleansUp DEF Finally
<1>5. Succeeded' /\ ck'.pc \notin Working
  BY <1>3 DEF Succeeded, Working
<1>6. TransferTypes'
  BY <1>1, <1>3, MonitorStops DEF TransferInv, TransferTypes, Finally
<1>7. Unreported'
  BY <1>3 DEF Unreported
<1>8. ListShape'
  <2>1. ck.at = Len(ck.list) + 1
    <3>1. Len(ck.list) \in Nat /\ ck.at \in Nat
      BY <1>1, LenProperties DEF CkType
    <3>. QED
      BY <1>1, <3>1 DEF TransferInv, ListShape
  <2>. QED
    BY <1>1, <1>3, <1>5, <2>1 DEF TransferInv, ListShape, CPIO
<1>9. DoneSoFar'
  BY <1>1, <1>3 DEF TransferInv, DoneSoFar
<1>10. Publishers'
  BY <1>1, <1>3 DEF TransferInv, Publishers, IPS
<1>11. Files'
  BY <1>3, <1>4, <1>5 DEF Files
<1>. QED
  BY <1>6, <1>7, <1>8, <1>9, <1>10, <1>11 DEF TransferInv

LEMMA JoinedKeeps ==
    ASSUME TransferInv, Joined
    PROVE  TransferInv'
<1>1. /\ ck \in CkType /\ ck.pc = "cleanup" /\ ck' = [ck EXCEPT !.pc = "done"]
      /\ mon.pc \in {"off", "ended"} /\ UNCHANGED <<dst, tmp, mon>> /\ tmp = {}
  BY DEF Joined, TransferInv, TransferTypes, Files
<1>2. /\ ck' \in CkType /\ ck'.spec = ck.spec /\ ck'.pc = "done" /\ ck'.at = ck.at
      /\ ck'.res = ck.res /\ ck'.list = ck.list /\ ck'.dry = ck.dry
  BY <1>1 DEF CkType
<1>3. (Succeeded' <=> Succeeded) /\ ck'.pc \notin Working
  BY <1>1, <1>2 DEF Succeeded, Working
<1>. QED
  BY <1>1, <1>2, <1>3
  DEF TransferInv, TransferTypes, Unreported, ListShape, DoneSoFar, Publishers, Files, CPIO, IPS

LEMMA CancelKeeps ==
    ASSUME TransferInv, Cancel
    PROVE  TransferInv'
<1>1. /\ ck \in CkType /\ ck.pc \notin {"new", "failed", "cleanup", "done"} /\ UNCHANGED dst
      /\ dst \in [there : BOOLEAN, have : SUBSET STRING, pubs : Seq(ImagePub)]
  BY DEF Cancel, TransferInv, TransferTypes
<1>2. CASE ck.pc = "busy" /\ ck.spec.kind \in {"IPS", "P5I"}
  <2>. DEFINE r == [ck EXCEPT !.cancel = TRUE, !.res = "raised"]
  <2>1. Finally(r, tmp, mon)
    BY <1>2 DEF Cancel
  <2>2. r \in CkType /\ r.res = "raised" /\ r.spec = ck.spec /\ r.list = ck.list
    BY <1>1 DEF CkType
  <2>. HIDE DEF r
  <2>3. tmp \subseteq FilesOf(r)
    BY <1>2, <2>2, FilesSame DEF TransferInv, Files, Working
  <2>. QED
    BY <1>1, <2>1, <2>2, <2>3, RaiseKeeps
<1>3. CASE ck.pc = "busy" /\ ck.spec.kind = "CPIO"
  <2>1. ck' = [ck EXCEPT !.cancel = TRUE, !.pc = "next", !.at = @ + 1] /\ UNCHANGED <<tmp, mon>>
    BY <1>3 DEF Cancel
  <2>2. ck' = [ck EXCEPT !.pc = "next", !.at = @ + 1, !.cancel = TRUE]
    BY <1>1, <2>1 DEF CkType
  <2>3. ck.at <= Len(ck.list)
    BY <1>3 DEF TransferInv, ListShape
  <2>. QED
    BY <1>1, <1>3, <2>1, <2>2, <2>3, AdvanceKeeps
<1>4. CASE ~(ck.pc = "busy" /\ ck.spec.kind \in {"IPS", "P5I", "CPIO"})
  <2>1. ck' = [ck EXCEPT !.cancel = TRUE] /\ UNCHANGED <<tmp, mon>>
    BY <1>4 DEF Cancel
  <2>2. /\ ck' \in CkType /\ ck'.spec = ck.spec /\ ck'.pc = ck.pc /\ ck'.at = ck.at
        /\ ck'.res = ck.res /\ ck'.list = ck.list /\ ck'.dry = ck.dry /\ ck'.raised = ck.raised
        /\ ck'.parses = ck.parses
    BY <1>1, <2>1 DEF CkType
  <2>3. FilesOf(ck') = FilesOf(ck) /\ (Succeeded' <=> Succeeded)
    BY <2>2, FilesSame DEF Succeeded
  <2>4. TransferTypes'
    BY <1>1, <2>1, <2>2 DEF TransferInv, TransferTypes
  <2>5. Unreported'
    BY <2>2 DEF TransferInv, Unreported
  <2>6. ListShape'
    BY <2>2, <2>3 DEF TransferInv, ListShape, CPIO
  <2>7. DoneSoFar'
    BY <1>1, <2>2, <2>3 DEF TransferInv, DoneSoFar
  <2>8. Publishers'
    BY <1>1, <2>2, <2>3 DEF TransferInv, Publishers, IPS
  <2>9. Files'
    BY <2>1, <2>2, <2>3 DEF TransferInv, Files
  <2>. QED
    BY <2>4, <2>5, <2>6, <2>7, <2>8, <2>9 DEF TransferInv
<1>. QED
  BY <1>2, <1>3, <1>4

LEMMA TransferStarts ==
    ASSUME TransferInit
    PROVE  TransferInv
<1>1. PICK s \in Softwares : ck = New(s)
  BY DEF TransferInit
<1>2. ck \in CkType /\ ck.pc = "new" /\ ck.list = <<>> /\ ck.parses = 0 /\ ~ck.raised
      /\ ck.at = 1 /\ ck.res = "none"
  BY <1>1 DEF New, CkType
<1>3. dst \in [there : BOOLEAN, have : SUBSET STRING, pubs : Seq(ImagePub)]
  <2>1. dst \in [there : BOOLEAN, have : SUBSET STRING, pubs : Seq(PubType)]
    BY TransferAssumption DEF TransferInit
  <2>2. PubType \subseteq ImagePub
    BY DEF PubType, ImagePub
  <2>3. dst.pubs \in Seq(ImagePub)
    BY <2>1, <2>2, SeqMonotonic
  <2>. QED
    BY <2>1, <2>3
<1>4. DOMAIN mon = {"pc", "done", "init", "pct"} /\ mon.pc = "off" /\ tmp = {}
  BY DEF TransferInit
<1>5. ~Succeeded /\ ck.pc \notin Working
  BY <1>2 DEF Succeeded, Working
<1>. QED
  BY <1>2, <1>3, <1>4, <1>5
  DEF TransferInv, TransferTypes, Unreported, ListShape, DoneSoFar, Publishers, Files

LEMMA TransferKeeps ==
    ASSUME TransferInv, [TransferNext]_transferVars
    PROVE  TransferInv'
<1>1. CASE UNCHANGED transferVars
  BY <1>1 DEF transferVars, TransferInv, TransferTypes, Unreported, ListShape, DoneSoFar,
              Publishers, Files, FilesOf, TempsOf, Succeeded, CPIO, IPS
<1>2. CASE TransferNext
  BY <1>2, EstimateKeeps, ExecuteKeeps, MakeImageKeeps, UpdatePublishersKeeps, MonitorKeeps,
     MonitorReadyKeeps, NextItemKeeps, ItemEndsKeeps, AllItemsKeeps, JoinedKeeps, CancelKeeps
  DEF TransferNext, TransferStep, MonitorStep
<1>. QED
  BY <1>1, <1>2

LEMMA TransferHolds ==
    ASSUME TransferInv
    PROVE  PublishersAsAsked /\ NothingLeftBehind /\ (NoneUndone => SuccessIsTransferred)
<1>1. ck \in CkType
  BY DEF TransferInv, TransferTypes
<1>2. PublishersAsAsked
  BY DEF PublishersAsAsked, TransferInv, Publishers, Succeeded, IPS, Right, Named
<1>3. NothingLeftBehind
  BY DEF NothingLeftBehind, TransferInv, Files
<1>4. ASSUME NoneUndone PROVE SuccessIsTransferred
  <2>. DEFINE items == ck.spec.items
              n == Len(items)
              wanted == FoldLeft(Done, {}, items)
              touched == UNION {items[i].contents : i \in DOMAIN items}
  <2>1. SUFFICES ASSUME ck.pc = "done", ck.res = "ok", ~ck.dry, ck.spec.kind \in {"IPS", "SVR4"}
                 PROVE  dst.have \cap touched = wanted
    BY DEF SuccessIsTransferred
  <2>2. items \in Seq(ItemType) /\ DOMAIN items = 1 .. n
    BY <1>1, SoftwareIs, LenProperties DEF CkType
  <2>3. wanted = Standing(items, n)
    <3>1. AllDone({}, items) = Standing(items, n)
      BY <2>2, FoldDone
    <3>. QED
      BY <3>1 DEF AllDone
  <2>4. touched = Touched(items, n)
    BY <2>2 DEF Touched
  <2>5. Succeeded /\ ListFits(ck.list, items)
    BY <2>1 DEF TransferInv, ListShape, Succeeded
  <2>6. ck.at = Len(ck.list) + 1 /\ Len(ck.list) \in Nat
    BY <1>1, <2>5, LenProperties DEF TransferInv, ListShape, CkType
  <2>7. dst.have \cap Touched(ck.list, Len(ck.list)) = Standing(ck.list, Len(ck.list))
    <3>1. ck.at - 1 = Len(ck.list)
      BY <2>6
    <3>2. dst.have \cap Touched(ck.list, ck.at - 1) = Standing(ck.list, ck.at - 1)
      BY <2>1, <2>5 DEF TransferInv, DoneSoFar
    <3>. QED
      BY <3>1, <3>2
  <2>. HIDE DEF items, n, wanted, touched
  <2>. QED
    BY <1>4, <2>3, <2>4, <2>5, <2>7 DEF ListFits, n
<1>. QED
  BY <1>2, <1>3, <1>4

(* Transfer: whatever fails or is cancelled, no temporary file and no       *)
(* monitor outlives execute(), and an image whose transfer succeeded has     *)
(* the publishers of the node, each once, the preferred one first.          *)
THEOREM TransferCleansUp == TransferSpec => [](PublishersAsAsked /\ NothingLeftBehind)
<1>1. TransferInit => TransferInv
  BY TransferStarts
<1>2. TransferInv /\ [TransferNext]_transferVars => TransferInv'
  BY TransferKeeps
<1>3. TransferInv => PublishersAsAsked /\ NothingLeftBehind
  BY TransferHolds
<1>. QED
  BY <1>1, <1>2, <1>3, PTL DEF TransferSpec

(* Transfer: a transfer that ends well has also done what the items of the  *)
(* node ask for, in their order, provided that no item of an IPS node is     *)
(* asked for again after one against it, which the code would leave out.     *)
THEOREM TransferIsSound ==
    ASSUME NoneUndone
    PROVE  TransferSpec => []TransferSound
<1>1. TransferInit => TransferInv
  BY TransferStarts
<1>2. TransferInv /\ [TransferNext]_transferVars => TransferInv'
  BY TransferKeeps
<1>3. TransferInv => TransferSound
  BY TransferHolds DEF TransferSound
<1>. QED
  BY <1>1, <1>2, <1>3, PTL DEF TransferSpec
=============================================================================
