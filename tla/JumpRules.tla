------------------------------ MODULE JumpRules ------------------------------
(***************************************************************************)
(* js2ai: the rules file of a JumpStart server becomes criteria.           *)
(*                                                                         *)
(* A rule is a chain of key and values groups, and names a profile.  It    *)
(* may be written over several lines, and read_rules joins them while it   *)
(* takes the groups off.  Each profile is then converted once, into a      *)
(* directory of its own that an earlier conversion may have filled, and    *)
(* each rule adds the criteria file of its number to the directory of its  *)
(* profile (convert_rules_and_profiles).                                   *)
(***************************************************************************)
EXTENDS Naturals, Sequences, SequencesExt, FiniteSets

CONSTANTS
    RulesFiles,    \* the files: sequences of lines, a line is a sequence of words
    ProfileFiles,  \* the profiles that exist
    Convertible,   \* those of which a manifest can be made
    PartOf         \* pairs of names of which the first is a part of the second

VARIABLES
    rulesFile,     \* the file
    rulesPhase,    \* "read", "convert", "done"
    lineNum,       \* the lines that were read, then the rules that were converted
    ruleLine,      \* line: what is left of the line, with what was joined to it
    definedRule,   \* none (<<>>), or the one that is read (<<keys>>)
    rules,         \* rules_dict
    rulesReport,   \* pairs of a level and what it is about
    directories,   \* what the AI_ directory of a profile holds
    profileNames   \* profile_names
rulesVars == <<rulesFile, rulesPhase, lineNum, ruleLine, definedRule, rules, rulesReport,
               directories, profileNames>>

Interactive == "-"
And == "&&"
More == "\\"
Place(words, word) == SelectInSeq(words, LAMBDA w : w = word)   \* 0 if there is none
Upto(words, word) == IF Contains(words, word) THEN SubSeq(words, 1, Place(words, word) - 1) ELSE words

-----------------------------------------------------------------------------
(* Reading.                                                                *)

Reading == rulesPhase = "read" /\ UNCHANGED <<rulesFile, directories, profileNames>>
TellIncomplete ==
    rulesReport' = rulesReport \cup IF definedRule = <<>> THEN {} ELSE {<<"process", "incomplete">>}
GiveUp(told) == /\ rulesReport' = rulesReport \cup told
                /\ definedRule' = <<>> /\ ruleLine' = <<>> /\ UNCHANGED rules

NextRule ==
    /\ Reading /\ ruleLine = <<>> /\ lineNum < Len(rulesFile)
    /\ TellIncomplete
    /\ ruleLine' = rulesFile[lineNum + 1]
    /\ definedRule' = IF ruleLine' = <<>> THEN <<>> ELSE << <<>> >>
    /\ lineNum' = lineNum + 1
    /\ UNCHANGED <<rulesPhase, rules>>

(* What the next line adds: a blank line that is joined adds an empty word *)
(* (the space before it stays).                                            *)
TakeLine(joined) ==
    IF lineNum < Len(rulesFile)
    THEN ruleLine' = joined /\ lineNum' = lineNum + 1
    ELSE ruleLine' = <<>> /\ UNCHANGED lineNum
ContinueLine ==
    /\ Reading /\ Contains(Upto(ruleLine, And), More)
    /\ LET first == Upto(ruleLine, More)
           next == rulesFile[lineNum + 1]
       IN  TakeLine(IF first = <<>> THEN next ELSE first \o (IF next = <<>> THEN <<"">> ELSE next))
    /\ UNCHANGED <<rulesPhase, definedRule, rules, rulesReport>>

Key(group) == [key |-> Head(group), values |-> SelectSeq(Tail(group), LAMBDA w : w # "")]
AddKeyValues(group) == <<Append(definedRule[1], Key(group))>>
NextGroup ==
    /\ Reading /\ Contains(ruleLine, And) /\ ~Contains(Upto(ruleLine, And), More)
    /\ LET group == Upto(ruleLine, And)
           left == SubSeq(ruleLine, Place(ruleLine, And) + 1, Len(ruleLine))
           ends == left # <<>> /\ Head(left) = More
       IN  IF group = <<>>
           THEN /\ GiveUp({<<"process", "value">>})
                /\ lineNum' = IF ends /\ lineNum < Len(rulesFile) THEN lineNum + 1 ELSE lineNum
           ELSE /\ definedRule' = AddKeyValues(group)
                /\ IF ends THEN TakeLine(rulesFile[lineNum + 1])
                   ELSE ruleLine' = left /\ UNCHANGED lineNum
                /\ UNCHANGED <<rules, rulesReport>>
    /\ UNCHANGED rulesPhase

(* The last group ends with the start script, the profile, and the finish  *)
(* script.                                                                 *)
ProfileOf(words) == words[Len(words) - 1]
NotFound(name) == IF name \in ProfileFiles \cup {Interactive} THEN {} ELSE {<<"process", name>>}
EndRule ==
    /\ Reading /\ ruleLine # <<>> /\ ~Contains(ruleLine, And) /\ ~Contains(ruleLine, More)
    /\ IF Len(ruleLine) < 4 THEN GiveUp({<<"process", "format">>})
       ELSE IF Len(ruleLine) = 4
            THEN GiveUp(NotFound(ProfileOf(ruleLine)) \cup {<<"process", "value">>})
       ELSE /\ rulesReport' = rulesReport \cup NotFound(ProfileOf(ruleLine))
            /\ rules' = Append(rules, [keys |-> AddKeyValues(SubSeq(ruleLine, 1, Len(ruleLine) - 3))[1],
                                       profile |-> ProfileOf(ruleLine)])
            /\ ruleLine' = <<>> /\ definedRule' = <<>>
    /\ UNCHANGED <<rulesPhase, lineNum>>

EndOfRules ==
    /\ Reading /\ ruleLine = <<>> /\ lineNum = Len(rulesFile)
    /\ TellIncomplete
    /\ rulesPhase' = IF rules = <<>> THEN "done" ELSE "convert"
    /\ lineNum' = 0
    /\ UNCHANGED <<ruleLine, definedRule, rules>>

-----------------------------------------------------------------------------
(* Conversion.                                                             *)

Criterion == [arch |-> "cpu", hostaddress |-> "ipv4", karch |-> "arch", model |-> "platform",
              memsize |-> "mem", network |-> "ipv4"]
Negated == {"!", "!arch"}
Ranges == {"64-128"}
NotNetworks == {"net"}
Verdict(k) ==
    LET value == k.values[1]
    IN  CASE k.key \in Negated \/ k.key \notin DOMAIN Criterion -> "unsupported"
          [] Len(k.values) # 1 -> "process"
          [] k.key \in {"arch", "karch"} /\ value \in {"sun4c", "sun4d", "sun4m"} -> "unsupported"
          [] k.key \in {"arch", "karch"} /\ value = "sun4u" -> "warning"
          [] k.key = "network" /\ value \in NotNetworks -> "process"
          [] OTHER -> "none"
Converts(k) == Verdict(k) \in {"none", "warning"}
(* A network stands for its address and those that follow up to 255.       *)
Criteria(rule) ==
    {<<Criterion[rule.keys[i].key], rule.keys[i].values[1],
       rule.keys[i].key = "network" \/ (rule.keys[i].key = "memsize" /\ rule.keys[i].values[1] \in Ranges)>> :
        i \in {j \in DOMAIN rule.keys : Converts(rule.keys[j])}}

Manifest == [kind |-> "manifest", rule |-> 0, criteria |-> {}, old |-> FALSE]
CriteriaFile(n, rule) == [kind |-> "criteria", rule |-> n, criteria |-> Criteria(rule), old |-> FALSE]
Earlier == {[Manifest EXCEPT !.old = TRUE],
            [kind |-> "criteria", rule |-> 2, criteria |-> {}, old |-> TRUE]}

(* The names that were converted are kept in one string, and a name is     *)
(* looked for in it.                                                       *)
Known(names, name) == \E i \in DOMAIN names : names[i] = name \/ <<name, names[i]>> \in PartOf
AddManifest(held, name) ==
    [held EXCEPT ![name] = IF name \in Convertible THEN @ \cup {Manifest} ELSE @]
ConvertProfile(held, name) ==
    [held EXCEPT ![name] = IF name \in Convertible THEN {Manifest} ELSE {}]
ConvertRule(held, n, rule) ==
    IF Criteria(rule) = {} THEN held
    ELSE [held EXCEPT ![rule.profile] =
             {f \in @ : f.kind # "criteria" \/ f.rule # n} \cup {CriteriaFile(n, rule)}]

ConvertNextRule ==
    /\ rulesPhase = "convert" /\ lineNum < Len(rules)
    /\ LET rule == rules[lineNum + 1]
           known == Known(profileNames, rule.profile)
           held == IF known THEN directories ELSE ConvertProfile(directories, rule.profile)
       IN  IF rule.profile = Interactive THEN UNCHANGED <<directories, profileNames, rulesReport>>
           ELSE /\ directories' = ConvertRule(held, lineNum + 1, rule)
                /\ profileNames' = IF known THEN profileNames ELSE Append(profileNames, rule.profile)
                /\ rulesReport' = rulesReport \cup
                      {<<Verdict(rule.keys[i]), rule.keys[i].key>> :
                          i \in {j \in DOMAIN rule.keys : Verdict(rule.keys[j]) # "none"}}
    /\ lineNum' = lineNum + 1
    /\ rulesPhase' = IF lineNum' = Len(rules) THEN "done" ELSE "convert"
    /\ UNCHANGED <<rulesFile, ruleLine, definedRule, rules>>

(* Any word can come to be taken for a profile.                            *)
WordsOf(file) == UNION {ToSet(file[i]) : i \in DOMAIN file}
RulesStart ==
    /\ rulesPhase = "read" /\ lineNum = 0 /\ ruleLine = <<>> /\ definedRule = <<>>
    /\ rules = <<>> /\ rulesReport = {} /\ profileNames = <<>>
    /\ directories = [p \in WordsOf(rulesFile) \ {Interactive} |-> Earlier]
RulesInit == rulesFile \in RulesFiles /\ RulesStart
RulesNext == NextRule \/ ContinueLine \/ NextGroup \/ EndRule \/ EndOfRules \/ ConvertNextRule

-----------------------------------------------------------------------------
(* Properties.                                                             *)

(* What a file says: its lines joined where they are continued, divided at *)
(* "&&".                                                                   *)
Joined(file) ==
    FoldLeft(LAMBDA acc, line :
                LET text == acc.text \o Upto(line, More)
                IN  IF Contains(line, More) THEN [acc EXCEPT !.text = text]
                    ELSE IF text = <<>> THEN acc
                    ELSE [texts |-> Append(acc.texts, text), text |-> <<>>],
             [texts |-> <<>>, text |-> <<>>], file)
Groups(text) ==
    FoldLeft(LAMBDA gs, w : IF w = And THEN Append(gs, <<>>)
                            ELSE Append(Front(gs), Append(Last(gs), w)), << <<>> >>, text)
WellFormed(text) == /\ \A i \in DOMAIN Groups(text) : Groups(text)[i] # <<>>
                    /\ Len(Last(Groups(text))) >= 5
RuleOf(text) ==
    LET groups == Groups(text)
        last == Last(groups)
    IN  [keys |-> [i \in DOMAIN groups |->
                      Key(IF i = Len(groups) THEN SubSeq(last, 1, Len(last) - 3) ELSE groups[i])],
         profile |-> ProfileOf(last)]

(* A file of well-formed rules is read as it stands, however its rules are *)
(* laid out over lines (read_rules, lines 394-532), and one with a rule    *)
(* that is not is reported.  A blank line after a continued one is left    *)
(* out: it may end the rule with an empty word, and then the word before   *)
(* is taken for the profile.                                               *)
EndsOpen(file, i) == Contains(file[i], More) /\ (i = Len(file) \/ file[i + 1] = <<>>)
RulesReadAsTheyStand ==
    rulesPhase # "read" /\ (\A i \in DOMAIN rulesFile : ~EndsOpen(rulesFile, i)) =>
        LET texts == Joined(rulesFile).texts
            misread == \E about \in {"incomplete", "format", "value"} : <<"process", about>> \in rulesReport
        IN  IF \A i \in DOMAIN texts : WellFormed(texts[i])
            THEN ~misread /\ rules = [i \in DOMAIN texts |-> RuleOf(texts[i])]
            ELSE misread

(* After a conversion the directory of a profile that a rule names holds   *)
(* what this conversion made and nothing of an earlier one, unless the     *)
(* name is a part of one that was converted before it (line 894).          *)
NamedBy(p) == {n \in DOMAIN rules : rules[n].profile = p}
Hidden(p) == \E n \in DOMAIN rules : \A m \in NamedBy(p) : n < m /\ <<p, rules[n].profile>> \in PartOf
DirectoriesRenewed ==
    rulesPhase = "done" => \A p \in DOMAIN directories :
        /\ NamedBy(p) # {} /\ ~Hidden(p) =>
              /\ \A f \in directories[p] : ~f.old
              /\ (Manifest \in directories[p]) = (p \in Convertible)
        /\ NamedBy(p) = {} => directories[p] = Earlier

(* The criteria of a rule are in the directory of its profile under the    *)
(* rule's number, and a key that is not among them is reported; no file    *)
(* of this conversion belongs to another rule.                             *)
CriteriaWritten ==
    rulesPhase = "done" => \A n \in DOMAIN rules : rules[n].profile # Interactive =>
        LET p == rules[n].profile
            made == {f \in directories[p] : f.kind = "criteria" /\ ~f.old /\ f.rule = n}
        IN  /\ Cardinality(made) = IF \E i \in DOMAIN rules[n].keys : Converts(rules[n].keys[i]) THEN 1 ELSE 0
            /\ \A i \in DOMAIN rules[n].keys :
                 LET k == rules[n].keys[i]
                 IN  \/ \E f \in made, c \in {Criterion[x] : x \in DOMAIN Criterion} :
                           k.values # <<>> /\ <<c, k.values[1], k.key = "network" \/ k.values[1] \in Ranges>> \in f.criteria
                     \/ \E level \in {"process", "unsupported"} : <<level, k.key>> \in rulesReport
            /\ \A f \in directories[p] : ~f.old /\ f.kind = "criteria" => f.rule \in NamedBy(p)

(* The rules that js2ai -r converts.                                       *)
RulesSound == RulesReadAsTheyStand /\ DirectoriesRenewed /\ CriteriaWritten
==============================================================================
