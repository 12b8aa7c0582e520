--------------------------- MODULE InstallScreens ---------------------------
(* The screens of the text installer and of sysconfig create-profile:        *)
(*   - lib/terminalui: ScreenList (next, back, help, quit), the loop of      *)
(*     BaseScreen.show() and HelpScreen;                                     *)
(*   - cmd/system-config: the host name, the network cards, the time zone's  *)
(*     three screens, date and time, and the profile they fill in;           *)
(*   - cmd/text-install: the disk, partition and slice screens, and the      *)
(*     selection they keep in lib/install_target/controller.py.              *)
(*                                                                           *)
(* A screen is first shown (it may skip itself, or fail) and is then left    *)
(* with F2 (checked), F3 or F6 (not checked): whatever the key, what stands  *)
(* on it is stored.  Turns counts the keys that do not lead forward.         *)
EXTENDS Integers, Sequences, FiniteSets, SequencesExt

CONSTANTS
    Setups,      \* the machines and command lines: see SetupAssumption
    ZoneTable,   \* region -> country -> time zones of the country there
    MaxTurns,    \* Back, Help, refused and editing keys of one session
    Nothing      \* the value of what was not chosen yet

Screens == {"welcome", "disk", "fdisk", "parts", "fdisk_slice", "parts_slice",
            "network", "nic_select", "nic_config",
            "regions", "locations", "timezone", "date", "summary"}
Groups == {"identity", "network", "location", "date_time"}
Years == {"none", "partial", "leap", "common"}
Dates == [year : Years, month : {0, 2, 4, 12}, day : {0, 28, 29, 30, 31}]

\* A setup runs the text installer on some disks or configures some groups.
\* disks: what discovery found on each disk large enough; huge: those beyond
\* the size a label can express; nics: there is a card to configure.
ASSUME SetupAssumption ==
    \A s \in Setups :
        /\ s.text \in BOOLEAN /\ s.x86 \in BOOLEAN /\ s.nics \in BOOLEAN
        /\ s.groups \subseteq Groups
        /\ \A d \in DOMAIN s.disks : s.disks[d] \in {"none", "sliced", "empty"}
        /\ s.huge \subseteq DOMAIN s.disks
        /\ s.now \in Dates
ASSUME TurnsAssumption == MaxTurns \in Nat
ASSUME NothingAssumption == Nothing \notin Dates

VARIABLES
    setup,    \* what this session runs on
    screen,   \* the screen being shown, "help", or how the session ended
    shown,    \* the screen stands and waits for a key
    visited,  \* ScreenList.visited_list
    help,     \* HelpScreen.screen, the topic or "index"
    prof,     \* the system configuration profile
    zones,    \* the three TimeZone screens' lists and their parents
    date,     \* the fields of DateTimeScreen, or Nothing before it
    isValid,  \* its year_is_valid and month_is_valid
    target,   \* the desired disk, its layout, and whether it was validated
    kept,     \* the target controller's backups: disk -> layout
    backup,   \* TargetController._need_backup
    edited,   \* history: the disks whose layout the user has edited
    turns
screensVars == <<setup, screen, shown, visited, help, prof, zones, date, isValid, target,
                 kept, backup, edited, turns>>
diskVars == <<target, kept, backup, edited>>
confVars == <<prof, zones, date, isValid>>

Disks == DOMAIN setup.disks
TzScreens == {"regions", "locations", "timezone"}

-----------------------------------------------------------------------------
(* The list of screens: make_screen_list of the text installer and           *)
(* get_screens_from_groups of sysconfig.                                     *)
When(c, s) == IF c THEN s ELSE <<>>

TextScreens ==
    <<"welcome", "disk", "fdisk", "parts">>
    \o When(setup.x86, <<"fdisk_slice", "parts_slice">>)
    \o <<"network", "regions", "locations", "timezone", "date", "summary">>

GroupScreens ==
    <<"welcome">>
    \o When("identity" \in setup.groups, <<"network">>)
    \o When("network" \in setup.groups, <<"nic_select", "nic_config">>)
    \o When("location" \in setup.groups, <<"regions", "locations", "timezone">>)
    \o When("date_time" \in setup.groups, <<"date">>)

List == IF setup.text THEN TextScreens ELSE GroupScreens
Position(s) == CHOOSE i \in DOMAIN List : List[i] = s

\* ScreenList.get_next: past the last screen the session is over.
GetNext(s) == IF Position(s) < Len(List) THEN List[Position(s) + 1] ELSE "done"

GoTo(s) == screen' = s /\ shown' = FALSE
Show == shown' = TRUE /\ UNCHANGED <<screen, visited, help, turns>>
Stop(how) == screen' = how /\ shown' = FALSE /\ UNCHANGED <<visited, help, turns>>
Skip == GoTo(GetNext(screen)) /\ UNCHANGED <<visited, help, turns>>
Turn == turns < MaxTurns /\ turns' = turns + 1

-----------------------------------------------------------------------------
(* The target controller: one desired disk, and a backup of the layout of    *)
(* the disk that was selected before, unless that one was used whole.        *)
NoTarget == [disk |-> Nothing]
Layout(part, made) ==
    [part |-> part, made |-> made, inPool |-> FALSE, whole |-> FALSE]
\* apply_default_layout: an empty disk gets one partition with one slice.
Found(d) == Layout(IF setup.disks[d] = "none" /\ setup.x86 THEN "none" ELSE "sliced",
                   "found")
NewTarget(d, l) == [disk |-> d, layout |-> l, checked |-> FALSE]

BackedUp == IF backup /\ target.disk # Nothing
            THEN [kept EXCEPT ![target.disk] = target.layout] ELSE kept

FromBackup(b, d) == IF b[d] = Nothing THEN Found(d) ELSE [b[d] EXCEPT !.whole = FALSE]

SelectDisk(d) ==
    /\ target' = NewTarget(d, FromBackup(BackedUp, d))
    /\ kept' = [BackedUp EXCEPT ![d] = Nothing]
    /\ backup' = TRUE
    /\ UNCHANGED edited

SelectWholeDisk ==
    /\ target' = NewTarget(target.disk, [Layout("sliced", "whole") EXCEPT !.whole = TRUE])
    /\ kept' = BackedUp
    /\ backup' = FALSE
    /\ edited' = edited \ {target.disk}

\* initialize() with no_initial_disk, then the cursor on the disk selected last:
\* the tree of desired disks starts over, without a backup of its disk.
InitializeTarget(d) ==
    /\ target' = NewTarget(d, FromBackup(kept, d))
    /\ kept' = [kept EXCEPT ![d] = Nothing]
    /\ backup' = TRUE
    /\ UNCHANGED edited

Relayout(f(_)) == target' = [target EXCEPT !.layout = f(@), !.checked = FALSE]
Checked(l) == target' = [target EXCEPT !.layout = l, !.checked = TRUE]
KeepDisks == UNCHANGED diskVars
KeepConf == UNCHANGED confVars

-----------------------------------------------------------------------------
(* _show() of the disk screens.                                              *)
ShowDisk ==
    /\ screen = "disk"
    /\ KeepConf
    /\ IF Disks = {} THEN Show /\ KeepDisks      \* only F9 is left
       ELSE /\ \E d \in Disks : /\ target.disk \in {d, Nothing}
                                /\ InitializeTarget(d)
            /\ Show

ShowFDisk ==
    /\ screen = "fdisk"
    /\ KeepConf /\ KeepDisks
    /\ IF target.layout.whole THEN Skip ELSE Show

\* A whole disk needs no editing; on SPARC it is validated here.
ShowParts ==
    /\ screen = "parts"
    /\ KeepConf /\ UNCHANGED <<kept, backup, edited>>
    /\ IF ~target.layout.whole THEN Show /\ UNCHANGED target
       ELSE /\ Skip
            /\ IF setup.x86 THEN UNCHANGED target
               ELSE Checked([target.layout EXCEPT !.whole = FALSE])

\* A Solaris partition without slices is used as a whole.
ShowFDiskSlice ==
    /\ screen = "fdisk_slice"
    /\ KeepConf /\ UNCHANGED <<kept, backup, edited>>
    /\ CASE target.layout.whole -> Skip /\ UNCHANGED target
         [] ~target.layout.whole /\ target.layout.part = "none" ->
                Stop("failed") /\ UNCHANGED target
         [] ~target.layout.whole /\ target.layout.part = "bare" ->
                Skip /\ Relayout(LAMBDA l : [l EXCEPT !.inPool = TRUE])
         [] OTHER -> Show /\ UNCHANGED target

\* As below, were a whole disk skipped without validating it.
ShowPartsSliceLate ==
    /\ screen = "parts_slice"
    /\ KeepConf /\ UNCHANGED <<kept, backup, edited>>
    /\ CASE target.layout.whole -> Skip /\ UNCHANGED target
         [] ~target.layout.whole /\ target.layout.inPool ->
                Skip /\ Checked([target.layout EXCEPT !.part = "sliced", !.inPool = FALSE])
         [] OTHER -> Show /\ UNCHANGED target

ShowPartsSlice ==
    /\ screen = "parts_slice"
    /\ KeepConf /\ UNCHANGED <<kept, backup, edited>>
    /\ CASE target.layout.whole ->
                Skip /\ Checked([target.layout EXCEPT !.whole = FALSE])
         [] ~target.layout.whole /\ target.layout.inPool ->
                Skip /\ Checked([target.layout EXCEPT !.part = "sliced", !.inPool = FALSE])
         [] OTHER -> Show /\ UNCHANGED target

-----------------------------------------------------------------------------
(* _show() of the configuration screens.                                     *)
ShowNetwork ==
    /\ screen = "network"
    /\ prof' = [prof EXCEPT !.system = TRUE,
                            !.nic = IF @ = Nothing
                                    THEN (IF setup.nics THEN "none" ELSE "fromgz") ELSE @]
    /\ Show /\ KeepDisks /\ UNCHANGED <<zones, date, isValid>>

\* No screen offers the manual configuration these two are for.
ShowNics ==
    /\ screen \in {"nic_select", "nic_config"}
    /\ IF prof.nic = Nothing THEN Stop("failed") ELSE Skip
    /\ KeepDisks /\ KeepConf

TimezoneParent(s) ==
    CASE s = "regions" -> Nothing
      [] s = "locations" -> prof.region
      [] s = "timezone" -> prof.country

ZonesOf(region, country) ==
    IF region \in DOMAIN ZoneTable /\ country \in DOMAIN ZoneTable[region]
    THEN ZoneTable[region][country] ELSE {}

FreshTimezones(s) ==
    CASE s = "regions" -> DOMAIN ZoneTable
      [] s = "locations" -> DOMAIN ZoneTable[prof.region]
      [] s = "timezone" -> ZonesOf(prof.region, prof.country)

\* As below, were the list made once.
GetTimezonesOnce(s) == IF zones[s].list = {} THEN FreshTimezones(s) ELSE zones[s].list

\* The list is kept as long as the parent it was made for is.
GetTimezones(s) ==
    LET z == zones[s] IN
    IF z.list = {} \/ TimezoneParent(s) # z.last THEN FreshTimezones(s) ELSE z.list

ShowTimeZone ==
    /\ screen \in TzScreens
    /\ prof' = [prof EXCEPT !.system = TRUE]
    /\ IF prof.region = "utc" /\ screen # "regions" THEN Skip /\ UNCHANGED zones
       ELSE /\ zones' = [zones EXCEPT ![screen] =
                            [list |-> GetTimezones(screen), last |-> @.last,
                             parent |-> TimezoneParent(screen)]]
            /\ Show
    /\ KeepDisks /\ UNCHANGED <<date, isValid>>

\* The fields are filled in the first time, and again from an accepted date;
\* the flags stay as the last keys left them.
ShowDate ==
    /\ screen = "date"
    /\ IF ~prof.system \/ prof.zone = Nothing
       THEN Stop("failed") /\ UNCHANGED <<date, prof>>
       ELSE /\ Show
            /\ CASE date = Nothing -> date' = setup.now /\ UNCHANGED prof
                 [] date # Nothing /\ prof.offset # Nothing ->
                        date' = prof.offset /\ prof' = [prof EXCEPT !.offset = Nothing]
                 [] OTHER -> UNCHANGED <<date, prof>>
    /\ KeepDisks /\ UNCHANGED <<zones, isValid>>

ShowPlain == screen \in {"welcome", "summary", "help"} /\ Show /\ KeepDisks /\ KeepConf

ShowScreen ==
    /\ ~shown
    /\ UNCHANGED setup
    /\ \/ ShowDisk \/ ShowFDisk \/ ShowParts \/ ShowFDiskSlice \/ ShowPartsSlice
       \/ ShowNetwork \/ ShowNics \/ ShowTimeZone \/ ShowDate \/ ShowPlain

-----------------------------------------------------------------------------
(* The fields of the date: a key that makes a field invalid is refused, and  *)
(* a month or a year typed completely pulls the day back into the month.  A  *)
(* refused key is taken back without validating what is left, so that the    *)
(* flag says invalid of a valid year or month until the field is typed again.*)
MonthDays(month, leap) ==
    CASE month = 2 -> IF leap THEN 29 ELSE 28
      [] month = 4 -> 30
      [] OTHER -> 31

DateExists(f) == f.day <= MonthDays(f.month, f.year = "leap")

\* The clock shows a date that exists.
ASSUME NowAssumption == \A s \in Setups : DateExists(s.now)

\* 31 for a month that is marked invalid, 28 for February of such a year; an
\* unfinished year counts as the current one.
GetDaysInMonth(m, y, flags) ==
    CASE ~flags.month -> 31
      [] flags.month /\ m = 2 /\ ~flags.year -> 28
      [] OTHER -> MonthDays(m, \/ y = "leap"
                               \/ y # "common" /\ setup.now.year = "leap")

CheckDayRange(f, flags) ==
    [f EXCEPT !.day = IF @ > GetDaysInMonth(f.month, f.year, flags)
                      THEN GetDaysInMonth(f.month, f.year, flags) ELSE @]

DayAllowed(d) == d <= GetDaysInMonth(date.month, date.year, isValid)
YearValid(f) == IF f.year \in {"leap", "common"}
                THEN CheckDayRange(f, [isValid EXCEPT !.year = TRUE]) ELSE f
MonthTyped(f) == f                      \* were the day left alone
MonthValid(f) == IF f.month > 0
                 THEN CheckDayRange(f, [isValid EXCEPT !.month = TRUE]) ELSE f

\* A year or a month is typed, and then perhaps a key that is refused.
EditDate ==
    /\ shown /\ screen = "date" /\ Turn
    /\ \/ \E y \in Years, refused \in BOOLEAN :
              /\ date' = YearValid([date EXCEPT !.year = y])
              /\ isValid' = [isValid EXCEPT !.year = y # "none" /\ ~refused]
       \/ \E m \in {0, 2, 4, 12}, refused \in BOOLEAN :
              /\ date' = MonthValid([date EXCEPT !.month = m])
              /\ isValid' = [isValid EXCEPT !.month = m > 0 /\ ~refused]
       \/ \E d \in {0, 28, 29, 30, 31} :
              DayAllowed(d) /\ date' = [date EXCEPT !.day = d] /\ UNCHANGED isValid
    /\ KeepDisks
    /\ UNCHANGED <<setup, screen, shown, visited, help, prof, zones>>

\* validate(): what every field checks when the cursor leaves it.
DateValid == date.year \in {"leap", "common"} /\ date.month > 0 /\ date.day > 0

-----------------------------------------------------------------------------
(* Keys of the disk screens: the cursor, the type and size of a partition or *)
(* slice, and F7 for what was discovered.                                    *)
MoveToDisk ==
    /\ shown /\ screen = "disk" /\ Turn
    /\ \E d \in Disks \ {target.disk} : SelectDisk(d)
    /\ KeepConf /\ UNCHANGED <<setup, screen, shown, visited, help>>

(* The type of a slice, and the type of a partition, which may have been   *)
(* given another size.                                                     *)
SliceEdits == {<<"sliced", FALSE>>}
PartEdits == {<<"none", FALSE>>, <<"bare", FALSE>>, <<"bare", TRUE>>}
Edits == IF screen = "parts_slice" \/ ~setup.x86 THEN SliceEdits ELSE PartEdits

\* on_exit_edit: a partition that was resized lost its slices and is in the pool.
EditLayout ==
    /\ shown /\ screen \in {"parts", "parts_slice"} /\ Turn
    /\ \E e \in Edits :
           Relayout(LAMBDA l : [l EXCEPT !.part = e[1], !.inPool = e[2], !.made = "user"])
    /\ edited' = edited \union {target.disk}
    /\ KeepConf /\ UNCHANGED <<setup, screen, shown, visited, help, kept, backup>>

\* F7 among the slices replaces the Solaris partition by the discovered one of
\* its number, which need not exist.
ResetLayout ==
    /\ shown /\ screen \in {"parts", "parts_slice"} /\ Turn
    /\ LET same == screen = "parts" \/ setup.disks[target.disk] = "sliced"
           surely == screen = "parts" \/ target.layout.made = "found"
       IN  \/ /\ same
              /\ Relayout(LAMBDA l : [Found(target.disk) EXCEPT !.inPool = FALSE])
              /\ edited' = edited \ {target.disk}
              /\ UNCHANGED <<screen, shown>>
           \/ /\ ~(same /\ surely)
              /\ screen' = "failed" /\ shown' = FALSE
              /\ UNCHANGED <<target, edited>>
    /\ KeepConf /\ UNCHANGED <<setup, visited, help, kept, backup>>

-----------------------------------------------------------------------------
(* Leaving a screen.  A choice is what stands on it.                         *)
Entries == CASE screen = "network" -> {"empty", "short", "good"}
             [] screen = "regions" -> zones["regions"].list \union {"utc"}
             [] screen \in {"locations", "timezone"} -> zones[screen].list
             [] screen \in {"fdisk", "fdisk_slice"} -> {"whole", "part"}
             [] OTHER -> {Nothing}

\* validate(): the answers a screen may give to F2.  A host name has at least
\* two characters; a disk too large for its label needs a confirmation.
NameAcceptedOnce(c) == c = "good" \/ prof.host = "good"   \* were the profile asked
NameAccepted(c) == c = "good"
DiskAnswers == IF target.disk \in setup.huge THEN BOOLEAN ELSE {TRUE}
Answers(c) ==
    CASE screen = "network" -> {NameAccepted(c)}
      [] screen = "date" -> {DateValid}
      [] screen = "disk" -> DiskAnswers
      [] OTHER -> {TRUE}

\* on_change_screen(): stored whichever key leaves the screen.
NameStored(c, p) == [p EXCEPT !.host = c]
ZoneStored(c, p) ==
    CASE screen = "regions" /\ c = "utc" ->
             [p EXCEPT !.region = c, !.country = c, !.zone = c]
      [] screen = "regions" /\ c # "utc" -> [p EXCEPT !.region = c]
      [] screen = "locations" -> [p EXCEPT !.country = c]
      [] screen = "timezone" -> [p EXCEPT !.zone = c]

Store(c, p) ==
    /\ prof' = CASE screen = "network" -> NameStored(c, p)
                 [] screen \in TzScreens -> ZoneStored(c, p)
                 [] OTHER -> p
    /\ zones' = IF screen \in TzScreens
                THEN [zones EXCEPT ![screen].last = zones[screen].parent] ELSE zones
    /\ UNCHANGED <<setup, date, isValid>>

\* on_continue() of the fdisk screens.
UseSegment(c) ==
    IF screen = "fdisk" /\ c = "whole" THEN SelectWholeDisk
    ELSE /\ Relayout(LAMBDA l : IF screen = "fdisk" THEN [l EXCEPT !.whole = FALSE]
                               ELSE [l EXCEPT !.inPool = (c = "whole")])
         /\ UNCHANGED <<kept, backup, edited>>

\* validate() of the editors: the last one of the machine validates the target.
ValidateParts ==
    /\ IF screen = "parts" /\ setup.x86 THEN UNCHANGED target ELSE Checked(target.layout)
    /\ UNCHANGED <<kept, backup, edited>>

DiskContinue(c) ==
    CASE screen \in {"fdisk", "fdisk_slice"} -> UseSegment(c)
      [] screen \in {"parts", "parts_slice"} -> ValidateParts
      [] OTHER -> KeepDisks

OnKeys == shown /\ screen \in Screens /\ (screen = "disk" => Disks # {})

\* F2: get_next() enters the screen as visited, validate() accepts it.
Continue ==
    /\ OnKeys
    /\ screen = "date" => DateExists(date)
    /\ \E c \in Entries :
           /\ TRUE \in Answers(c)
           /\ DiskContinue(c)
           /\ Store(c, IF screen = "date" THEN [prof EXCEPT !.offset = date] ELSE prof)
    /\ visited' = Append(visited, screen)
    /\ GoTo(GetNext(screen))
    /\ UNCHANGED <<help, turns>>

\* on_continue() makes a datetime of the fields, and nothing catches the
\* ValueError of a 30th of February.
DateRaises ==
    /\ OnKeys /\ screen = "date" /\ DateValid /\ ~DateExists(date)
    /\ Stop("failed")
    /\ KeepDisks /\ KeepConf /\ UNCHANGED setup

\* As below, were the refused screen left among those to go back to.
VisitedWhenKept(v) == Append(v, screen)

\* validate() raises UIMessage: the entry is taken back and the screen stays.
VisitedWhenRefused(v) == Front(Append(v, screen))

RefuseAnswer ==
    /\ OnKeys /\ Turn
    /\ \E c \in Entries : FALSE \in Answers(c)
    /\ visited' = VisitedWhenRefused(visited)
    /\ KeepDisks /\ KeepConf
    /\ UNCHANGED <<setup, screen, shown, help>>

\* F3, which the first screen does not offer.
Back ==
    /\ OnKeys /\ Turn /\ screen # "welcome"
    /\ \E c \in Entries : Store(c, prof)
    /\ GoTo(Last(visited))
    /\ visited' = Front(visited)
    /\ KeepDisks /\ UNCHANGED help

\* F6: a screen asks about itself, the help screen shows its index.
VisitedForHelp == IF screen = "help" THEN visited ELSE Append(visited, screen)

ShowHelp ==
    /\ OnKeys /\ Turn
    /\ \E c \in Entries : Store(c, prof)
    /\ help' = screen
    /\ visited' = VisitedForHelp
    /\ GoTo("help")
    /\ KeepDisks

HelpIndex ==
    /\ shown /\ screen = "help" /\ help # "index" /\ Turn
    /\ help' = "index"
    /\ visited' = VisitedForHelp
    /\ shown' = FALSE
    /\ UNCHANGED screen /\ KeepDisks /\ KeepConf /\ UNCHANGED setup

Topics == ToSet(List) \ {"regions", "locations"}

HelpTopic ==
    /\ shown /\ screen = "help" /\ help = "index" /\ Turn
    /\ \E t \in Topics : help' = t
    /\ shown' = FALSE
    /\ KeepDisks /\ KeepConf /\ UNCHANGED <<setup, screen, visited>>

LeaveHelp ==
    /\ shown /\ screen = "help"
    /\ GoTo(Last(visited))
    /\ visited' = Front(visited)
    /\ KeepDisks /\ KeepConf /\ UNCHANGED <<setup, help, turns>>

\* F9 and the question whether to quit, answered yes.
Quit ==
    /\ shown
    /\ Stop("quit")
    /\ KeepDisks /\ KeepConf /\ UNCHANGED setup

-----------------------------------------------------------------------------
ScreensInit ==
    /\ setup \in Setups
    /\ screen = "welcome" /\ shown = FALSE /\ visited = <<>> /\ help = Nothing
    /\ prof = [system |-> FALSE, host |-> "good", nic |-> Nothing, offset |-> Nothing,
               region |-> Nothing, country |-> Nothing, zone |-> Nothing]
    /\ zones = [s \in TzScreens |-> [list |-> {}, parent |-> Nothing, last |-> Nothing]]
    /\ date = Nothing /\ isValid = [year |-> TRUE, month |-> TRUE]
    /\ target = NoTarget
    /\ kept = [d \in DOMAIN setup.disks |-> Nothing] /\ backup = FALSE
    /\ edited = {}
    /\ turns = 0

ScreensNext ==
    \/ ShowScreen \/ EditDate \/ MoveToDisk \/ EditLayout \/ ResetLayout
    \/ Continue \/ DateRaises \/ RefuseAnswer \/ Back \/ ShowHelp \/ HelpIndex \/ HelpTopic \/ LeaveHelp
    \/ Quit

ScreensSpec == ScreensInit /\ [][ScreensNext]_screensVars

-----------------------------------------------------------------------------
(* Properties.                                                               *)

\* The screens to go back to are distinct, in the order of the list, and before
\* the one being shown; the help screen is never one of them, and it always has
\* the screen that asked for it to go back to.
VisitedInOrder ==
    /\ \A i \in 1 .. Len(visited) : visited[i] \in ToSet(List)
    /\ \A i, j \in 1 .. Len(visited) : i < j => Position(visited[i]) < Position(visited[j])
    /\ screen \in ToSet(List) \ {"welcome"} =>
           visited # <<>> /\ Position(Last(visited)) < Position(screen)
    /\ screen = "help" => visited # <<>>

Reached(s) == s \in ToSet(List) /\ screen \in {"summary", "done"}

\* What was stored unchecked by Back and Help is never what a finished session
\* installs: the name was accepted, and so was a date, after the last change.
ProfileAccepted ==
    /\ Reached("network") => prof.host = "good"
    /\ Reached("date") => prof.offset # Nothing

\* The country of a finished session is one of the chosen region, and the zone
\* is one of that country: in the chosen region if the country is in no other.
\* get_timezones() keeps the list of a country's zones as long as the country
\* is the same, whichever region it was chosen in.
RegionsOf(country) == {r \in DOMAIN ZoneTable : country \in DOMAIN ZoneTable[r]}
ZoneKnown ==
    Reached("timezone") =>
        \/ prof.region = "utc" /\ prof.zone = "utc"
        \/ /\ prof.region \in RegionsOf(prof.country)
           /\ \E r \in RegionsOf(prof.country) : prof.zone \in ZoneTable[r][prof.country]

\* A date that does not exist, for which on_continue() raises, is accepted by
\* the five fields only while a key that the month refused still marks the
\* month invalid: whatever is typed in whatever order, and with a marked year,
\* the day is otherwise kept within its month.
AcceptedDateExists ==
    screen = "date" /\ shown /\ DateValid /\ ~DateExists(date) => ~isValid.month

\* Beyond the disk screens the layout that will be made is the one the final
\* validation saw, and no flag of the screens is left on it.
LayoutValidated ==
    (screen \in TzScreens \union {"network", "date", "summary", "done"} /\ setup.text) =>
        /\ target.checked
        /\ ~target.layout.whole /\ ~target.layout.inPool
        /\ target.layout.part = "sliced"

\* The layout a user made for a disk is there when the disk is selected again
\* (controller.py: "the previous partitioning layout that they configured will
\* not be lost").
LayoutKept == target.disk \in edited => target.layout.made = "user"

\* A session, whatever keys are pressed: the way back is in order, what a
\* finished session stores was accepted, and the layout it installs validated.
SessionSound ==
    VisitedInOrder /\ ProfileAccepted /\ ZoneKnown /\ AcceptedDateExists /\ LayoutValidated
=============================================================================
