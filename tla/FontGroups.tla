----------------------------- MODULE FontGroups -----------------------------
(***************************************************************************)
(* The groups of the font module (kcms/kfontinst/kcmfontinst/              *)
(* GroupList.cpp) and the main page's use of them (KCmFontInst.cpp): named *)
(* sets of families, kept in a file, from which the page takes families it *)
(* believes are not installed any more.  It asks the font list for that.   *)
(***************************************************************************)
EXTENDS FontList

CONSTANTS
  Names,        \* the names of groups
  Failures      \* how a save may fail: "open", "finalize"

ASSUME GroupsAssumption == Failures \subseteq {"open", "finalize"}

VARIABLES
  groups,       \* the custom groups: families by name
  validated,    \* the groups that were checked against the font list
  modified,     \* itsModified
  file,         \* what the groups file holds
  deletedFonts, \* itsDeletedFonts: families the user was asked about
  job,          \* doCmd() runs a job, behind a modal dialog
  lost,         \* history: a save failed without the program noticing
  foreign       \* history: another program wrote the file after this one

groupVars == <<groups, validated, modified, file, deletedFonts, job, lost, foreign>>
allVars == <<groupVars, listVars>>

NoGroups == [n \in {} |-> {}]

\* CFontList::hasFamily()
HasFamily(fam, l) == fam \in FamiliesOf(l.files)

\* Mutant: a file that cannot be opened counts as saved.
SavedSomehow(g, how) ==
  [file |-> IF how = "ok" THEN g ELSE file, modified |-> FALSE, lost |-> lost \/ how = "finalize"]

\* save(): the flag is reset before the file is known to be written.
Saved(g, how) ==
  [file     |-> IF how = "ok" THEN g ELSE file,
   modified |-> how = "open",
   lost     |-> (lost /\ how # "ok") \/ how = "finalize"]

\* The groups become g, and are saved.
SetAndSave(g) ==
  /\ groups' = g
  /\ \E how \in {"ok"} \cup Failures :
       LET s == Saved(g, how) IN
       /\ file' = s.file /\ modified' = s.modified /\ lost' = s.lost
       /\ foreign' = (foreign /\ how # "ok")

\* The page can be used: no job's dialog is in front of it.
AtPage == ~job

FileStays == UNCHANGED <<file, lost, foreign>>

-----------------------------------------------------------------------------
(* The user and the groups.                                                *)

CreateGroup ==
  /\ AtPage
  /\ \E n \in Names \ DOMAIN groups :
       SetAndSave([m \in DOMAIN groups \cup {n} |-> IF m = n THEN {} ELSE groups[m]])
  /\ UNCHANGED <<validated, deletedFonts, job, listVars>>

\* The mark goes with the group's item.
Unmarked(n) == validated \ {n}

RemoveGroup ==
  /\ AtPage
  /\ \E n \in DOMAIN groups :
       /\ SetAndSave([m \in DOMAIN groups \ {n} |-> groups[m]])
       /\ validated' = Unmarked(n)
  /\ UNCHANGED <<deletedFonts, job, listVars>>

\* setData(): a group gets another name.
RenameGroup ==
  /\ AtPage
  /\ \E n \in DOMAIN groups, to \in Names \ DOMAIN groups :
       /\ SetAndSave([m \in (DOMAIN groups \ {n}) \cup {to} |->
                        IF m = to THEN groups[n] ELSE groups[m]])
       /\ validated' = IF n \in validated THEN Unmarked(n) \cup {to} ELSE validated
  /\ UNCHANGED <<deletedFonts, job, listVars>>

\* addToGroup(): families are dropped on a group.  Nothing is saved yet.
AddToGroup ==
  /\ AtPage
  /\ \E n \in DOMAIN groups, fam \in FamiliesOf(list.files) :
       /\ fam \notin groups[n]
       /\ groups' = [groups EXCEPT ![n] = @ \cup {fam}]
  /\ modified' = TRUE
  /\ FileStays /\ UNCHANGED <<validated, deletedFonts, job, listVars>>

\* removeFromGroup(): families are dragged out of the group that is shown.
RemoveFromGroup ==
  /\ AtPage
  /\ \E n \in validated : \E fam \in groups[n] :
       /\ HasFamily(fam, list)
       /\ groups' = [groups EXCEPT ![n] = @ \ {fam}]
  /\ modified' = TRUE
  /\ FileStays /\ UNCHANGED <<validated, deletedFonts, job, listVars>>

\* groupSelected(): the first time, families the list does not have are removed,
\* whether the list has come or not.
SelectGroup ==
  /\ AtPage
  /\ \E n \in DOMAIN groups \ validated :
       LET gone == {fam \in groups[n] : ~HasFamily(fam, list)} IN
       /\ groups' = [groups EXCEPT ![n] = @ \ gone]
       /\ validated' = validated \cup {n}
       /\ modified' = (modified \/ gone # {})
  /\ FileStays /\ UNCHANGED <<deletedFonts, job, listVars>>

-----------------------------------------------------------------------------
(* Jobs, and the list.                                                     *)

\* Mutant: a family of which a font is left leaves its groups too.
DeletedFromAll(fams, l) == fams

\* Families that were deleted and that the list has no longer.
Deleted(fams, l) == {fam \in fams : ~HasFamily(fam, l)}

\* removeDeletedFontsFromGroups(), with the list l.
RemoveDeletedFontsFromGroups(l) ==
  LET gone == Deleted(deletedFonts, l) IN
  /\ groups' = [n \in DOMAIN groups |-> groups[n] \ gone]
  /\ modified' = (modified \/ \E n \in DOMAIN groups : groups[n] \cap gone # {})
  /\ deletedFonts' = {}
  /\ FileStays /\ UNCHANGED validated

\* deleteFonts() notes the families before the user answers; moveFonts() forgets them.
AskToDelete ==
  /\ AtPage
  /\ \E fams \in SUBSET FamiliesOf(list.files) : fams # deletedFonts /\ deletedFonts' = fams
  /\ FileStays /\ UNCHANGED <<groups, validated, modified, job, listVars>>

\* doCmd(): any kind of job.
JobBegins == AtPage /\ JobStarts /\ job' = TRUE /\ UNCHANGED
  <<groups, validated, modified, file, deletedFonts, lost, foreign>>

JobGoesOn == job /\ JobConfigures /\ UNCHANGED groupVars

JobEnds ==
  /\ job /\ job' = FALSE
  /\ \/ JobConfigures
     \/ ~slow /\ UNCHANGED listVars
  /\ RemoveDeletedFontsFromGroups(list')

\* listingPercent(100), at the end of a list.
ListComes ==
  /\ wire # <<>> /\ Head(wire).kind = "list"
  /\ Deliver
  /\ RemoveDeletedFontsFromGroups(list')
  /\ UNCHANGED job

OtherMessageComes ==
  /\ wire # <<>> /\ Head(wire).kind # "list"
  /\ Deliver
  /\ UNCHANGED groupVars

DaemonActs ==
  /\ Install \/ Uninstall \/ FolderChanges \/ Rescan \/ Answer \/ AnswerOther \/ Crash \/ Register
  /\ UNCHANGED groupVars

PageReloads == AtPage /\ Reload /\ UNCHANGED groupVars

-----------------------------------------------------------------------------
(* The file.                                                               *)

\* The module is opened again: CGroupList::load() and CFontList::load().
Opened ==
  /\ groups' = file' /\ validated' = {} /\ modified' = FALSE
  /\ lost' = FALSE /\ foreign' = FALSE
  /\ deletedFonts' = {}
  /\ wire' = <<>> /\ calls' = 1
  /\ list' = NoFonts /\ allowed' = BOOLEAN /\ slow' = FALSE /\ held' = Nothing
  /\ waiting' = TRUE /\ missed' = {} /\ readded' = {}
  /\ UNCHANGED <<daemonVars, job>>

\* ~CGroupList() saves what was modified.
Closing == IF modified THEN groups ELSE file

CloseAndOpen == AtPage /\ file' \in {Closing} \cup {file : how \in Failures} /\ Opened

\* The module is killed.
KillAndOpen == AtPage /\ modified /\ file' = file /\ Opened

\* Another font module, started earlier, saves its groups.
OtherWrites ==
  /\ AtPage /\ ~foreign /\ file # NoGroups
  /\ file' = NoGroups /\ foreign' = TRUE
  /\ UNCHANGED <<groups, validated, modified, deletedFonts, job, lost, listVars>>

GroupsInit ==
  /\ Init
  /\ groups = NoGroups /\ file = NoGroups /\ validated = {} /\ modified = FALSE
  /\ deletedFonts = {} /\ job = FALSE /\ lost = FALSE /\ foreign = FALSE

GroupsNext ==
  \/ CreateGroup \/ RemoveGroup \/ RenameGroup \/ AddToGroup \/ RemoveFromGroup \/ SelectGroup
  \/ AskToDelete \/ JobBegins \/ JobGoesOn \/ JobEnds
  \/ ListComes \/ OtherMessageComes \/ DaemonActs \/ PageReloads
  \/ CloseAndOpen \/ KillAndOpen \/ OtherWrites

GroupsSpec == GroupsInit /\ [][GroupsNext]_allVars

-----------------------------------------------------------------------------
(* Properties.                                                             *)

\* The page by itself removed families from groups.
PageRemoves == groups' # groups /\ (validated' # validated \/ job' # job \/ wire' # wire)

Removed(n) == groups[n] \ groups'[n]

\* Families leave a group by themselves only when they are not installed any more,
\* once the list is complete; but for the files the list is wrong about
\* (KCmFontInst.cpp:1118).  CheckedGroupKeepsInstalled shows why the list must be complete.
GroupsKeepInstalled ==
  [][ PageRemoves /\ DOMAIN groups' = DOMAIN groups /\ Quiet' =>
        \A n \in DOMAIN groups : \A f \in known :
          f.family \in Removed(n) => f \in missed \cup readded ]_allVars

\* "Check fonts listed within group are still valid!" (KCmFontInst.cpp:542): a group
\* that is selected for the first time loses no family that is installed.
CheckedGroupKeepsInstalled ==
  [][ validated \subseteq validated' /\ DOMAIN groups' = DOMAIN groups /\ validated' # validated =>
        \A n \in DOMAIN groups : Removed(n) \cap FamiliesOf(known) = {} ]_allVars

\* What is not modified is what the file holds, unless a save failed unnoticed or
\* another program has written the file since (GroupList.cpp:511).
SavedUnlessModified == ~modified /\ ~lost /\ ~foreign => file = groups
=============================================================================
