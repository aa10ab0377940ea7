------------------------------ MODULE FontList ------------------------------
(***************************************************************************)
(* The font list of the font module (kcms/kfontinst/kcmfontinst/           *)
(* FontList.cpp): a copy of what the font daemon has found, made from one  *)
(* list and kept by the daemon's broadcasts.  While a job runs the updates *)
(* are slowed: held, merged per kind and folder, and replayed later.       *)
(*                                                                         *)
(* The daemon (dbus/FontInst.cpp) is here what it broadcasts and lists;    *)
(* FontDaemon models its operations.  Its messages arrive in their order.  *)
(***************************************************************************)
EXTENDS Integers, Sequences, FiniteSets

CONSTANTS
  Files,        \* font files: [family, style, sys, hidden]
  MaxSlowed,    \* constMaxSlowed
  MaxWire,      \* messages on their way: bounds the model
  MaxCrashes,   \* deaths of the daemon: bounds the model
  MaxChanges    \* changes of the folders: bounds the model

Families == {f.family : f \in Files}
ItemOf(f) == <<f.family, f.style, f.sys>>
Items == {ItemOf(f) : f \in Files}

ASSUME FontListAssumption ==
  /\ \A f \in Files : f.sys \in BOOLEAN /\ f.hidden \in BOOLEAN
  /\ MaxSlowed \in Nat /\ MaxWire \in Nat /\ MaxCrashes \in Nat /\ MaxChanges \in Nat

VARIABLES
  disk,         \* the font files that fontconfig finds
  known,        \* those the daemon has in its lists (theFolders)
  alive,        \* the daemon has its name
  wire,         \* the daemon's broadcasts and answers on their way
  calls,        \* list() calls on their way to the daemon
  list,         \* the model's items: [files, lit, stats]
  allowed,      \* folders that count: allowSys (TRUE) and allowUser (FALSE)
  slow,         \* itsSlowUpdates
  held,         \* itsSlowedMsgs: files by kind and folder
  crashes,      \* deaths so far
  changes,      \* changes so far
  waiting,      \* history: no list has come since the last load()
  missed,       \* history: files the daemon found or lost without a broadcast
  readded       \* history: files whose removal and then addition were held

daemonVars == <<disk, known, alive, crashes, changes>>
clientVars == <<list, allowed, slow, held, waiting, readded>>
listVars == <<disk, known, alive, wire, calls, list, allowed, slow, held,
              crashes, changes, waiting, missed, readded>>

Nothing == [kind \in {"add", "del"} |-> [sys \in BOOLEAN |-> {}]]
NoFonts == [files |-> {}, lit |-> {}, stats |-> [x \in {} |-> 0]]

InFolder(F, sys) == {f \in F : f.sys = sys}
FilesOf(i, F) == {f \in F : ItemOf(f) = i}
ItemsOf(F) == {ItemOf(f) : f \in F}
FamiliesOf(F) == {f.family : f \in F}

-----------------------------------------------------------------------------
(* The items.                                                              *)

\* CFontItem::refresh(): a font is enabled when one of its files is not hidden.
Enabled(i, F) == \E f \in FilesOf(i, F) : ~f.hidden

\* CFamilyItem::updateStatus(): the counted fonts, and the family's status.
Status(items, lit) ==
  CASE items \cap lit = {} -> "disabled"
    [] items \subseteq lit /\ items # {} -> "enabled"
    [] OTHER -> "partial"

FamilyStats(fam, F, lit, folders) ==
  LET all    == {i \in ItemsOf(F) : i[1] = fam}
      usable == {i \in all : i[3] \in folders}
  IN  [count |-> Cardinality(usable), status |-> Status(usable, lit),
       real |-> Status(all, lit), sys |-> \E i \in usable : i[3]]

\* Mutant: a family that has got another font keeps its status.
RefreshedNewOnly(stats, F, lit, folders, changed) ==
  [fam \in FamiliesOf(F) |-> IF fam \notin DOMAIN stats
                               THEN FamilyStats(fam, F, lit, folders) ELSE stats[fam]]

\* CFamilyItem::refresh() of the families that were changed.
Refreshed(stats, F, lit, folders, changed) ==
  [fam \in FamiliesOf(F) |-> IF fam \in changed \/ fam \notin DOMAIN stats
                               THEN FamilyStats(fam, F, lit, folders) ELSE stats[fam]]

\* Mutant: files that come to a font that is there are not added to it.
AddFontsNewOnly(l, F) ==
  LET files == l.files \cup {f \in F : ItemOf(f) \notin ItemsOf(l.files)}
      new   == ItemsOf(F) \ ItemsOf(l.files)
      lit   == l.lit \cup {i \in new : Enabled(i, files)}
  IN  [files |-> files, lit |-> lit,
       stats |-> Refreshed(l.stats, files, lit, allowed, {i[1] : i \in new})]

\* addFonts(): files that come to a font that is there change nothing else: what
\* is compared is the number of files of the message (FontList.cpp:283).
AddFonts(l, F) ==
  LET files == l.files \cup F
      new   == ItemsOf(F) \ ItemsOf(l.files)
      lit   == l.lit \cup {i \in new : Enabled(i, files)}
  IN  [files |-> files, lit |-> lit,
       stats |-> Refreshed(l.stats, files, lit, allowed, {i[1] : i \in new})]

\* Mutant: a font that has lost some of its files is not looked at again.
RelitNever(lit, files, touched) == lit

\* Fonts that have lost files, but not all, are refreshed.
Relit(lit, files, touched) ==
  ((lit \ touched) \cup {i \in touched : Enabled(i, files)}) \cap ItemsOf(files)

\* removeFonts()
RemoveFonts(l, F) ==
  LET files   == l.files \ F
      touched == ItemsOf(l.files \cap F)
      lit     == Relit(l.lit, files, touched)
  IN  [files |-> files, lit |-> lit,
       stats |-> Refreshed(l.stats, files, lit, allowed, FamiliesOf(F))]

-----------------------------------------------------------------------------
(* Slowed updates.                                                         *)

\* actionSlowedUpdates(): all additions, then all removals, of a folder.
Replay(st, sys) ==
  [list |-> RemoveFonts(AddFonts(st.list, st.held["add"][sys]), st.held["del"][sys]),
   held |-> [st.held EXCEPT !["add"][sys] = {}, !["del"][sys] = {}]]

\* More than constMaxSlowed families are held for a folder already.
TooMany(h, sys) == \E kind \in {"add", "del"} : Cardinality(FamiliesOf(h[kind][sys])) > MaxSlowed

\* storeSlowedMessage(): families, styles and files are merged.
StoreSlowedMessage(st, kind, sys, F) ==
  LET played == IF TooMany(st.held, sys) THEN Replay(st, sys) ELSE st
  IN  [list |-> played.list, held |-> [played.held EXCEPT ![kind][sys] = @ \cup F]]

\* fontsAdded() and fontsRemoved().
Received(st, kind, sys, F) ==
  IF slow THEN StoreSlowedMessage(st, kind, sys, F)
  ELSE [list |-> IF kind = "add" THEN AddFonts(st.list, F) ELSE RemoveFonts(st.list, F),
        held |-> st.held]

\* The part of a message for one folder.  An answer to list() has a part for each, if
\* an empty one (FontInst.cpp:151); a broadcast has one for the folder that has changed.
Heard(st, m, sys) ==
  LET part == InFolder(m.files, sys)
      kind == IF m.kind = "del" THEN "del" ELSE "add"
  IN  IF m.kind = "list" \/ part # {} THEN Received(st, kind, sys, part) ELSE st

State == [list |-> list, held |-> held]

SetState(st) == list' = st.list /\ held' = st.held

\* setSlowUpdates(false)
ReplayAll(st) == IF slow THEN Replay(Replay(st, FALSE), TRUE) ELSE st

-----------------------------------------------------------------------------
(* The module.                                                             *)

Message(kind, F) == [kind |-> kind, files |-> F]

\* What waits on the wire after a load was asked for is seen by the new list.
OnWire == UNION {wire[k].files : k \in 1 .. Len(wire)}

\* Mutant: the updates that are held survive a reload.
ForgottenNot == held

\* load() forgets what is held before it stops slowing.
Forgotten == Nothing

\* load(): the call for the list waits for a daemon that is not registered.
LoadBody ==
  /\ held' = Forgotten /\ slow' = FALSE
  /\ list' = NoFonts
  /\ calls' = calls + 1
  /\ waiting' = TRUE
  /\ missed' = missed \cap OnWire
  /\ readded' = {}

\* The user reloads the list (once the last one has come: bounds the model).
Reload ==
  /\ calls = 0 /\ ~waiting
  /\ LoadBody
  /\ UNCHANGED <<daemonVars, wire, allowed>>

\* Mutant: a new owner of the daemon's name is of no interest.
OwnerChangesIgnored == UNCHANGED <<calls, list, slow, held, waiting, missed, readded>>

\* dbusServiceOwnerChanged(): the name was given up or taken.
OwnerChanges == LoadBody

\* fontsAdded(), fontsRemoved() and fontList() of the next message.
FontsReceived(m) ==
  /\ SetState(Heard(Heard(State, m, TRUE), m, FALSE))
  /\ waiting' = (waiting /\ m.kind # "list")
  /\ readded' = IF slow /\ m.kind # "del"
                  THEN readded \cup (m.files \cap UNION {held["del"][s] : s \in BOOLEAN})
                  ELSE readded
  /\ UNCHANGED <<calls, slow, missed>>

Deliver ==
  /\ wire # <<>>
  /\ wire' = Tail(wire)
  /\ LET m == Head(wire) IN IF m.kind = "owner" THEN OwnerChanges ELSE FontsReceived(m)
  /\ UNCHANGED <<daemonVars, allowed>>

\* doCmd(), or the duplicates dialog: a job starts,
JobStarts ==
  /\ ~slow /\ slow' = TRUE
  /\ UNCHANGED <<daemonVars, wire, calls, list, allowed, held, waiting, missed, readded>>

\* and gets to its configuration, or ends.
JobConfigures ==
  /\ slow /\ slow' = FALSE
  /\ SetState(ReplayAll(State))
  /\ UNCHANGED <<daemonVars, wire, calls, allowed, waiting, missed, readded>>

\* setFilterGroup() from all fonts to personal or system ones, or back.
Refresh ==
  /\ \E folders \in {{TRUE}, {FALSE}, BOOLEAN} :
       /\ folders # allowed /\ allowed' = folders
       /\ list' = [files |-> list.files, lit |-> list.lit,
                   stats |-> [fam \in FamiliesOf(list.files) |->
                                FamilyStats(fam, list.files, list.lit, folders)]]
  /\ UNCHANGED <<daemonVars, wire, calls, slow, held, waiting, missed, readded>>

-----------------------------------------------------------------------------
(* The daemon.                                                             *)

Bounded == Len(wire') <= MaxWire

\* Another broadcast, when there is something to say.
Said(w, kind, F) == IF F = {} THEN w ELSE Append(w, Message(kind, F))

\* Broadcasts of a change of what the daemon knows, additions first.
Told(w, added, removed) == Said(Said(w, "add", added), "del", removed)

Changes == changes < MaxChanges /\ changes' = changes + 1

\* A change made through the daemon: files come, go, or are hidden or shown.
DaemonChanges(added, removed) ==
  /\ alive /\ Changes
  /\ known' = (known \ removed) \cup added
  /\ disk' = (disk \ removed) \cup added
  /\ wire' = Told(wire, added, removed) /\ Bounded
  /\ UNCHANGED <<alive, calls, crashes, clientVars, missed>>

Install == \E f \in Files \ disk : DaemonChanges({f}, {})

Uninstall == \E i \in ItemsOf(known) : DaemonChanges({}, FilesOf(i, known))

\* toggle(): the daemon has the toggled files from then on, and no others.
Toggle ==
  \E i \in ItemsOf(known), hide \in BOOLEAN :
    LET F  == FilesOf(i, known)
        to == {[f EXCEPT !.hidden = hide] : f \in {g \in F : g.hidden # hide}}
    IN  to # {} /\ to \subseteq Files \ known /\ DaemonChanges(to, F)

\* Someone else changes a folder.
FolderChanges ==
  /\ Changes
  /\ \E f \in Files : disk' = IF f \in disk THEN disk \ {f} ELSE disk \cup {f}
  /\ UNCHANGED <<known, alive, wire, calls, crashes, clientVars, missed>>

\* updateFontList(true): the differences are broadcast, folder by folder.
Rescan ==
  /\ alive /\ known # disk
  /\ known' = disk
  /\ LET told(w, s) == Told(w, InFolder(disk \ known, s), InFolder(known \ disk, s))
     IN  wire' = told(told(wire, TRUE), FALSE)
  /\ Bounded
  /\ UNCHANGED <<disk, alive, calls, crashes, changes, clientVars, missed>>

\* list() for this module.  updateFontList(false) finds changes, or fontconfig
\* says there are none, and nobody is told of them but by this list.
Answer ==
  /\ alive /\ calls > 0
  /\ calls' = calls - 1
  /\ known' \in {known, disk}
  /\ wire' = Append(wire, Message("list", known')) /\ Bounded
  /\ missed' = missed \cup (known \ known')
  /\ UNCHANGED <<disk, alive, crashes, changes, clientVars>>

\* list() for another client: this module is not told.
AnswerOther ==
  /\ alive /\ known # disk
  /\ known' = disk
  /\ missed' = missed \cup (known \ disk) \cup (disk \ known)
  /\ UNCHANGED <<disk, alive, wire, calls, crashes, changes, clientVars>>

\* The daemon dies; the calls it has not answered fail.
Crash ==
  /\ alive /\ crashes < MaxCrashes
  /\ alive' = FALSE /\ crashes' = crashes + 1 /\ calls' = 0
  /\ wire' = Append(wire, Message("owner", {})) /\ Bounded
  /\ UNCHANGED <<disk, known, changes, clientVars, missed>>

\* It starts: by load(), or by another client, and lists the folders.
Register ==
  /\ ~alive /\ alive' = TRUE
  /\ known' = disk
  /\ wire' = Append(wire, Message("owner", {})) /\ Bounded
  /\ UNCHANGED <<disk, calls, crashes, changes, clientVars, missed>>

-----------------------------------------------------------------------------

\* The module's page has just asked for the list.
Init ==
  /\ disk \in SUBSET Files /\ known = disk
  /\ alive = TRUE /\ wire = <<>> /\ calls = 1
  /\ list = NoFonts /\ allowed = BOOLEAN
  /\ slow = FALSE /\ held = Nothing
  /\ crashes = 0 /\ changes = 0 /\ waiting = TRUE /\ missed = {} /\ readded = {}

Next ==
  \/ Reload \/ Deliver \/ JobStarts \/ JobConfigures \/ Refresh
  \/ Install \/ Uninstall \/ Toggle \/ FolderChanges \/ Rescan
  \/ Answer \/ AnswerOther \/ Crash \/ Register

Spec == Init /\ [][Next]_listVars

\* Messages arrive, a daemon that was started gets its name, and it takes calls in
\* their order: strong fairness, as others keep it from this one for a while only.
FairSpec == Spec /\ WF_listVars(Deliver) /\ SF_listVars(Answer) /\ WF_listVars(Register)

-----------------------------------------------------------------------------
(* Properties.                                                             *)

\* Nothing is held, nothing is on its way.
Quiet == wire = <<>> /\ calls = 0 /\ held = Nothing /\ alive /\ ~waiting

\* When nothing is held or on its way, the list shows what the daemon has.  It may
\* be wrong only about files that the daemon found or lost while it answered a
\* list() (FontInst.cpp:148, FontList.cpp:493), or that were removed and then added
\* while updates were slowed (FontList.cpp:810).
ShowsWhatIsKnown ==
  Quiet => /\ list.files \ known \subseteq missed
           /\ known \ list.files \subseteq missed \cup readded

\* A font that is shown as enabled has a file that is not hidden.  (Not the other
\* way: FontList.cpp:283.)
EnabledHasFile == \A i \in list.lit : Enabled(i, list.files)

\* The families' status and number of fonts are those of their fonts, in the folders
\* that count at the time (FontList.cpp:358).
StatsCurrent ==
  \A fam \in FamiliesOf(list.files) :
    list.stats[fam] = FamilyStats(fam, list.files, list.lit, allowed)

\* Updates are held only while they are slowed (FontList.cpp:532).
HeldOnlyWhileSlow == held # Nothing => slow

\* A list that is waited for comes, whenever the daemon dies meanwhile
\* (FontList.cpp:479).
EventuallyListed == waiting ~> ~waiting
=============================================================================
