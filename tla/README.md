# TLA+ models of the Plasma desktop workspace

This directory holds formal models of the stateful parts of this repository (the
KDE Plasma 5 *desktop* workspace: applets, containments and the System Settings
modules), the TLC configurations that model-check them, and machine-checked (TLAPS)
proofs about them. Source paths below are relative to the repository root.

## 1. Inventory

The repository is a collection of mostly independent plug-ins. Most of its lines are
user interface, drawing and vendored tables; the parts that keep state over time and
talk to other processes or to asynchronous event sources are these.

### 1.1 Font installer (`kcms/kfontinst`)

| part | state | operations | talks to |
|---|---|---|---|
| **Font job dialog** `kcmfontinst/JobRunner.cpp` | list of items `itsUrls`, iterator `itsIt`, `itsPrev`, `itsCmd`, flags `itsAutoSkip`, `itsCancelClicked`, `itsModified`, `itsLastDBusStatus`, page shown | `exec`, `doNext`, `checkInterface`, `dbusServiceOwnerChanged`, `dbusStatus`, `contineuToNext`, `slotButtonClicked`, `closeEvent` | sends one asynchronous D-Bus call at a time to the daemon, is moved on by its `status` signals, by `NameOwnerChanged`, by two timers, by downloads (nested event loops) and by the user |
| **Font daemon** `dbus/FontInst.cpp`, `dbus/Folder.cpp` | per folder (user, system) the list of fonts, of disabled fonts and the set of modified directories; connected clients; two timers | `list`, `statFont`, `install`, `uninstall`, `move`, `enable`, `disable`, `removeFile`, `reconfigure`, `saveDisabled`, timer slots | D-Bus clients; the privileged helper through KAuth, waiting in a *nested event loop* (`performAction`); the file system, fontconfig |
| **Font helper** `dbus/Helper.cpp` | system folder (root) and its own modified directories | `install`, `uninstall`, `move`, `toggle`, `removeFile`, `reconfigure`, `saveDisabled` | called by the daemon; exits when idle |
| **KIO worker** `kio/KioFonts.cpp`, `kio/FontInstInterface.cpp` | one blocking request at a time | `listDir`, `put`, `copy`, `del`, ... | D-Bus calls to the daemon, waits for the status that bears its pid |
| **Font list, groups** `kcmfontinst/FontList.cpp`, `GroupList.cpp`, `KCmFontInst.cpp`, `DuplicatesDialog.cpp` | mirror of the daemon's font lists; group file | `fontsAdded`, `fontsRemoved`, slow/fast update; group load, merge, save | signals of the daemon; a shared XML file |

What makes it correct: a result is applied to the item it answers; nothing is counted
as done that the daemon did not do or have asked of its helper; metrics files are handled with their font; every change is
followed by a configuration of fontconfig; a cancelled or failed job stops; the dialog
never waits for an answer that cannot come; the daemon's lists agree with the disk and
with what it broadcasts.

Hard: status signals carry a process id and nothing else, so an answer can be taken for
the answer to another request; nested event loops in both processes; death and
activation of the daemon; a helper whose failures are not looked at.

### 1.2 Folder view (`containments/folder/plugin`)

| part | state | operations | talks to |
|---|---|---|---|
| **Positioner** `positioner.cpp` | two maps proxy row <-> source row, `m_lastRow`, pending change lists, the saved position strings | `setEnabled`, `setPerStripe`, `setPositions`, `move`, `reset`, `updatePositions`, the source model's row signals | folder model signals; the applet's configuration |
| **Folder model** `foldermodel.cpp` | sort and filter settings, selection, drag state, dir lister | sort, filter, select, drag, drop, rename, trash | KDirLister's asynchronous results, drag nested loops |
| **konq operations** `internallibkonq/*` | clipboard and drop operations | copy, move, link jobs | KIO jobs |

What makes it correct: the two maps are inverse bijections that cover every source row;
an item the user did not move stays where it is; what is saved is what is restored.

### 1.3 Keyboard layouts (`kcms/keyboard`)

| part | state | operations | talks to |
|---|---|---|---|
| **Layout memory** `layout_memory.cpp`, `layout_memory_persister.cpp` | map from window / application / desktop to a set of layouts and the current one; previous key | `layoutChanged`, `layoutMapChanged`, `windowChanged`, `desktopChanged`, save, restore | X11 and window manager events, which are asynchronous to each other |
| **Keyboard daemon** `keyboard_daemon.cpp`, `x11_helper.cpp`, `flags.cpp` | configured layouts, listeners | `configureKeyboard`, `setLayout`, `switchToNextLayout`, map-changed slots | X server |

What makes it correct: a layout the user chose in one window is the layout restored for
that window's key; a stored layout exists in the configured set.

### 1.4 Other stateful parts

| part | state and hard behaviour |
|---|---|
| `kcms/access/kaccess.cpp` | sticky/slow/bounce/mouse keys state mirrored from XKB events, feature requests and their dialog |
| `applets/kickoff/core` | application tree, favourites kept in several model instances, recently used list with a bound, runner search with stale matches |
| `applets/kicker/plugin` | application and recent-contact models |
| `applets/pager/plugin`, `applets/taskmanager/plugin` | window rectangles by desktop, drag of windows, task launchers |
| `applets/trash/plugin`, `ktouchpadenabler` | dir lister mirror; touchpad on/off with a notification |
| `kcms/phonon/devicepreference.cpp` | preference lists of devices by category, merge of unseen devices |
| `containments/desktop/package/contents/code/LayoutManager.js` | grid of applets: free cells, moves, restore from a configuration string |
| `kcms/dateandtime` | the privileged helper that sets clock, zone and NTP |
| `kcms/*` (colors, fonts, style, icons, keys, kded, autostart, ...) | load / edit / save / defaults pages over configuration files |
| `runners`, `toolboxes`, `attica-kde`, `knetattach`, `solid-actions-kcm`, `desktoppackage` | thin user interface and plug-ins |

## 2. The project at a glance

| order | what | modules | status |
|---|---|---|---|
| 1 | the daemon on the bus, and the dialog that runs font jobs through it | `FontBackend`, `JobRunner` | checked; every safety property proved |
| 2 | what a font job promises | `FontJob` | implemented by `JobRunner`: checked, proved |
| 3 | the daemon's inside and its helper | `FontHelper`, `FontDaemon` | checked; every safety property that holds proved, four of them while nothing is nested |
| 4 | the folder view's positions under its model's row signals | `Positioner`, `FolderView` | checked; every safety property proved |
| 5 | the module's copy of the lists, and its groups | `FontList`, `FontGroups` | checked; every safety property proved |
| 6 | layouts by window, application, desktop | `KeyboardDaemon` | checked; every safety property proved |

`MC...` modules hold TLC instances, `...Proofs` modules the TLAPS proofs. `JobRunner` extends
`FontBackend` and takes `FontJob` as `INSTANCE FontJob WITH ...`; `FontDaemon` extends
`FontHelper`, `FolderView` extends `Positioner`, `FontGroups` extends `FontList`. No module
declares a recursive operator, so each can be proved about.

What is left: an abstract font folder (each file enabled, disabled or gone) that `FontDaemon`
implements while nothing is nested; models of the grid of applets, the favourites and the
accessibility daemon.

## 3. Modules

Five systems are modelled: the font dialog with the daemon's bus interface, the daemon's
inside, the font list with the groups, the folder view, and the keyboard daemon. The font
modules share the D-Bus interface of the daemon: `FontBackend` is the daemon reduced to what
a client that sends requests can rely on, `FontList` reduces it to what it broadcasts and
lists, `FontDaemon` is its inside.

### 3.1 `FontBackend`: the daemon on the bus

Requests reach the daemon in order (`requests`), it may take one while another waits in
`performAction()` (`Take`; `handling` is the stack, `waiting` the depths that wait), and ends
each with one `status` signal that bears only process id and result.

| code (`dbus/FontInst.cpp`) | module |
|---|---|
| methods on the user's folder | `AnswerOk`, `AnswerError` |
| methods on the system's folder, and every `move()`: what comes before the wait, and after it | `AskHelper`, `HelperAnswers` |
| `reconfigure()` up to the first wait, and its status | `Reconfigure`, `AnswerReconfigure` |

`HelperAnswers` broadcasts 0 whatever the helper has done, because `performAction()` does not
look at its answer (957-973): `acted` therefore records the requests the daemon *acted on*,
which is to have done what it can do itself or to have asked the helper for it, and not what is
on disk. `userModified` is the note that the user's folder has modified directories. Installs of
metrics never set it (247-257), an enable or disable need not, a `move()` sets it *before* it
waits (397-400), and a reconfiguration handled meanwhile, also one of another process, clears
it. `unconfigured` records which requests changed the user's fonts with no fc-cache run since.
`Die` loses the stack, a prefix of the requests (delivered already) and the note, and announces
the loss of the name; `Start` and `StartFails` are D-Bus activation. Other processes send
requests too (`ForeignRequest`: an uninstall, which stands for the methods on one folder, a move,
a reconfiguration).

### 3.2 `JobRunner`: the font job dialog

One variable for each member of `CJobRunner`: `cmd` (`itsCmd`), `urls`, `it` (`itsIt`, a
position, `End` for `itsEnd`), `prev`, `autoSkip`, `cancelClicked`, `isModified`,
`lastStatus`, `page` (`itsStack->currentIndex()`), and `downloads`, the `doNext()` frames
that are suspended in `NetAccess::download()`.

| code | module |
|---|---|
| `exec()`, `qSort`, `addEnableActions` | `Exec`, `Sorted`, `WithEnableActions`, `ItemLists` |
| `doNext()` and its callers' continuation | `DoNext(i, m, pg, frames)`, an operator with the values its caller has just assigned |
| `dbusStatus()` | `Status`, `DbusStatus`, `Proceed` |
| `contineuToNext()` | `Advance`, `AfterItem`, `SkipCancel` |
| `checkInterface()`, `dbusServiceOwnerChanged()` | `CheckInterface`, `ServiceOwnerChanged`, `Abandon` |
| `slotButtonClicked()` by page, `closeEvent()` | `ProgressCancel`, `Skip`, `SkipCancel`, `ConfirmCancel`, `CloseError`, `CloseComplete` |
| a download that returns | `DownloadDone`, `DownloadFails` |

`CKCmFontInst::doCmd` makes a new dialog for each job in one process, so `Exec` may happen
while an answer to the job before is on its way; `late` records that. Reading `*itsIt` at
its end is undefined: `overrun` records that it happened, and the program goes on or is
gone. Properties about items are stated for jobs that are not `late`: in a late job a
foreign status *is* applied to the wrong item, which is listed as a hazard.

### 3.3 `FontHelper`: files and the privileged helper

`disk` is the set of font files (name, folder, hidden or not), `cfg` what the two
`disabledfonts.xml` list, `helper` the helper process with its `theFontFolder`.
`HelperStarts`/`HelperExits` load and save the list of disabled fonts, `HelperInstall`,
`HelperUninstall`, `HelperMove`, `HelperToggle`, `HelperRemoveFile`, `HelperSaveDisabled`,
`HelperReconfigure` are the methods of `Helper.cpp`; `HelperMoveFails` and
`HelperToggleFails` a half-done rename that was undone. A load does not clear what the
helper knows, and an entry whose file is gone makes the list dirty again (`LoadedByHelper`,
`ResavedByHelper`).

### 3.4 `FontDaemon`: the daemon's inside

| code | module |
|---|---|
| `theFolders[d]`: fonts, `itsDisabledCfg.dirty`, `itsModifiedDirs` not empty | `fonts[d]`, `dirty`, `modified` |
| `itsConnections`, the two timers | `connections`, `timers` |
| what fontconfig saw at its last initialisation | `cache` |
| the C++ stack of methods | `stack`, innermost first; a frame has the method's arguments and locals and the step it is at |
| `performAction()` | `PerformAction` suspends the top frame (`Waits`) and stops the timers; `HelperServes` or `HelperRefuses` answers a frame at any depth, only the top one goes on |
| `updateFontList()` | `UpdateFontList` (up to `saveDisabled()`, which may wait) and `RebuildLists` |
| `findFont()` | `FindFont`, a second time after a refresh |
| `install`, `uninstall`, `move`, `toggle`, `removeFile` | `Install`/`InstallAfter`, `UninstallUser`, `UninstallSystem`/`UninstallAfter`, `Move`/`MoveAfter`, `ToggleUser`, `ToggleSystem`/`ToggleAfter`, `RemoveFile`/`RemoveFileAfter` |
| `saveDisabled()`, `reconfigure()` | `StoreDisabled`/`StoredDisabled`, `Configure`/`ConfigureAfter` |
| `list()`, ends of methods that refresh last | `Reply` |
| `connectionsTimeout()`, `fontListTimeout()` | `ConnectionsTimeout`, `FontListTimeout` |
| `main()`, destructors, death | `Start`, `Exit`, `Killed` |

An action is the code between two points where a method may wait. The event loop (`LoopRuns`)
runs at rest and in `performAction()`, so calls and timers nest. Iterators `fam` and `st`
that a nested method has freed (`valid`) are undefined behaviour: the method goes on as
written, or receives SIGSEGV (`UsesFreed`), whose handler saves the disabled fonts and
*returns*, so that the process spins ("hung").

`heard` is a client's copy of the lists: the answer to its `list()` and all broadcasts since.
`behind` is set while it waits for that answer and when the lists are refreshed without a
broadcast. `unconfigured` and `lost` say which folders changed without fc-cache since, and
whose mark was dropped with a process that ended or a helper that refused.

Abstractions: one directory per folder; metrics (AFM, PFM) are not represented; names are
normalised already (`modifyName` maps them to themselves); a style whose last file has gone
is as good as removed; `statFont` asks about one folder; a request of a daemon that was
killed is not carried out later; the daemon run by root (`isSystem`) is not modelled.
Nothing is assumed about what the helper answers, because `performAction()` does not look
(its comment: "Error checking for KAuth disabled").

### 3.5 `FontJob`: what a font job promises

Items are handed over in the order of the list and none twice (`HandOver`), an item counts
only when the daemon has acted on it (`CountDone`: it carried it out, or asked the helper to;
the code promises no more, see 3.1), nothing is handed over after the user has stopped
the job, and a job that has done something asks for the configuration of the fonts before it
closes (`Proceed`). A dead daemon voids the last promise; a job that began while answers to
the one before were on their way is muddled and voids all of them (`Muddle`), because a status
names no request. `JobRunner` implements this with the mapping at its end: `items` is the
length of `urls`, `handed` is `dispatched`, `acted` the positions of this job the daemon has
acted on (`ActedOn`), `stage` comes from `cmd` and from whether the dialog exists. A step of the dialog can do
three abstract things at once (count an item, hand over the next, stop), so `Proceed` is their
conjunction; a suspended download is invisible.

### 3.6 `Positioner` and `FolderView`: the positions of the folder view

`maps` is the pair `m_proxyToSource`, `m_sourceToProxy`; `rows` the source model; `positions`
the saved strings as a set of entries with the number of cells per stripe; `pending` and
`queued` the save that is due and its call in the event queue; `applying`, `resetting`,
`perStripe`, `enabled` the members of those names. `shown` is how many rows the views have
been told of by `begin/endInsertRows`, `begin/endRemoveRows` and model resets.

| code (`positioner.cpp`) | module |
|---|---|
| `setEnabled`, `setPerStripe`, `reset` | `SetEnabled`, `SetPerStripe`, `Reset` |
| `initMaps`, `lastIndex`, `firstFreeRow`, `isBlank` | `InitMaps`, `LastIndex`, `FirstFreeRow`, `IsBlank` |
| `move` | `MoveTarget`, `MovedMaps`, `Move` |
| `updatePositions`, `QTimer::singleShot` | `UpdatePositions`, `QueueUpdate` |
| `applyPositions` | `Claims`, `Placements`, `Fillings`, `Arrangement`, `ApplyPositions` |
| `sourceRowsAboutToBeInserted`, `sourceRowsInserted` | `NewCells`, `FilledMaps`, `RowsInserted`, `SourceRowsInserted` |
| `sourceRowsAboutToBeRemoved`, `sourceRowsRemoved` | `RemoveRow`, `RemoveRows`, `SourceRowsRemoved` |

The row signals and the user are in `FolderView`: `ItemsArrive` appends to the unsorted view,
`SortedItemArrives` inserts in the order of the items, `FilterShows` puts a filtered item back
in its row, `ItemsLeave` removes a range of rows; `SortModeChanges`, `UrlChanges`,
`DirectionChanges`, `SizeChanges` the changes of the view; `DragStarts`, `Drop`, `MoveNext`,
`DragEnds` a drag whose items are placed one after the other (`onMove`; its loop does not give
control back, which is `Idle` in the other guards); `Restart` a new session that finds what
the configuration holds.

`broken` says that the maps have parted from the rows, in one of three ways the code allows
(rows inserted before others, several rows removed at once, a drop on the cell of another
dragged item: `positioner.cpp:409`, `453`, `285`). `spoiled` stays set after that. `applying`
can stay set too, when fewer than five entries were saved (`615`).

### 3.7 `FontList` and `FontGroups`: the font module's copy

`disk`, `known` and `wire` are the font files, the daemon's lists and its messages on their
way, in order; `list` the model's items with the files, the fonts shown as enabled (`lit`) and
the families' status and counts (`stats`), which the code caches and updates at some changes
only; `slow` and `held` the slowed updates with their bins by kind and folder.

| code | module |
|---|---|
| `CFontList::load`, `dbusServiceOwnerChanged` | `LoadBody`, `Reload`, `OwnerChanges` |
| `fontsAdded`, `fontsRemoved`, `fontList` | `Deliver` with `Heard`, `Received`, `FontsReceived`, `AddFonts`, `RemoveFonts` |
| `setSlowUpdates`, `storeSlowedMessage`, `actionSlowedUpdates` | `JobStarts`, `JobConfigures`, `StoreSlowedMessage`, `Replay`, `ReplayAll` |
| `CFontItem::refresh`, `CFamilyItem::updateStatus`, `refresh` | `Enabled`, `Status`, `FamilyStats`, `Refresh` |
| the daemon's methods, as broadcasts | `Install`, `Uninstall`, `Toggle`, `Rescan`, `Answer`, `AnswerOther`, `Crash`, `Register` |

A message is received folder by folder (`Heard`): the answer to `list()` has a part for every
folder it asked about, empty or not, a broadcast only the part of its own folder; what is held is
replayed early only for a folder whose part has come (`FontList.cpp:767-777`).

`missed` holds what the daemon found or lost without a broadcast: `updateFontList(false)`, in
an answer to another client's `list()`, tells nobody. `readded` holds what was removed and
then added while updates were slowed: all additions are replayed before all removals.

`FontGroups` adds the custom groups, their file and the page: `CreateGroup`, `RenameGroup`,
`RemoveGroup` (which save at once), `AddToGroup`, `RemoveFromGroup` (which only mark),
`SelectGroup` (the first selection removes families the list does not have), `AskToDelete`,
`JobBegins`, `JobGoesOn`, `JobEnds` and `ListComes` (which remove the deleted ones), and
`CloseAndOpen`, `KillAndOpen`, `OtherWrites` for the file. A save may fail to open, which is
seen, or at `finalize()`, which is not looked at (`lost`).

### 3.8 `KeyboardDaemon`: layouts by window, application or desktop

`xkb` is the server (list of layouts, group), `events` one queue of its events and the window
manager's, `stored` the settings file, `config` the daemon's copy, `layoutMap`,
`prevLayoutList` and `previousLayoutMapKey` the layout memory, `session` its saved form.

| code | module |
|---|---|
| `switchToNextLayout`, wheel, `setLayout`, spare layouts | `SwitchToNextLayout`, `ScrollLayouts`, `SetLayoutByName`, `SwitchToSpareLayout` |
| `LayoutMemory::layoutChanged`, `layoutMapChanged` | `LayoutChanged`, `LayoutMapChanged` |
| `windowChanged`, `desktopChanged`, `setCurrentLayoutFromMap` | `ContainerChanged`, `SetCurrentLayoutFromMap`, `FromMap`, `Default` |
| `configureKeyboard`, `registerListeners`, `configChanged` | `ConfigureKeyboard`, `Register` |
| constructor, destructor, `LayoutMemoryPersister` | `Start`, `Stop` |
| `X11Helper::setGroup`, `setxkbmap`, `LayoutUnit` lists | `SetGroup`, `SetXkbMap`, `SetLayout`, `Groups` (at most `MAX_GROUP_COUNT`) |

`setxkbmap` may fail or not be found (`xkb_helper.cpp:100-119`), and no caller of the daemon looks
at the result: every action that runs it chooses whether it works. When it does not, the list
that was remembered for a container is not there (`ListNotSet`), and that container's layouts are
no longer in `mine`. At the end of a session `Stop` writes the file, leaves the old one where it
cannot be opened, and removes it where the write fails (`layout_memory_persister.cpp:133-137`);
the last two differ only after two saved sessions, which the theorems cover and the run does not
reach.

The daemon knows where the user is from the events it has handled (`active`, `desk`), but asks
the server for the layouts *as they are when it handles an event*. `mine` records the layouts
the user last had in each place, as far as they are to be found again; `raced` that they were
changed while an event or a message that says where the user is, or which settings count, was
still waiting; `noticed` that the daemon has heard of the server's list since it was started.

### 3.9 Instances and proofs

`MCJobRunner`, `MCFontDaemon`, `MCFolderView`, `MCFontList`, `MCFontGroups`,
`MCKeyboardDaemon` give the constants values and hold the state constraints (section 4). The
proof modules are `JobRunnerProofs`, `ConversationProofs`, `OrderProofs`, `JournalProofs` (a
chain, each extends the one before), `FontDaemonProofs`, `FolderProofs`, `FontListProofs`
(with the groups) and `KeyboardProofs` (section 5).

## 4. Runs and bounds

| run | question | instance |
|---|---|---|
| `job_safe` | Was what counts as done acted on (`DoneWereActedOn`), sent in order and once (`SentInOrder`), configured in the end (`CompleteMeansConfigured`, `ClosedAfterReconfigure`); does each answer belong to the current item (`OneOutstanding`, `AnswersMatch`); are metrics handled with their font (`MetricsFollowFont`); is a stop final, does an error stay (`StoppedIsFinal`, `ErrorStays`); is the iterator in range (`NoOverrun`, `TypeOK`)? Does the dialog implement `FontJob` (`IsFontJob`)? | jobs of three kinds: a Type 1 font with both metrics in the wrong order and another font, beside another process that uninstalls, moves or reconfigures; two deletions, the move of a disabled font (which needs an enable action first), an update; downloads |
| `job_live` | Is the progress page always left (`Responds`)? | the plain jobs, one death, one failed start |
| `font_alone` | All methods without nesting: do changed folders stay marked until fc-cache ran (`UserChangesPending`, `SysChangesPending`), do the broadcasts keep a copy equal to the lists (`HeardFollows`), does a disabled font stay known (`DisabledStaysKnown`), `TypeOK` | one font, or a style with a hidden and a visible file; fontconfig may miss changes; a kill, a change from outside |
| `font_nested` | Two clients, methods and timers on top of one that waits: `NoExitUnderClient`, `UserHeardFollows` | install, move, reconfigure; three calls, two deep |
| `font_ends` | Does every method end (`EveryMethodEnds`), does the daemon quit (`QuitsWithoutClients`)? | all methods, both folders, two calls, two deep |
| `folder_view` | Are the maps inverse and complete (`MapsInverse`, `EveryRowPlaced`), is what is saved what is shown and what is restored (`SavedIsCurrent`, `SavedIsRestored`, `EventuallySaved`), does an item stay where it is (`KeepsPlace`), do the views hear of all rows (`ViewsMissNothing`), `TypeOK` | two items, one or both dragged, a view hidden or one or two cells wide, all changes of the view |
| `font_list` | Does the copy show what the daemon has (`ShowsWhatIsKnown`), do families agree with their fonts (`EnabledHasFile`, `StatsCurrent`), is nothing held too long (`HeldOnlyWhileSlow`), does an awaited list come (`EventuallyListed`)? | three files of one family (a font hidden or not, a style in the other folder), or two families in one folder |
| `groups` | Do installed families stay in their groups (`GroupsKeepInstalled`), is what is unmodified saved (`SavedUnlessModified`)? | a family of two fonts, two groups, saves that fail |
| `keyboard` | Who comes back finds the layouts last used there (`BackToTheSameLayout`); the daemon listens to what it needs (`ListensFollowPolicy`); `KeyboardTypeOK` | applications with a spare layout, desktops without; `setxkbmap` that may fail |
| `font_forgets` | *violated*: `HelperStoresDisabled` | enable, disable, reconfigure; two calls |
| `font_move_race` | *violated*: `MovedIsMarked` | install, move, reconfigure; two calls, two deep |
| `groups_checked` | *violated*: `CheckedGroupKeepsInstalled` | one file, one group |

**Why the bounds are enough.** *Dialog*: an answer can be mistaken for another with two
requests, so two jobs one after the other or two processes (`MaxExecs`, `MaxForeign`); Skip
needs a next item, the metrics four. The three kinds of job are not mixed within a behaviour
(`OneKind`), and each has bounds of its own (`KindBounds`): a death and nesting two deep for
plain jobs, another process for the Type 1 font, a shallow daemon for downloads, which nest
in the dialog already. *Daemon*: a nested method meets one that waits with depth two, and a
deeper stack repeats that relation pairwise; the marks and lists need one call that changes,
one that reconfigures or lists, and a third in between. `OneOrTwo` lets a second file, a kill
or a change from outside take the place of calls. *Folder view*: two items are the fewest that
can be moved onto each other, dragged together (`MaxDrag` 2), come in different rows and go at
once; the three `Sizes` let saved positions be applied when rows come to a view that has its
size, when the view gets a size, when it gets another one (where an item that no longer fits, or
one saved a position beyond the stripe, meets the others), and after a wait; `MaxCell` and
`MaxDrift` bound only how far free cells and the views' count may run away. `Small` follows drags
at the larger size, and maps that have parted from the rows at that size without drags: every
property but those about the views excuses them there. *Font list*: with `MaxSlowed` 1 one family
fills the bin and the second one held in the same folder overflows it; `Small` follows either the
two folders or the two families, the latter without deaths; two messages on the wire can come in
the wrong order for one file.
*Groups*: `Small` makes large either the groups and their file or the fonts, which touch each
other only through the set of installed families. *Keyboard*: `MaxTurns` 2 lets settings
change and a session be saved and restored; two events waiting are the fewest that can
overtake what is asked of the server; `Relevant` sends the user only where the policy looks, and to the desktop's own window or a panel
only before the first of the two turns.

**What the properties excuse.** Some of what the code gets wrong is excused by name in a property:
what it excuses is a behaviour of this code that has been looked at, and the property says what
still holds beside it. Such are jobs that are `late` and iterators in `overrun` (answers taken for
others); a move beside another process (`CompleteMeansConfigured`, which `font_move_race` shows);
a helper that refuses and marks `lost` with it; calls that wait in the nested loop (`font_alone`'s
properties); a `hung` daemon and timers that stay stopped; maps that have parted from the rows
(`broken`, `spoiled`) and saved positions that wait too long (`applying`); `Contested` cells;
files `readded` while updates were slowed, files `missed`; a save that was `lost`; layouts that
were `raced`. The entries of `PROJECT.json`'s `hazards` say in a note which of them a property
catches, which it only excuses, and which no property covers.

The folder view shows what small bounds hide: `ViewsMissNothing` had been stated with a
weaker exception, which two items never violate. Its proof did not go through, and four items
showed why: the maps can part from the rows so that they are empty for a folder that is not,
and the next insertion fills them for rows the views were never told of
(`positioner.cpp:393`). The property now excuses views whose maps have parted from the rows
(`spoiled`); its theorem holds for any number of items.

`BackToTheSameLayout` had been stated too strongly in the same way: its run has only settings
of different policies. Its proof showed two histories that the run cannot have, which instances
with other settings then confirmed: settings of the *same* policy with another list or another
number of spare layouts make `isExtraSubset` answer otherwise, so that what was remembered is
forgotten or set differently; and between the start and the first map event, a list that comes
back to the one from before the start is taken for no change (`layout_memory.cpp:127`), so that
what is in use is not remembered. `SaveConfig` and `LayoutMapChanged` now take both out of
`mine`; the theorem holds for any settings.

Deadlock is checked in `groups_checked` only. Elsewhere it is not: jobs, calls, changes and
turns are bounded, and the system really may stop (a dialog without a job, a hung daemon, a
daemon with its timers stopped, a folder nobody touches).

**Fairness.** `job_live`: the event loop of the module runs what is due (timers, the next
signal, the end of a download, which KIO bounds in time), the daemon takes and answers what
is on the bus, and D-Bus starts it. Nothing is assumed of the user, of death or of failure to
start. `font_ends`: the top method goes on when it can (`WF(MethodSteps)`); the job of each
waiting frame ends, answered or not (`WF(HelperRefuses)` for each frame, told by its distance
from the bottom of the stack: KAuth and D-Bus calls have time limits); a timer that has expired
stays due while methods run, hence strong fairness for the timer of the connections, which is
only looked at between methods. `QuitsWithoutClients` has an exception: calls about the system
folder stop both timers, and `removeFile`, `saveDisabled`, `statFont` and `fontListTimeout()`
do not start them all again, so that a daemon may stay for ever after them. `folder_view`: the
event loop delivers the queued save (`SF(Updates)`: `onMove` runs as one call and only keeps it
back), and that call ends (`WF(MoveNext)`). `font_list`: messages arrive, a started daemon gets
its name, and it answers a call although others keep the wire busy for a while (`SF(Answer)`).

**Findings.**

* `font_forgets`: disabling or enabling a style replaces its files by those renamed in this
  call, in the daemon and in the helper. A file of that style that was hidden already is
  dropped from both lists and, with the next save, from `disabledfonts.xml`; it stays on disk,
  hidden from fontconfig and from every list (`dbus/Helper.cpp:371`, against the comment at
  367).
* `font_move_race`: `move()` marks both folders before it waits for the helper; a
  `reconfigure()` handled meanwhile runs fc-cache too early and clears the marks
  (`dbus/FontInst.cpp:397`, comment at 398).
* `groups_checked`: a group that is selected before the list has come from the daemon loses its
  families, and with the next save its file does (`KCmFontInst.cpp:550`, comment at 542).
* Without a run of its own: the first layout list after the start of the keyboard daemon is
  compared with the one from before the daemon's own `setxkbmap`, so that what was restored
  from the session is forgotten once (`layout_memory.cpp:32`); `BackToTheSameLayout` excuses it
  and says so.

## 5. Proofs

The theorems hold for every value of the constants that the named assumptions allow:
`BoundsAssumption`, `JobsAssumption` (bounds are numbers, the update job is the empty one),
`StyleOfAssumption`, `FontDaemonAssumption` (the daemon's constants have their types),
`StripesAssumption`, `FolderAssumption` (items are numbered, stripes are natural numbers),
`FontListAssumption`, `GroupsAssumption` and `KeyboardAssumption` (the settings module saves
one of the four policies and a list that is not empty where it configures one; a normal window
is neither the desktop nor a panel). TLC evaluates all of them in the runs.

| theorem | property | the invariant behind it |
|---|---|---|
| `JobRunnerProofs.TypeCorrect` | `TypeOK` | `TypeOK` itself: lemmas about `AfterItem`, `DoNext`, `Proceed`, `Sorted`, `WithEnableActions` |
| `ConversationProofs.OneRequestOut` | `OneOutstanding` | `ConversationInv` |
| `ConversationProofs.AnswersForCurrentItem` | `AnswersMatch` | `ConversationInv` |
| `ConversationProofs.ConversationInvariant` | the invariant itself | `ConversationInv` |
| `OrderProofs.ClosingInvariant` | the invariant itself | `ClosingInv` |
| `OrderProofs.NoCloseBeforeReconfigure` | `ClosedAfterReconfigure` | `ClosingInv` |
| `OrderProofs.NothingAfterStop` | `StoppedIsFinal` | `ClosingInv` |
| `OrderProofs.OnlyUserLeavesError` | `ErrorStays` | `ClosingInv` |
| `OrderProofs.OrderInvariant` | the invariant itself | `OrderInv` |
| `OrderProofs.ItemsInOrder` | `SentInOrder` | `OrderInv` |
| `OrderProofs.OverrunNeedsDownload` | `NoOverrun` | `OrderInv` |
| `OrderProofs.MetricsNeedTheirFont` | `MetricsFollowFont`, at most two metrics of a name | `MetricsInv` |
| `JournalProofs.JournalInvariant` | the invariant itself | `JournalInv` |
| `JournalProofs.ActedInvariant` | the invariant itself | `ActedInv` |
| `JournalProofs.DoneIsActedOn` | `DoneWereActedOn` | `JournalInv`, `ActedInv` |
| `JournalProofs.ConfiguredInvariant` | the invariant itself | `ConfiguredInv` |
| `JournalProofs.CompleteIsConfigured` | `CompleteMeansConfigured` | `JournalInv`, `ConfiguredInv` |
| `JournalProofs.DialogIsFontJob` | `IsFontJob` | all of the above, step by step |
| `FontDaemonProofs.DaemonTypeCorrect` | `TypeOK` | `DaemonInv` |
| `FontDaemonProofs.StaysForClients` | `NoExitUnderClient` | `DaemonInv`, `RegisteredInv` |
| `FontDaemonProofs.ClientFollowsUserFolder` | `UserHeardFollows` | `WaitInv` |
| `FontDaemonProofs.SystemFontsStayKnown` | half of `DisabledStaysKnown`, nested or not | `WaitInv`, `KnownSys` |
| `FontDaemonProofs.ClientFollowsLists` | `HeardFollows`, `MaxDepth` at most 1 | `AloneInv` |
| `FontDaemonProofs.UserChangeStaysMarked` | `UserChangesPending`, `MaxDepth` at most 1 | `AloneInv` |
| `FontDaemonProofs.SystemChangeStaysMarked` | `SysChangesPending`, `MaxDepth` at most 1 | `AloneInv` |
| `FontDaemonProofs.DisabledFontsStayKnown` | `DisabledStaysKnown`, `MaxDepth` at most 1 | `AloneInv`, `KnownUser`, `KnownSys` |
| `FolderProofs.FolderTypeCorrect` | `TypeOK` | `FolderInv` |
| `FolderProofs.RowsHaveCells` | `EveryRowPlaced` | `FolderInv` |
| `FolderProofs.MapsAreInverse` | `MapsInverse` | `FolderInv` |
| `FolderProofs.SavedAsShown` | `SavedIsCurrent` | `FolderInv` |
| `FolderProofs.ViewsHearOfAllRows` | `ViewsMissNothing` | `FolderInv` |
| `FolderProofs.OthersKeepTheirPlace` | `KeepsPlace` | `FolderInv` |
| `FolderProofs.SavedPlacesAreRestored` | `SavedIsRestored` | `FolderInv` |
| `FontListProofs.ListInvariant` | the invariant itself | `ListInv` |
| `FontListProofs.ListIsFaithful` | `ShowsWhatIsKnown` | `ListInv` |
| `FontListProofs.HeldByJobsOnly` | `HeldOnlyWhileSlow` | `ListInv` |
| `FontListProofs.EnabledFontsHaveFiles` | `EnabledHasFile` | `ListInv` |
| `FontListProofs.FamiliesAreCurrent` | `StatsCurrent` | `ListInv` |
| `FontListProofs.UnmodifiedIsSaved` | `SavedUnlessModified` | `GroupsInv` |
| `FontListProofs.PageKeepsInstalled` | `GroupsKeepInstalled` | `ListInv` |
| `KeyboardProofs.KeyboardTypeCorrect` | `KeyboardTypeOK` | `KeyboardInv` |
| `KeyboardProofs.ListensToItsPolicy` | `ListensFollowPolicy` | `ListensInv` |
| `KeyboardProofs.ComesBackToLayout` | `BackToTheSameLayout` | `MemoryInv`, `KeyboardInv`, `ListensInv` |

### 5.1 The dialog (`JobRunnerProofs`, `ConversationProofs`, `OrderProofs`, `JournalProofs`)

That the dialog has one request out and that an answer belongs to the current item is not
inductive: a second request could be sent by a suspended `doNext()` or by a button.
`ConversationInv` adds that nothing is out while a download is suspended, before the first
`doNext()` and on the pages that ask (`NothingOut`), that at most one of these holds
(`OneDownload`), and that what is out or being downloaded is for the item `it` stands on
(`OutForCurrentItem`). The proof follows *tokens*: a request on the bus, in the daemon's hands
or turned into a signal. The steps of the daemon and of the bus move tokens injectively and
keep their request (`Moves`, one lemma per step), so they can break nothing (`MovesKeep`); the
dialog makes a token only where it holds none (`TurnKeeps`, `DoNextTurn`, `ProceedTurn`).

`ClosingInv` says that once the job is being configured, has failed, was cancelled or closed,
the iterator is at its end, so that no answer can move it again; and that what was done is
behind the iterator and has set `itsModified`, which is why the dialog configures before it
closes. `OrderInv` puts everything that was sent at the current item or before it, and a
suspended download on an item that was not sent yet. `MetricsInv` says of every metric that is
current, being downloaded or sent that a font of its name was installed before, if the list has
one: in the sorted list a font's metrics are right behind it (`FontsFirst`), so that the step to
one comes from a font that was installed, from another metric of the same name, or from
`AfterItem`, which passes over two (`AdvanceFounded`).

`JournalInv` says where a request can come from: what is on the bus, in the daemon's hands or
behind it (`acted`) was sent by this job for an item it dispatched, or by an earlier job or
another process. `ActedInv` adds that a status 0 on its way answers one the daemon has acted on,
and that the status the cancel page holds back does too (that page feeds it to `dbusStatus()` a
second time). `ConfiguredInv` adds that only the reconfiguration is out once it was asked for, and
that the daemon's note of the user's folder is there as long as a change of this job waits for
fc-cache (`Remembered`) and while a move of it waits for the helper (`WaitNoted`). For moves both
are claimed only when no other process uses the daemon: a reconfiguration of its own can clear the
note between the two.

`DialogIsFontJob` is the refinement: `Spec => FontJob!Spec` under the mapping of section 3.5.
Each action is matched with the abstract step it takes or shown to leave the abstract variables
alone; a job that is late may do anything `Muddle` allows. The refinement rests on the
invariants: that an item counted was acted on is `ActedInv`, that the next one handed over
is further down the list is `OrderInv`, that a closed job has configured is `ClosingInv`.

### 5.2 The daemon (`FontDaemonProofs`)

`DaemonInv` types the stack more closely than `TypeOK` (`GoodFrames`): the files in a frame are
of the frame's folder; only methods on system fonts wait for a toggle of the helper; a refresh
that has been put under a method goes on with a step the method has. Without this, an answer
of the helper could be filed in the wrong folder. `RegisteredInv` says that a method of a living
client either is one that registers nobody or has its client among the connections, while the
daemon runs; so the check of the connections, at whatever depth its timer fires, sees it.

`WaitInv` is about the nested event loop, at any depth: only the method on top may have nothing
to wait for; what a method has asked says at which step of which method it is (`FineFor`), so
that what goes on after an install or an uninstall is about the folder of the system; and a
method that has *not* waited since it looked at the lists has seen them as they are (`Seen`).
For each action a lemma says what it makes of the stack (`Onward` to a step, or `Done`), and the
proofs about the lists use only those. `ClientFollowsUserFolder` follows at any depth, because
what is done to the user's folder is done without waiting between the look and the change; the
one exception is a refresh that had to save the system's disabled fonts first
(`FontInst.cpp:625`). `SystemFontsStayKnown` adds `KnownSys`: a helper that has nothing to save
knows all that the file lists, so that a save never shortens it.

The rest is true of a daemon that does one thing at a time only, and four theorems say so in
their hypothesis, `MaxDepth <= 1`: a second method on top of one that waits can serve and clear
its mark (`font_move_race`), free the style it holds, or change the list between its look and its
broadcast. `AloneInv` says what a method finds after the helper's answer: the lists, its files
and its iterator as it left them; the timers stopped, so that nothing can make the daemon quit;
the marks that `move` and `uninstall` set beforehand, and for `install`, `toggle` and
`removeFile`, which mark afterwards, that they still will (`Pending`). `KnownUser` adds that
fontconfig sees no hidden file and that a list of the user's disabled fonts that is not dirty is
the file's.

### 5.3 The folder view (`FolderProofs`)

`FolderInv` is `Types`, `Fitting` (unless `broken`, the maps are inverse and cover the rows, or
are empty where the code leaves them so; `broken` implies `spoiled`), `SavedCells` (no two saved
entries share a cell and each lies in its stripe), `SavedIsCurrent` and `ViewsMissNothing`. One
lemma for each slot of the positioner shows what it makes of maps that fit; `SignalStep` puts
rows, maps, what the views were told and the save that becomes due together.

These proofs need facts about the data: that a first free cell exists, that `Arrangement` gives
each item a cell of its own, that removing rows renumbers the others and keeps them apart.
`SavedPlacesAreRestored` is about every step that applies saved positions (`Applies`: rows that
come to a view that has its size, a size that is set or changed, rows after a wait) and rests on
`CellsApart`: two entries whose positions lie within the stripe have different cells, so that only
an entry one position beyond the stripe can claim the cell of another (`Contested`), and none does
in the size the entries were saved for (`RestorableIsAlone`). The
algorithms are written with sets and functions, so they need no induction over a recursive
definition. Where induction is unavoidable (a sorted listing exists, a finite set of numbers has
a largest member), it is taken from well-foundedness of inclusion on finite sets
(`SmallestSet`): a smallest counterexample leads to a smaller one.

### 5.4 The font list and the groups (`FontListProofs`)

`ListInv` speaks of one file at a time: the last message on the wire that names it tells the
truth; when none does, what the list shows after replaying what is held is what the daemon has
(`NoSurplus`, `NoLack`, in `Faithful`). A change of the daemon's owner on the wire, or a call of
`list()`, excuses missing files, since a list will come; it never excuses a file too many, as
`fontList()` adds and does not clear. `ToldWords` and `SaidWords` say what a broadcast does to
"the last word" on a file, `ReplayedFiles` and `ReplayAllShows` what replaying does. `CopyOK`
carries the cached status: what is lit has a visible file, and the families' counts are those of
their fonts. `PageKeepsInstalled` follows: when nothing is on its way, a family that
the list lacks has no installed font the list should know of.

### 5.5 The keyboard (`KeyboardProofs`)

`KeyboardInv` is the type invariant with what makes it inductive: the server's list is not empty
and its group exists (modulo the wrap at four groups), and every container remembered holds a
layout of its own list, also in the saved session. `ListensInv` ties the listeners to the *stored*
policy, through the message that announces a change of it.

`MemoryInv` relates what the user last had in a place (`mine`) to the memory *and* to the events
that wait, since the daemon remembers only when it handles them. For each place (`Kept`): the
layout is one the server can be asked for by name; where the daemon takes the user to be
(`Here`), it is what the server has; it is in the memory (`Recorded`), or the place is `Here`
and an event will make the daemon remember it before it hears of another place (`ToRecord`,
`Due`); and if the daemon is still to forget everything (`Forgets`), a layout event comes after
the map event that makes it do so (`MapThenLayout`). A list the daemon has not heard of always
has its map event on the way (`ListIsNews`). `Told` says which events a change of the server
sends, for `setGroup`, `setxkbmap`, `setLayout` and what is built from them; `FromMapSets` says
that setting what was remembered gives what was remembered; one lemma for each kind of step
(`ChangedKeeps`, `LayoutKeeps`, `MapKeeps`, `ContainerKeeps`, `UserKeeps`) carries `Kept` over it.

### 5.6 Only model-checked, or with a hypothesis

* Liveness under fairness is out of the prover's reach: `Responds`, `EveryMethodEnds`,
  `QuitsWithoutClients`, `EventuallySaved`, `EventuallyListed`.
* `MetricsFollowFont` is not true of every list of items: `AfterMetrics` passes over at most two
  metrics of a font's name, as the code does (`JobRunner.cpp:555`), and names are compared without
  their folder, so that a list of files from several folders may have a third one, which is then
  sent although its font was refused. The theorem says so in its hypothesis (`TwoMetrics`), which
  the jobs of the run meet.
* `UserChangesPending`, `SysChangesPending`, `HeardFollows` and `DisabledStaysKnown` hold only
  while nothing is nested: their theorems say so, and so does their run (`font_alone`).

## 6. Not modelled

`PROJECT.json` has the reason for each part. In short:

* **Font daemon**: metrics (AFM, PFM) follow their font and are not represented; the daemon run
  by root (`isSystem`) is left out.
* **Blocking client of the KIO worker**: it matches answers by process id as the dialog does;
  that conversation is modelled with the dialog, the rest is file listing.
* **Font list**: views, sorting, previews, drags and filters; the duplicates dialog and printing.
* **Folder model**: selection, pictures, menus and file operations; **konq operations** are a copy
  of libkonq.
* **Keyboard daemon**: icon, shortcuts, announcements, models and options, the unloading of the
  module; the configuration pages and the parsers of the rules.
* **Other applets and settings modules**: user interface, drawing, load-and-save pages and
  vendored tables, or mirrors of another process' state with no protocol of their own. The grid
  of applets, the favourites and the accessibility daemon keep state and are candidates for later
  modules.

In the parts that are modelled, Escape in the dialog, wording, progress bars and the order
`qSort` gives equal items (any is allowed) are left out.
