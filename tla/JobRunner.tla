----------------------------- MODULE JobRunner -----------------------------
(***************************************************************************)
(* CJobRunner (kcms/kfontinst/kcmfontinst/JobRunner.cpp): the modal dialog *)
(* that carries out a list of font operations.  It sends the daemon one    *)
(* request, waits for a status signal that bears its process id, moves on  *)
(* to the next item, and finally has the font configuration rebuilt.  The  *)
(* answers are applied to whatever item the iterator itsIt stands on.      *)
(*                                                                         *)
(* CKCmFontInst::doCmd makes a new dialog for every job, all of them in    *)
(* one process: a status that was still on its way when a dialog closed    *)
(* reaches the dialog of the next job.                                     *)
(***************************************************************************)
EXTENDS FontBackend, FiniteSets, Functions

CONSTANTS
    Jobs,      \* the jobs the user can start: command, items, destination
    MaxExecs   \* bound: jobs started

Cmds == {"INSTALL", "DELETE", "ENABLE", "DISABLE", "MOVE", "REMOVE_FILE", "UPDATE"}

\* CJobRunner::Item::EType, in the order the enumeration gives them.
TYPE1_FONT == 0
TYPE1_AFM == 1
TYPE1_PFM == 2
OTHER_FONT == 3

\* "name" ranks fileName; "folder": where a font is that is not to be installed;
\* "remote": the url has to be downloaded; "marker": the entry "--" that enables
\* a font before it is moved.
Items == [name : Nat, type : TYPE1_FONT..OTHER_FONT, folder : Folders, isDisabled : BOOLEAN,
          remote : BOOLEAN, marker : BOOLEAN]

ASSUME JobsAssumption ==
    /\ Jobs \subseteq [cmd : Cmds, items : Seq(Items), dest : Folders]
    /\ \A j \in Jobs : j.cmd = "UPDATE" <=> j.items = <<>>
    /\ MaxExecs \in Nat \ {0}

VARIABLES
    cmd, urls, it, prev, destIsSystem,
    autoSkip, cancelClicked, isModified, lastStatus,
    page,          \* itsStack->currentIndex()
    open,          \* the dialog is shown, its exec() has not been ended
    downloads,     \* doNext() frames suspended in NetAccess::download, by item
    doNextDue, checkDue,  \* the two single-shot timers of exec()
    dontShow,      \* the "Do not show this message again" setting
    job,           \* jobs started so far
    late,          \* history: this job began with an earlier one's leftovers
    overrun,       \* history: was the iterator read at its end, and with what outcome?
    dispatched,    \* history: items of this job sent to the daemon, in order
    done,          \* history: items of this job counted as done
    stopped        \* history: the user cancelled the rest of this job

dialogVars == <<cmd, urls, it, prev, destIsSystem, autoSkip, cancelClicked, isModified,
                lastStatus, page, open, downloads, doNextDue, checkDue, dontShow>>
historyVars == <<job, late, overrun, dispatched, done, stopped>>
vars == <<backendVars, dialogVars, historyVars>>

Pages == {"PROGRESS", "SKIP", "ERROR", "CANCEL", "COMPLETE"}
NoStatus == "none"
DownloadFailed == "downloadFailed"

\* itsEnd
End == Len(urls) + 1

\* The dialog object exists until exec() has returned, which it cannot do
\* before the event loops nested in it have.
Exists == open \/ downloads # <<>>

-----------------------------------------------------------------------------
(* The item lists exec() makes of its argument.                            *)

(* Item::operator<                                                         *)
Less(a, b) == a.name < b.name \/ (a.name = b.name /\ a.type < b.type)

(* qSort: any ordered arrangement, the sort is not stable.                 *)
Sorted(items) ==
    {t \in {[k \in DOMAIN items |-> items[p[k]]] : p \in Bijection(DOMAIN items, DOMAIN items)} :
       \A k, l \in DOMAIN items : k < l => ~Less(t[l], t[k])}

(* addEnableActions: an entry "--" goes before each disabled font.         *)
Marker(item) == [item EXCEPT !.marker = TRUE]
WithEnableActions(items) ==
    LET size == Len(items) + Cardinality({k \in DOMAIN items : items[k].isDisabled})
    IN  {t \in [1..size -> Range(items) \cup {Marker(i) : i \in Range(items)}] :
           /\ SelectSeq(t, LAMBDA i : ~i.marker) = items
           /\ \A k \in 1..size : t[k].marker =>
                /\ k < size
                /\ t[k + 1].isDisabled /\ ~t[k + 1].marker
                /\ t[k] = Marker(t[k + 1])}

ItemLists(j) ==
    CASE j.cmd = "INSTALL" -> Sorted(j.items)
      [] j.cmd = "MOVE" -> WithEnableActions(j.items)
      [] OTHER -> {j.items}

(* The metrics that follow the Type 1 font at i belong to it; its AFM and  *)
(* its PFM are passed over together with it.                               *)
IsMetricOf(k, i) ==
    /\ k \in DOMAIN urls
    /\ urls[k].name = urls[i].name
    /\ urls[k].type \in {TYPE1_AFM, TYPE1_PFM}
AfterMetrics(i) ==
    IF ~IsMetricOf(i + 1, i) THEN i + 1
    ELSE IF ~IsMetricOf(i + 2, i) THEN i + 2 ELSE i + 3
AfterItem(i) == IF urls[i].type = TYPE1_FONT THEN AfterMetrics(i) ELSE i + 1

-----------------------------------------------------------------------------
Method(i) ==
    CASE cmd = "INSTALL" -> "install"
      [] cmd = "DELETE" -> "uninstall"
      [] cmd = "ENABLE" -> "enable"
      [] cmd = "DISABLE" -> "disable"
      [] cmd = "REMOVE_FILE" -> "removeFile"
      [] OTHER -> IF urls[i].marker THEN "enable" ELSE "move"

(* Create an AFM if this is a PFM and the previous item was not its AFM.   *)
CreateAfm(i) ==
    /\ cmd = "INSTALL"
    /\ urls[i].type = TYPE1_PFM
    /\ (prev = End \/ urls[i].name # urls[prev].name \/ urls[prev].type # TYPE1_AFM)

\* Where it is to be done: the destination, or the folder decode() finds in the item.
Place(method, pos) ==
    IF method \in {"install", "move", "reconfigure"} THEN destIsSystem ELSE urls[pos].folder

\* What FontInst::install() will find in the file.
InstallsMetrics(method, pos) == method = "install" /\ urls[pos].type \in {TYPE1_AFM, TYPE1_PFM}

Request(method, pos, force, afm) ==
    [method |-> method, pid |-> "app", job |-> job, pos |-> pos,
     folder |-> Place(method, pos), metric |-> InstallsMetrics(method, pos),
     force |-> force, createAfm |-> afm]

SendItem(i, afm) ==
    /\ Send(Request(Method(i), i, FALSE, afm))
    /\ dispatched' = Append(dispatched, i)

\* if(PAGE_ERROR!=itsStack->currentIndex()) reject()
AlwaysCloses(pg) == FALSE
KeepsOpen(pg) == pg = "ERROR"

\* if(itsModified)
UpdateOnly(m) == cmd = "UPDATE"
NeedsReconfigure(m) == m

(* doNext(), entered with itsIt = i, itsModified = m and page pg.  "frames" *)
(* are the suspended doNext() calls that remain: fewer than "downloads"    *)
(* when it is called from one that resumes, which ends with itsPrev=itsIt. *)
Resumed(frames) == frames # downloads

DoNext(i, m, pg, frames) ==
    /\ it' = i
    /\ isModified' = m
    /\ page' = pg
    /\ \/ /\ i = End /\ NeedsReconfigure(m)
          /\ Send(Request("reconfigure", 0, cmd = "UPDATE", FALSE))
          /\ cmd' = "UPDATE"
          /\ prev' = IF Resumed(frames) THEN End ELSE prev
          /\ downloads' = frames
          /\ UNCHANGED <<open, dispatched>>
       \/ /\ i = End /\ ~NeedsReconfigure(m)
          /\ open' = (open /\ KeepsOpen(pg))
          /\ prev' = IF Resumed(frames) THEN End ELSE prev
          /\ downloads' = frames
          /\ UNCHANGED <<requests, cmd, dispatched>>
       \/ /\ i # End
          /\ cmd = "INSTALL" /\ urls[i].remote
          /\ downloads' = Append(frames, i)
          /\ UNCHANGED <<requests, cmd, prev, open, dispatched>>
       \/ /\ i # End
          /\ ~(cmd = "INSTALL" /\ urls[i].remote)
          /\ SendItem(i, CreateAfm(i))
          /\ prev' = i
          /\ downloads' = frames
          /\ UNCHANGED <<cmd, open>>

\* contineuToNext(false), a dead daemon, one that did not start.
AbandonQuietly == it' = End /\ UNCHANGED page
AbandonPastEnd == it' = End + 1 /\ page' = "ERROR"
Abandon == it' = End /\ page' = "ERROR"

\* contineuToNext(true) stands on this item afterwards.
AdvanceByOne(i) == i + 1
Advance(i) == IF cmd = "INSTALL" THEN AfterItem(i) ELSE i + 1

\* ++itsIt after a status 0
SameItem(i) == i
NextItem(i) == i + 1

\* 0==status
AnyAnswer(result) == TRUE
Succeeded(result) == result = "ok"

(* dbusStatus() from the test of itsIt on, with itsIt = i and page pg.     *)
Proceed(result, i, pg, frames) ==
    \/ /\ i = End
       /\ DoNext(End, isModified, pg, frames)
       /\ UNCHANGED done
    \/ /\ i # End /\ Succeeded(result)
       /\ DoNext(NextItem(i), TRUE, pg, frames)
       /\ done' = done \cup {i}
    \/ /\ i # End /\ ~Succeeded(result)
       /\ autoSkip /\ Len(urls) > 1
       /\ DoNext(Advance(i), isModified, pg, frames)
       /\ UNCHANGED done
    \/ /\ i # End /\ ~Succeeded(result)
       /\ ~(autoSkip /\ Len(urls) > 1)
       /\ AfterItem(i) = End
       /\ DoNext(End, isModified, "ERROR", frames)
       /\ UNCHANGED done
    \/ /\ i # End /\ ~Succeeded(result)
       /\ ~(autoSkip /\ Len(urls) > 1)
       /\ AfterItem(i) # End
       /\ it' = i /\ page' = "SKIP"
       /\ prev' = IF Resumed(frames) THEN i ELSE prev
       /\ downloads' = frames
       /\ UNCHANGED <<requests, cmd, isModified, open, dispatched, done>>

(* dbusStatus() for a status of this process.                              *)
DbusStatus(result, frames) ==
    \/ /\ cmd = "UPDATE"
       /\ \/ dontShow /\ open' = FALSE /\ UNCHANGED page
          \/ ~dontShow /\ page' = "COMPLETE" /\ UNCHANGED open
       /\ downloads' = frames
       /\ prev' = IF Resumed(frames) THEN it ELSE prev
       /\ UNCHANGED <<requests, cmd, it, isModified, lastStatus, dispatched, done>>
    \/ /\ cmd # "UPDATE" /\ cancelClicked
       /\ lastStatus' = result
       /\ page' = "CANCEL"
       /\ prev' = IF Resumed(frames) THEN it ELSE prev
       /\ downloads' = frames
       /\ UNCHANGED <<requests, cmd, it, isModified, open, dispatched, done>>
    \/ /\ cmd # "UPDATE" /\ ~cancelClicked
       /\ lastStatus' = result
       /\ Proceed(result, it, page, frames)

-----------------------------------------------------------------------------
InFlight ==
    \/ \E i \in DOMAIN requests : requests[i].pid = "app"
    \/ \E i \in DOMAIN handling : handling[i].pid = "app"
    \/ \E i \in DOMAIN signals : signals[i] = OwnerLost \/ signals[i].of.pid = "app"

\* pid==getpid()
AnyPid(s) == TRUE
Mine(s) == s.of.pid = "app"

Running == overrun # "crashed"

Init ==
    /\ BackendInit
    /\ cmd = "UPDATE" /\ urls = <<>> /\ it = 1 /\ prev = 1 /\ destIsSystem = "USER"
    /\ autoSkip = FALSE /\ cancelClicked = FALSE /\ isModified = FALSE
    /\ lastStatus = NoStatus /\ page = "PROGRESS" /\ open = FALSE
    /\ downloads = <<>> /\ doNextDue = FALSE /\ checkDue = FALSE
    /\ dontShow \in BOOLEAN
    /\ job = 0 /\ late = FALSE /\ overrun = "no" /\ dispatched = <<>> /\ done = {} /\ stopped = FALSE

(* doCmd(): a new dialog, and exec().                                      *)
Exec(j) ==
    /\ Running /\ ~Exists
    /\ job < MaxExecs
    /\ job' = job + 1
    /\ cmd' = j.cmd
    /\ urls' \in ItemLists(j)
    /\ it' = 1
    /\ prev' = Len(urls') + 1
    /\ destIsSystem' = j.dest
    /\ autoSkip' = FALSE /\ cancelClicked' = FALSE
    /\ isModified' = (j.cmd = "UPDATE")
    /\ lastStatus' = NoStatus
    /\ page' = "PROGRESS" /\ open' = TRUE
    /\ doNextDue' = TRUE /\ checkDue' = TRUE
    /\ late' = InFlight
    /\ overrun' = "no" /\ dispatched' = <<>> /\ done' = {} /\ stopped' = FALSE
    /\ UNCHANGED <<backendVars, downloads, dontShow>>

(* The 0 ms timer.                                                         *)
FirstDoNext ==
    /\ Running /\ Exists
    /\ doNextDue /\ doNextDue' = FALSE
    /\ DoNext(it, isModified, page, downloads)
    /\ UNCHANGED <<signals, daemonVars, boundVars, urls, destIsSystem, autoSkip,
                   cancelClicked, lastStatus, checkDue, dontShow, job, late, overrun, done,
                   stopped>>

(* The 5 s timer.                                                          *)
CheckInterface ==
    /\ Running /\ Exists
    /\ checkDue /\ ~doNextDue
    /\ checkDue' = FALSE
    /\ IF it = 1 /\ ~alive
       THEN Abandon
       ELSE UNCHANGED <<page, it>>
    /\ UNCHANGED <<backendVars, historyVars, cmd, urls, prev, destIsSystem, autoSkip,
                   cancelClicked, isModified, lastStatus, open, downloads, doNextDue,
                   dontShow>>

(* dbusServiceOwnerChanged(): the daemon's name lost its owner.            *)
ServiceOwnerChanged ==
    /\ Running /\ Exists
    /\ signals # <<>> /\ Head(signals) = OwnerLost
    /\ signals' = Tail(signals)
    /\ IF it # End
       THEN Abandon
       ELSE UNCHANGED <<page, it>>
    /\ UNCHANGED <<requests, daemonVars, boundVars, historyVars, cmd, urls, prev,
                   destIsSystem, autoSkip, cancelClicked, isModified, lastStatus, open,
                   downloads, doNextDue, checkDue, dontShow>>

Status(s) ==
    /\ Running /\ Exists
    /\ Mine(s)
    /\ signals' = Tail(signals)
    /\ DbusStatus(s.result, downloads)
    /\ UNCHANGED <<daemonVars, boundVars, urls, destIsSystem, autoSkip, cancelClicked,
                   doNextDue, checkDue, dontShow, job, late, overrun, stopped>>

(* A signal for another process, or one that no dialog is there to hear.   *)
Ignore(s) ==
    /\ ~(Running /\ Exists) \/ (s # OwnerLost /\ ~Mine(s))
    /\ signals' = Tail(signals)
    /\ UNCHANGED <<requests, daemonVars, boundVars, dialogVars, historyVars>>

ReceiveStatus == signals # <<>> /\ Head(signals) # OwnerLost /\ Status(Head(signals))
IgnoreSignal == signals # <<>> /\ Ignore(Head(signals))

-----------------------------------------------------------------------------
(* NetAccess::download() returns to the doNext() frame that called it.     *)
Frame == downloads[Len(downloads)]
OtherFrames == SubSeq(downloads, 1, Len(downloads) - 1)

(* The file is there: it is installed.  The rest of doNext() looks at      *)
(* *itsIt, which the nested event loop may have moved to itsEnd.           *)
DownloadDone ==
    /\ Running /\ downloads # <<>>
    /\ downloads' = OtherFrames
    /\ \/ /\ it # End
          /\ SendItem(Frame, CreateAfm(it))
          /\ UNCHANGED overrun
       \/ /\ it = End
          /\ \E afm \in BOOLEAN : SendItem(Frame, afm)
          /\ overrun' \in {"survived", "crashed"}
    /\ prev' = it
    /\ UNCHANGED <<signals, daemonVars, boundVars, cmd, urls, it, destIsSystem, autoSkip,
                   cancelClicked, isModified, lastStatus, page, open, doNextDue, checkDue,
                   dontShow, job, late, done, stopped>>

(* There is no file: doNext() calls dbusStatus(constDownloadFailed), then  *)
(* reads *itsIt for its label, wherever that call has moved itsIt.         *)
DownloadFails ==
    /\ Running /\ downloads # <<>>
    /\ DbusStatus(DownloadFailed, OtherFrames)
    /\ overrun' \in IF it' = End THEN {"survived", "crashed"} ELSE {overrun}
    /\ UNCHANGED <<signals, daemonVars, boundVars, urls, destIsSystem, autoSkip,
                   cancelClicked, doNextDue, checkDue, dontShow, job, late, stopped>>

-----------------------------------------------------------------------------
(* slotButtonClicked(), by page; closing the window counts as Cancel on    *)
(* every page but the last (closeEvent).                                   *)
userFrame == <<daemonVars, boundVars, signals, urls, destIsSystem, doNextDue, checkDue,
               job, late>>

ProgressCancel ==
    /\ Running /\ open
    /\ page = "PROGRESS" /\ it # End
    /\ cancelClicked' = TRUE
    /\ UNCHANGED <<userFrame, requests, cmd, it, prev, autoSkip, isModified, lastStatus,
                   page, open, downloads, dontShow, overrun, dispatched, done, stopped>>

\* Skip and AutoSkip: contineuToNext(true).
Skip(auto) ==
    /\ Running /\ open
    /\ page = "SKIP"
    /\ autoSkip' = (autoSkip \/ auto)
    /\ \/ /\ it # End
          /\ DoNext(Advance(it), isModified, "PROGRESS", downloads)
          /\ UNCHANGED overrun
       \/ /\ it = End
          /\ overrun' = "crashed"
          /\ UNCHANGED <<requests, cmd, it, prev, isModified, page, open, downloads,
                         dispatched>>
    /\ UNCHANGED <<userFrame, cancelClicked, lastStatus, dontShow, done, stopped>>

\* Cancel: contineuToNext(false).
SkipCancel ==
    /\ Running /\ open
    /\ page = "SKIP"
    /\ DoNext(End, isModified, "PROGRESS", downloads)
    /\ stopped' = TRUE
    /\ UNCHANGED <<userFrame, autoSkip, cancelClicked, lastStatus, dontShow, overrun, done>>

\* "Are you sure you wish to cancel?": dbusStatus() once more with the last status.
AlwaysResume(yes) == it
ResumeAt(yes) == IF yes THEN End ELSE it

ConfirmCancel(yes) ==
    /\ Running /\ open
    /\ page = "CANCEL"
    /\ cancelClicked' = FALSE
    /\ stopped' = (stopped \/ yes)
    /\ \/ /\ cmd # "UPDATE"
          /\ Proceed(lastStatus, ResumeAt(yes), "PROGRESS", downloads)
       \/ /\ cmd = "UPDATE"
          /\ it' = ResumeAt(yes)
          /\ page' = IF dontShow THEN "PROGRESS" ELSE "COMPLETE"
          /\ open' = ~dontShow
          /\ UNCHANGED <<requests, cmd, prev, isModified, downloads, dispatched, done>>
    /\ UNCHANGED <<userFrame, autoSkip, lastStatus, dontShow, overrun>>

CloseError ==
    /\ Running /\ open
    /\ page = "ERROR"
    /\ open' = FALSE
    /\ UNCHANGED <<userFrame, requests, cmd, it, prev, autoSkip, cancelClicked, isModified,
                   lastStatus, page, downloads, dontShow, overrun, dispatched, done, stopped>>

CloseComplete ==
    /\ Running /\ open
    /\ page = "COMPLETE"
    /\ open' = FALSE
    /\ dontShow' \in {dontShow, TRUE}
    /\ UNCHANGED <<userFrame, requests, cmd, it, prev, autoSkip, cancelClicked, isModified,
                   lastStatus, page, downloads, overrun, dispatched, done, stopped>>

-----------------------------------------------------------------------------
UserNext ==
    \/ \E j \in Jobs : Exec(j)
    \/ ProgressCancel
    \/ \E auto \in BOOLEAN : Skip(auto)
    \/ SkipCancel
    \/ \E yes \in BOOLEAN : ConfirmCancel(yes)
    \/ CloseError
    \/ CloseComplete

\* What the event loop of the font module runs.
LoopNext ==
    \/ FirstDoNext
    \/ CheckInterface
    \/ ServiceOwnerChanged
    \/ ReceiveStatus
    \/ IgnoreSignal
    \/ DownloadDone
    \/ DownloadFails

Next ==
    \/ UserNext
    \/ LoopNext
    \/ BackendNext /\ UNCHANGED <<dialogVars, historyVars>>

(* The event loop runs, and the daemon answers what it has taken; nothing  *)
(* makes the user press a button.                                          *)
Fairness ==
    /\ WF_vars(FirstDoNext)
    /\ WF_vars(CheckInterface)
    /\ WF_vars(ServiceOwnerChanged \/ ReceiveStatus \/ IgnoreSignal)
    /\ WF_vars(DownloadDone \/ DownloadFails)
    /\ WF_vars(Take /\ UNCHANGED <<dialogVars, historyVars>>)
    /\ WF_vars(DaemonTurn /\ UNCHANGED <<dialogVars, historyVars>>)
    /\ WF_vars(Start /\ UNCHANGED <<dialogVars, historyVars>>)

Spec == Init /\ [][Next]_vars
FairSpec == Spec /\ Fairness

-----------------------------------------------------------------------------
DialogTypeOK ==
    /\ cmd \in Cmds
    /\ urls \in Seq(Items)
    /\ it \in 1..End /\ prev \in 1..End
    /\ destIsSystem \in Folders
    /\ autoSkip \in BOOLEAN /\ cancelClicked \in BOOLEAN /\ isModified \in BOOLEAN
    /\ lastStatus \in Results \cup {DownloadFailed, NoStatus}
    /\ page \in Pages
    /\ open \in BOOLEAN
    /\ downloads \in Seq(1..Len(urls))
    /\ doNextDue \in BOOLEAN /\ checkDue \in BOOLEAN /\ dontShow \in BOOLEAN

HistoryTypeOK ==
    /\ job \in 0..MaxExecs
    /\ late \in BOOLEAN
    /\ overrun \in {"no", "survived", "crashed"}
    /\ dispatched \in Seq(1..Len(urls))
    /\ done \subseteq 1..Len(urls)
    /\ stopped \in BOOLEAN

TypeOK == BackendTypeOK /\ DialogTypeOK /\ HistoryTypeOK

(* The dialog has at most one request out at any time, unless its job      *)
(* started with leftovers of an earlier one.                               *)
MineIn(q) == {k \in DOMAIN q : q[k].pid = "app"}
MySignals == {k \in DOMAIN signals : signals[k] # OwnerLost /\ signals[k].of.pid = "app"}
Tokens == ({"bus"} \X MineIn(requests)) \cup ({"daemon"} \X MineIn(handling))
              \cup ({"answer"} \X MySignals)
OneOutstanding ==
    ~late => \A a, b \in Tokens : a = b

(* A status names no request.  Unless a job started with leftovers of an   *)
(* earlier one, the status that dbusStatus() applies to *itsIt is the      *)
(* answer to the request that was sent for that very item.                 *)
AnswersMatch ==
    Exists /\ ~late /\ it # End =>
        \A k \in DOMAIN signals :
            signals[k] # OwnerLost /\ signals[k].of.pid = "app" =>
                signals[k].of.job = job /\ signals[k].of.pos = it

(* What makes the two hold: nothing is out while a file is downloaded,     *)
(* before the first doNext() and while the dialog asks its user; a request *)
(* and a suspended download belong to the item itsIt stands on.            *)
RequestOf(t) ==
    CASE t[1] = "bus" -> requests[t[2]]
      [] t[1] = "daemon" -> handling[t[2]]
      [] OTHER -> signals[t[2]].of
Asking == open /\ page \in {"SKIP", "CANCEL"}
NotStarted == Exists /\ doNextDue
NothingOut == (downloads # <<>> \/ Asking \/ NotStarted) => Tokens = {}
OneDownload ==
    /\ Len(downloads) <= 1
    /\ Asking \/ NotStarted => downloads = <<>>
    /\ ~(Asking /\ NotStarted)
OutForCurrentItem ==
    Exists /\ it # End =>
        /\ \A t \in Tokens : RequestOf(t).job = job /\ RequestOf(t).pos = it
        /\ \A k \in DOMAIN downloads : downloads[k] = it
ConversationInv ==
    ~late => OneOutstanding /\ NothingOut /\ OneDownload /\ OutForCurrentItem

(* An item the dialog counts as done (++itsIt on status 0) was acted on by *)
(* the daemon, whatever the user cancelled, skipped or resumed: done, if   *)
(* it concerns the user's folder; for the system's fonts and for moves no  *)
(* more than asked of the helper, whose refusal performAction() answers    *)
(* with 0 as well.                                                         *)
DoneWereActedOn ==
    ~late => \A i \in done :
                \E r \in acted : r.pid = "app" /\ r.job = job /\ r.pos = i

(* The items of a job are sent in the order of the list, none of them      *)
(* twice: not by the cancel page, which feeds the last status to           *)
(* dbusStatus() a second time, and not by Skip.                            *)
SentInOrder ==
    ~late => \A k, l \in DOMAIN dispatched : k < l => dispatched[k] < dispatched[l]

(* Metrics of a Type 1 font are sent only after the font itself was        *)
(* installed; if it was refused they are passed over.                      *)
MetricsFollowFont ==
    cmd = "INSTALL" /\ ~late =>
        \A k \in DOMAIN dispatched :
            LET p == dispatched[k]
                fonts == {f \in DOMAIN urls : urls[f].type = TYPE1_FONT
                                              /\ urls[f].name = urls[p].name}
            IN  urls[p].type \in {TYPE1_AFM, TYPE1_PFM} /\ fonts # {} => fonts \cap done # {}

(* itsIt is read or moved at itsEnd only when a download was under way or  *)
(* the job started with leftovers of an earlier one.                       *)
NoOverrun ==
    overrun # "no" => late \/ \E i \in DOMAIN urls : urls[i].remote

(* When the dialog says it has finished, fc-cache has run after every      *)
(* change this job made to the user's fonts, if the daemon did not die:    *)
(* whatever other processes install, move or have reconfigured meanwhile.  *)
(* The exception is a move while another process uses the daemon, whose    *)
(* reconfiguration may clear the note move() has made before it waits (run *)
(* font_move_race).                                                        *)
CompleteMeansConfigured ==
    open /\ page = "COMPLETE" /\ ~late /\ deaths = 0 =>
        \A r \in unconfigured :
            ~(r.pid = "app" /\ r.job = job /\ (r.method = "move" => foreign = 0))

(* A dialog that has counted an item as done does not close before it has  *)
(* asked for a reconfiguration, however it is closed.                      *)
ClosedAfterReconfigure ==
    ~Exists /\ Running /\ done # {} /\ deaths = 0 => cmd = "UPDATE"

(* After the user has cancelled, or once an error page is shown because    *)
(* the daemon did not start or is gone, the job sends no further item,     *)
(* whatever answers are still to come; only a file that was being          *)
(* downloaded may follow.                                                  *)
StoppedIsFinal ==
    [][job' = job /\ Exists /\ (stopped \/ page = "ERROR") =>
         dispatched' = dispatched \/ downloads # <<>>]_vars

(* An error page is left by the user's choice alone, unless fonts had been *)
(* changed before the error (the reconfiguration then replaces the page)   *)
(* or the user had already pressed Cancel.                                 *)
ErrorStays ==
    [][open /\ page = "ERROR" /\ ~isModified /\ ~cancelClicked /\ (page' # "ERROR" \/ ~open')
         => page' = "ERROR" /\ UNCHANGED <<signals, downloads>>]_vars

(* The progress page does not stay for ever: the dialog finishes, closes,  *)
(* or asks the user.  The exception is a reconfiguration whose request or  *)
(* answer was lost, which no timer and no signal handler looks for.        *)
ReconfigureLost ==
    /\ cmd = "UPDATE" /\ ~doNextDue
    /\ ~InFlight
Responds ==
    (Running /\ open /\ page = "PROGRESS")
        ~> (~Running \/ ~open \/ page # "PROGRESS" \/ ReconfigureLost)

(* The dialog is a font job as FontJob specifies it: what the user is      *)
(* promised holds whatever the daemon, the bus and the user do.            *)
ActedOn == {r.pos : r \in {a \in acted : a.pid = "app" /\ a.job = job}}
Stage ==
    IF ~Exists THEN "closed" ELSE IF cmd = "UPDATE" THEN "configuring" ELSE "working"

FontJob == INSTANCE FontJob WITH
    items <- Len(urls), muddled <- late, handed <- dispatched, acted <- ActedOn, stage <- Stage,
    died <- deaths > 0
IsFontJob == FontJob!Spec
=============================================================================
