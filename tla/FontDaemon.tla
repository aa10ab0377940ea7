---------------------------- MODULE FontDaemon ----------------------------
(***************************************************************************)
(* The session's font daemon (dbus/FontInst.cpp, dbus/Folder.cpp): its      *)
(* lists of fonts, the D-Bus methods that change them, its two timers, and  *)
(* the nested event loop in which it waits for the privileged helper        *)
(* (performAction).  While a method waits there, other methods and timers   *)
(* run on top of it, so the state is a stack of methods; only the top one   *)
(* can go on.  Each action below is the code of a method between two points *)
(* where it may wait.                                                       *)
(***************************************************************************)
EXTENDS FontHelper, Sequences

CONSTANTS
    Clients,    \* process ids of the clients
    Watcher,    \* the client whose copy of the lists is followed
    Methods,    \* the methods clients call in this instance,
    CallDirs,   \* the folders they call them about,
    Initial,    \* and the sets of files there may be at the beginning
    FcReliable, \* FcConfigUptoDate() notices every change
    MaxCalls,   \* bound: calls made by clients
    MaxDepth,   \* bound: methods on the stack
    MaxOutside, \* bound: files added or removed by other programs
    MaxKills    \* bound: deaths of the daemon

ASSUME FontDaemonAssumption ==
    /\ Names # {}
    /\ Watcher \in Clients
    /\ FcReliable \in BOOLEAN
    /\ CallDirs \subseteq Dir
    /\ \A files \in Initial : files \subseteq File
    /\ {MaxCalls, MaxDepth, MaxOutside, MaxKills} \subseteq Nat

Toggles == {"enable", "disable"}
Finders == {"uninstall", "move", "removeFile"} \cup Toggles
FontMethods == Finders \cup {"install", "uninstallByName", "statFont"}

VARIABLES
    fonts,          \* fonts[d]: theFolders[d].itsFonts
    dirty,          \* folders whose itsDisabledCfg.dirty is set
    modified,       \* folders with itsModifiedDirs not empty
    cache,          \* the files fontconfig saw when it was last initialised
    connections,    \* itsConnections
    timers,         \* the running ones of {"connections", "fontList"}
    stack,          \* methods being executed, the innermost first
    process,        \* "running", "exiting" (qApp->exit() called), "hung" or "gone"
    alive,          \* clients that run
    heard,          \* the watcher's copy: its list() reply and the broadcasts since
    behind,         \* history: the lists changed without a broadcast, or the
                    \* watcher waits for them
    lost,           \* history: folders whose modified mark was dropped unserved
    used            \* what the bounds count

lists == <<fonts, dirty, modified, cache>>
environment == <<alive, used>>
vars == <<helperVars, lists, connections, timers, stack, process, heard, behind, lost, environment>>

AllTimers == {"connections", "fontList"}
Empty == [d \in Dir |-> {}]
Steps == {"update", "rebuild", "find", "refind", "body", "after", "store", "stored",
          "configure", "reply"}

Frames == [op : FontMethods \cup {"list", "reconfigure", "saveDisabled", "fontListTimeout"},
           pid : Clients, name : Names, dir : Dir, check : BOOLEAN,
           at : Steps, then : Steps,            \* the next step, and the one after a refresh
           asked : {"", "install", "uninstall", "move", "toggle", "removeFile",
                    "reconfigure", "saveDisabled"},
           answered : BOOLEAN,                  \* the job of performAction() has ended
           old : [Dir -> SUBSET File],          \* lists before the refresh
           files : SUBSET File, valid : BOOLEAN,\* the style found; its iterator still valid
           sysModified : BOOLEAN]

-----------------------------------------------------------------------------
(* The stack                                                               *)

Waits(m) == m.asked # "" /\ ~m.answered /\ process = "running"
Top == Head(stack)

\* The event loop runs: at rest, or nested in performAction().
LoopRuns == process = "running" /\ (stack # <<>> => Waits(Top))

At(step) == process \in {"running", "exiting"} /\ stack # <<>> /\ ~Waits(Top) /\ Top.at = step

BecomesAnd(m, rest) == stack' = <<[m EXCEPT !.asked = "", !.answered = FALSE]>> \o rest
Becomes(m) == BecomesAnd(m, Tail(stack))
GoTo(step) == Becomes([Top EXCEPT !.at = step])
Refresh(step) == Becomes([Top EXCEPT !.at = "update", !.then = step])

PerformAction(m, method) ==
    /\ stack' = <<[m EXCEPT !.asked = method, !.answered = FALSE]>> \o Tail(stack)
    /\ timers' = {}

Returns == stack' = Tail(stack)
ReturnsAndRestarts == Returns /\ timers' = AllTimers

\* clearFonts(), or the removal of a style, frees what iterators below point to.
Freed(ms, d, s) ==
    [i \in DOMAIN ms |-> IF ms[i].dir = d /\ StyleOf[ms[i].name] = s
                         THEN [ms[i] EXCEPT !.valid = FALSE] ELSE ms[i]]
AllFreed(ms) == [i \in DOMAIN ms |-> [ms[i] EXCEPT !.valid = FALSE]]

OnlyAdditions(added, removed) == heard' = heard \cup added
Broadcast(added, removed) == heard' = (heard \cup added) \ removed

-----------------------------------------------------------------------------
(* Calls                                                                   *)

NewMethod(op, p, n, d, k, step, next) ==
    [op |-> op, pid |-> p, name |-> n, dir |-> d, check |-> k, at |-> step, then |-> next,
     asked |-> "", answered |-> FALSE, old |-> Empty, files |-> {}, valid |-> FALSE,
     sysModified |-> "sys" \in modified]

Spend(what) == used' = [used EXCEPT ![what] = @ + 1]

Dispatched(m) ==
    /\ LoopRuns
    /\ Len(stack) < MaxDepth
    /\ used.calls < MaxCalls
    /\ m.pid \in alive
    /\ m.op \in Methods
    /\ stack' = <<m>> \o stack
    /\ Spend("calls")
    /\ UNCHANGED <<helperVars, lists, timers, process, lost, alive>>

NotRegistered(op, p) == connections
Registered(op, p) == IF op = "uninstallByName" THEN connections ELSE connections \cup {p}

\* checkConfig asks for a refresh of the lists first.
CallFontMethod(op, p, n, d, k) ==
    /\ op \in FontMethods
    /\ LET body == IF op = "install" THEN "body" ELSE "find" IN
       IF op \in {"statFont", "uninstallByName"}
       THEN Dispatched(NewMethod(op, p, n, d, k, "find", "find"))
       ELSE Dispatched(NewMethod(op, p, n, d, k, IF k THEN "update" ELSE body, body))
    /\ connections' = Registered(op, p)
    /\ UNCHANGED <<heard, behind>>

NoName == CHOOSE n \in Names : TRUE        \* for methods that are not about a font

CallList(p) ==
    /\ Dispatched(NewMethod("list", p, NoName, "user", FALSE, "update", "reply"))
    /\ connections' = connections \cup {p}
    /\ IF p = Watcher THEN heard' = {} /\ behind' = TRUE ELSE UNCHANGED <<heard, behind>>

\* reconfigure() and saveDisabled() do not register the client.
CallReconfigure(p, force) ==
    /\ Dispatched(NewMethod("reconfigure", p, NoName, "user", force, "store", "reply"))
    /\ UNCHANGED <<connections, heard, behind>>

CallSaveDisabled(p) ==
    /\ Dispatched(NewMethod("saveDisabled", p, NoName, "user", FALSE, "store", "reply"))
    /\ UNCHANGED <<connections, heard, behind>>

-----------------------------------------------------------------------------
(* updateFontList()                                                        *)

Noticed == IF cache = Visible(disk) THEN {FALSE} ELSE IF FcReliable THEN {TRUE} ELSE BOOLEAN

NeedsRefresh(fcModified) ==
    fcModified \/ fonts["sys"] = {} \/ fonts["user"] = {} \/ dirty # {}

UpdateFontList ==
    /\ At("update")
    /\ \E fcModified \in Noticed :
        /\ cache' = IF fcModified THEN Visible(disk) ELSE cache
        /\ LET m == [Top EXCEPT !.at = "rebuild", !.old = fonts] IN
           \/ /\ ~NeedsRefresh(fcModified)
              /\ GoTo(Top.then)
              /\ UNCHANGED timers
           \/ /\ NeedsRefresh(fcModified)
              /\ "sys" \in dirty
              /\ PerformAction(m, "saveDisabled")
           \/ /\ NeedsRefresh(fcModified)
              /\ "sys" \notin dirty
              /\ Becomes(m)
              /\ UNCHANGED timers
    /\ UNCHANGED <<helperVars, fonts, dirty, modified, connections, process, heard, behind,
                   lost, environment>>

\* The rest of it: save, clear, load the disabled fonts, add what fontconfig lists.
UserSaved == IF "user" \in dirty THEN Hidden(fonts["user"]) ELSE cfg["user"]
ListedAnywhere(d) == (cache \cup cfg["sys"] \cup UserSaved) \cap disk
Listed(d) == (In(cache, d) \cap disk) \cup
             ((IF d = "user" THEN UserSaved ELSE cfg["sys"]) \cap disk)
All(lst) == lst["sys"] \cup lst["user"]

NotRewritten == cfg["user"] \cap disk
Rewritten == UserSaved \cap disk

RebuildLists ==
    /\ At("rebuild")
    /\ cfg' = [cfg EXCEPT !["user"] = Rewritten]
    /\ fonts' = [d \in Dir |-> Listed(d)]
    /\ dirty' = {}
    /\ IF Top.op = "list"
       THEN heard' = heard /\ behind' = (behind \/ fonts' # Top.old)
       ELSE Broadcast(All(fonts') \ All(Top.old), All(Top.old) \ All(fonts')) /\ behind' = behind
    /\ BecomesAnd([Top EXCEPT !.at = Top.then, !.old = Empty], AllFreed(Tail(stack)))
    /\ UNCHANGED <<disk, helper, unconfigured, modified, cache, connections, timers, process,
                   lost, environment>>

-----------------------------------------------------------------------------
(* findFont(): refreshes the lists once when the style is not there        *)

Found == OfStyle(fonts[Top.dir], StyleOf[Top.name])

RetryForEver == Refresh("find")
Retry == Refresh("refind")

FindFont ==
    /\ At("find") \/ At("refind")
    /\ \/ /\ Found # {}
          /\ Top.op \in Finders
          /\ Becomes([Top EXCEPT !.at = "body", !.files = Found, !.valid = TRUE])
          /\ UNCHANGED <<timers, connections>>
       \/ /\ Found # {}
          /\ Top.op = "uninstallByName"
          /\ Becomes([Top EXCEPT !.op = "uninstall", !.at = IF Top.check THEN "update" ELSE "find",
                                 !.then = "find"])
          /\ connections' = connections \cup {Top.pid}
          /\ UNCHANGED timers
       \/ /\ Found = {}
          /\ Top.at = "find"
          /\ Retry
          /\ UNCHANGED <<timers, connections>>
       \* statFont() answers either way; the others answer ERR_DOES_NOT_EXIST.
       \/ /\ \/ Found = {} /\ Top.at = "refind"
             \/ Found # {} /\ Top.op = "statFont"
          /\ IF Top.op \in {"statFont", "uninstallByName", "removeFile"}
             THEN Returns /\ UNCHANGED timers
             ELSE ReturnsAndRestarts
          /\ UNCHANGED connections
    /\ UNCHANGED <<helperVars, lists, process, heard, behind, lost, environment>>

-----------------------------------------------------------------------------
(* The methods, up to the helper and after it.  The answer of the helper is *)
(* not looked at: after performAction() the method always goes on.          *)

Unchecked == <<cache, connections, process, behind, lost, environment>>

\* install(): refused when the style is in a list or the file exists.
Installed == FileAt(Top.name, Top.dir, FALSE)
Refused ==
    \/ Installed \in disk
    \/ \E d \in Dir : OfStyle(fonts[d], StyleOf[Top.name]) # {}

AddedUnmarked(S) ==
    /\ fonts' = [fonts EXCEPT ![Top.dir] = @ \cup S]
    /\ modified' = modified
    /\ Broadcast(S, {})
AddedUntold(S) ==
    /\ fonts' = [fonts EXCEPT ![Top.dir] = @ \cup S]
    /\ modified' = modified \cup {Top.dir}
    /\ heard' = heard
Added(S) ==
    /\ fonts' = [fonts EXCEPT ![Top.dir] = @ \cup S]
    /\ modified' = modified \cup {Top.dir}
    /\ Broadcast(S, {})

Install ==
    /\ At("body") /\ Top.op = "install"
    /\ UNCHANGED <<Unchecked, dirty, cfg, helper>>
    /\ \/ \* not a font, already installed, or the copy fails
          /\ ReturnsAndRestarts
          /\ UNCHANGED <<disk, unconfigured, fonts, modified, heard>>
       \/ /\ ~Refused /\ Top.dir = "user"
          /\ disk' = disk \cup {Installed}
          /\ Changed({"user"})
          /\ Added({Installed})
          /\ ReturnsAndRestarts
       \/ /\ ~Refused /\ Top.dir = "sys"
          /\ PerformAction([Top EXCEPT !.at = "after"], "install")
          /\ UNCHANGED <<disk, unconfigured, fonts, modified, heard>>

InstallAfter ==
    /\ At("after") /\ Top.op = "install"
    /\ Added({Installed})
    /\ ReturnsAndRestarts
    /\ UNCHANGED <<Unchecked, dirty, helperVars>>

UninstallUser ==
    /\ At("body") /\ Top.op = "uninstall" /\ Top.dir = "user"
    /\ \E gone \in SUBSET Top.files :
        /\ Top.files \ disk \subseteq gone
        /\ disk' = disk \ gone
        /\ fonts' = [fonts EXCEPT !["user"] = @ \ gone]
        /\ LET touched == IF gone = {} THEN {} ELSE {"user"} IN
           Changed(touched) /\ modified' = modified \cup touched
        /\ dirty' = IF Hidden(gone) = {} THEN dirty ELSE dirty \cup {"user"}
        /\ Broadcast({}, gone)
        /\ stack' = IF gone = Top.files
                    THEN Freed(Tail(stack), "user", StyleOf[Top.name])
                    ELSE Tail(stack)
    /\ timers' = AllTimers
    /\ UNCHANGED <<Unchecked, cfg, helper>>

UninstallUnmarked ==
    /\ At("body") /\ Top.op = "uninstall" /\ Top.dir = "sys"
    /\ PerformAction([Top EXCEPT !.at = "after"], "uninstall")
    /\ UNCHANGED <<Unchecked, helperVars, fonts, dirty, modified, heard>>

UninstallSystem ==
    /\ At("body") /\ Top.op = "uninstall" /\ Top.dir = "sys"
    /\ modified' = modified \cup {"sys"}
    /\ PerformAction([Top EXCEPT !.at = "after"], "uninstall")
    /\ UNCHANGED <<Unchecked, helperVars, fonts, dirty, heard>>

UninstallAfter ==
    /\ At("after") /\ Top.op = "uninstall"
    /\ fonts' = [fonts EXCEPT !["sys"] = @ \ OfStyle(@, StyleOf[Top.name])]
    /\ dirty' = IF Hidden(Top.files) = {} THEN dirty ELSE dirty \cup {"sys"}
    /\ Broadcast({}, Top.files)
    /\ stack' = Freed(Tail(stack), "sys", StyleOf[Top.name])
    /\ timers' = AllTimers
    /\ UNCHANGED <<Unchecked, helperVars, modified>>

Move ==
    /\ At("body") /\ Top.op = "move"
    /\ modified' = Dir
    /\ PerformAction([Top EXCEPT !.at = "after"], "move")
    /\ UNCHANGED <<Unchecked, helperVars, fonts, dirty, heard>>

MoveAfter ==
    /\ At("after") /\ Top.op = "move"
    /\ Refresh("reply")
    /\ UNCHANGED <<Unchecked, helperVars, fonts, dirty, modified, heard, timers>>

\* toggle(): the style keeps the files that were renamed, and only those.
Enables == Top.op = "enable"

Toggled(kept) ==
    /\ fonts' = [fonts EXCEPT ![Top.dir] = kept]
    /\ dirty' = dirty \cup {Top.dir}
    /\ modified' = IF ToFlip(Top.files, Enables) = {} THEN modified ELSE modified \cup {Top.dir}
    /\ Broadcast(Flipped(Top.files, Enables), Top.files)
    /\ ReturnsAndRestarts

WithFlipped(d) == (fonts[d] \ OfStyle(fonts[d], StyleOf[Top.name])) \cup Flipped(Top.files, Enables)

ToggleUser ==
    /\ At("body") /\ Top.op \in Toggles /\ Top.dir = "user"
    /\ UNCHANGED <<Unchecked, cfg, helper>>
    /\ LET flips == ToFlip(Top.files, Enables) IN
       \/ /\ flips \subseteq disk
          /\ disk' = (disk \ flips) \cup Flipped(Top.files, Enables)
          /\ Changed(IF flips = {} THEN {} ELSE {"user"})
          /\ Toggled(WithFlipped("user"))
       \/ \* a rename fails: those done are undone
          /\ flips # {}
          /\ ReturnsAndRestarts
          /\ UNCHANGED <<disk, unconfigured, fonts, dirty, modified, heard>>

ToggleSystem ==
    /\ At("body") /\ Top.op \in Toggles /\ Top.dir = "sys"
    /\ PerformAction([Top EXCEPT !.at = "after"], "toggle")
    /\ UNCHANGED <<Unchecked, helperVars, fonts, dirty, modified, heard>>

ToggleAfter ==
    /\ At("after") /\ Top.op \in Toggles
    /\ Toggled(IF Top.valid THEN WithFlipped("sys") ELSE fonts["sys"])
    /\ UNCHANGED <<Unchecked, helperVars>>

\* removeFile() leaves the lists to the next refresh, and does not restart the timers.
RemoveFile ==
    /\ At("body") /\ Top.op = "removeFile"
    /\ UNCHANGED <<Unchecked, fonts, dirty, heard, cfg, helper>>
    /\ \/ /\ Top.dir = "user"
          /\ \E f \in In(disk, "user") :
                /\ f.name = Top.name
                /\ disk' = disk \ {f}
          /\ Changed({"user"})
          /\ modified' = modified \cup {"user"}
          /\ Returns
          /\ UNCHANGED timers
       \/ \* the file is not there or cannot be removed
          /\ Top.dir = "user"
          /\ Returns
          /\ UNCHANGED <<disk, unconfigured, modified, timers>>
       \/ /\ Top.dir = "sys"
          /\ PerformAction([Top EXCEPT !.at = "after"], "removeFile")
          /\ UNCHANGED <<disk, unconfigured, modified>>

RemoveFileAfter ==
    /\ At("after") /\ Top.op = "removeFile"
    /\ modified' = modified \cup {"sys"}
    /\ Returns
    /\ UNCHANGED <<Unchecked, helperVars, fonts, dirty, heard, timers>>

\* Undefined behaviour: fam and st of a style that was freed while the method
\* waited.  It may go on as above, or the process receives SIGSEGV: the handler
\* saves the list of disabled fonts and returns to the same instruction.
UsesFreed ==
    /\ At("after") /\ Top.op \in Toggles \cup {"uninstall"} /\ ~Top.valid
    /\ process' = "hung"
    /\ cfg' = [cfg EXCEPT !["user"] = UserSaved]
    /\ dirty' = dirty \ {"user"}
    /\ UNCHANGED <<disk, helper, unconfigured, fonts, modified, cache, connections, timers,
                   stack, heard, behind, lost, environment>>

-----------------------------------------------------------------------------
(* saveDisabled() and reconfigure()                                        *)

StoreDisabled ==
    /\ At("store")
    /\ IF "sys" \in dirty
       THEN PerformAction([Top EXCEPT !.at = "stored"], "saveDisabled")
       ELSE GoTo("stored") /\ UNCHANGED timers
    /\ UNCHANGED <<Unchecked, helperVars, fonts, dirty, modified, heard>>

\* The system list is marked clean whatever the helper did.  The list of the
\* user is dirty no more: saveDisabled() writes it last.
StoredDisabled ==
    /\ At("stored")
    /\ dirty' = dirty \ (IF Top.asked = "" THEN {"user"} ELSE Dir)
    /\ cfg' = [cfg EXCEPT !["user"] = UserSaved]
    /\ IF Top.op = "reconfigure" THEN GoTo("configure") ELSE Returns
    /\ UNCHANGED <<Unchecked, disk, helper, unconfigured, fonts, modified, heard, timers>>

\* Folder::configure() of the user's folder, then the helper's; whether the
\* system folder was modified has been read at the beginning.
Configure ==
    /\ At("configure")
    /\ IF Top.check \/ "user" \in modified
       THEN /\ modified' = modified \ {"user"}
            /\ unconfigured' = unconfigured \ {"user"}
            /\ lost' = lost \ {"user"}
       ELSE UNCHANGED <<modified, unconfigured, lost>>
    /\ IF Top.sysModified
       THEN PerformAction([Top EXCEPT !.at = "after"], "reconfigure")
       ELSE Refresh("reply") /\ timers' = AllTimers
    /\ UNCHANGED <<disk, cfg, helper, fonts, dirty, cache, connections, process, heard, behind,
                   environment>>

\* The mark is cleared for what was modified meanwhile as well.
ConfigureAfter ==
    /\ At("after") /\ Top.op = "reconfigure"
    /\ modified' = modified \ {"sys"}
    /\ lost' = IF "sys" \in unconfigured THEN lost \cup {"sys"} ELSE lost
    /\ Refresh("reply")
    /\ timers' = AllTimers
    /\ UNCHANGED <<helperVars, fonts, dirty, cache, connections, process, heard, behind,
                   environment>>

\* The end of the methods that refresh last: list() answers with the lists.
Reply ==
    /\ At("reply")
    /\ CASE Top.op = "list" /\ Top.pid = Watcher -> heard' = heard \cup All(fonts) /\ behind' = FALSE
         [] OTHER -> UNCHANGED <<heard, behind>>
    /\ Returns
    /\ timers' = CASE Top.op \in {"list", "move"} -> AllTimers
                   [] Top.op = "fontListTimeout" -> timers \cup {"fontList"}
                   [] OTHER -> timers
    /\ UNCHANGED <<helperVars, lists, connections, process, lost, environment>>

-----------------------------------------------------------------------------
(* The helper's side of performAction(): the user may refuse to authorise   *)
(* it, the helper may fail, and either way the job ends.                    *)

Request(i) == process \in {"running", "exiting"} /\ i \in DOMAIN stack
              /\ stack[i].asked # "" /\ ~stack[i].answered

Answered(i) == stack' = [stack EXCEPT ![i].answered = TRUE]

daemonVars == <<fonts, dirty, modified, cache, connections, timers, process, heard, behind,
                environment>>

HelperServes(i) ==
    /\ Request(i) /\ helper.up
    /\ LET m == stack[i] IN
       \/ m.asked = "install" /\ HelperInstall(m.name)
       \/ m.asked = "uninstall" /\ HelperUninstall(m.files)
       \/ m.asked = "move" /\ HelperMove(m.files, IF m.dir = "sys" THEN "user" ELSE "sys")
       \/ m.asked = "toggle" /\ HelperToggle(m.files, StyleOf[m.name], m.op = "enable")
       \/ m.asked = "move" /\ HelperMoveFails(m.files, IF m.dir = "sys" THEN "user" ELSE "sys")
       \/ m.asked = "toggle" /\ HelperToggleFails(m.files, m.op = "enable")
       \/ m.asked = "removeFile" /\ \E f \in In(disk, "sys") : f.name = m.name /\ HelperRemoveFile(f)
       \/ m.asked = "saveDisabled" /\ HelperSaveDisabled
       \/ m.asked = "reconfigure" /\ HelperReconfigure
    /\ lost' = IF "sys" \in unconfigured' THEN lost ELSE lost \ {"sys"}
    /\ Answered(i)
    /\ UNCHANGED daemonVars

HelperRefuses(i) ==
    /\ Request(i)
    /\ Answered(i)
    /\ UNCHANGED <<helperVars, daemonVars, lost>>

StartHelper ==
    /\ \E i \in DOMAIN stack : Request(i)
    /\ HelperStarts
    /\ UNCHANGED <<daemonVars, stack, lost>>

ExitHelper ==
    /\ HelperExits
    /\ lost' = IF helper.modified THEN lost \cup {"sys"} ELSE lost
    /\ UNCHANGED <<daemonVars, stack>>

-----------------------------------------------------------------------------
(* Timers, life and death                                                  *)

KeepConnections == connections
CheckConnections == connections \cap alive

\* connectionsTimeout(): quits when no client is left and nothing was dirty.
ConnectionsTimeout ==
    /\ LoopRuns
    /\ "connections" \in timers
    /\ connections' = CheckConnections
    /\ cfg' = [cfg EXCEPT !["user"] = UserSaved]
    /\ dirty' = {}
    /\ process' = IF connections' = {} /\ dirty = {} THEN "exiting" ELSE "running"
    /\ UNCHANGED <<disk, helper, unconfigured, fonts, modified, cache, timers, stack, heard,
                   behind, lost, environment>>

FontListTimeout ==
    /\ LoopRuns
    /\ "fontList" \in timers
    /\ Len(stack) < MaxDepth
    /\ Noticed # {FALSE} \/ NeedsRefresh(FALSE)     \* otherwise nothing happens
    /\ stack' = <<NewMethod("fontListTimeout", Watcher, NoName, "user", FALSE, "update", "reply")>>
                \o stack
    /\ UNCHANGED <<helperVars, lists, connections, timers, process, heard, behind, lost,
                   environment>>

Ended ==
    /\ process' = "gone"
    /\ fonts' = Empty /\ dirty' = {} /\ modified' = {} /\ cache' = {}
    /\ connections' = {} /\ timers' = {} /\ stack' = <<>>
    /\ behind' = TRUE
    /\ lost' = lost \cup unconfigured
    /\ UNCHANGED <<disk, helper, unconfigured, heard, alive>>

\* The event loop has ended; the destructors save the user's disabled fonts.
Exit ==
    /\ process = "exiting" /\ stack = <<>>
    /\ cfg' = [cfg EXCEPT !["user"] = UserSaved]
    /\ Ended
    /\ UNCHANGED used

Killed ==
    /\ process # "gone"
    /\ used.kills < MaxKills
    /\ Spend("kills")
    /\ UNCHANGED cfg
    /\ Ended

\* main(): the constructor fills the lists, without telling anyone.
Start ==
    /\ process = "gone"
    /\ process' = "running"
    /\ cache' = Visible(disk)
    /\ cfg' = [cfg EXCEPT !["user"] = @ \cap disk]
    /\ fonts' = [d \in Dir |-> In(Visible(disk), d) \cup (cfg[d] \cap disk)]
    /\ timers' = AllTimers
    /\ UNCHANGED <<disk, helper, unconfigured, dirty, modified, connections, stack, heard,
                   behind, lost, environment>>

ClientDies(p) ==
    /\ p \in alive
    /\ alive' = alive \ {p}
    /\ UNCHANGED <<helperVars, lists, connections, timers, stack, process, heard, behind, lost,
                   used>>

\* Another program adds or removes an enabled font.
OutsideChange(f) ==
    /\ ~f.hidden
    /\ used.outside < MaxOutside
    /\ disk' = IF f \in disk THEN disk \ {f} ELSE disk \cup {f}
    /\ Spend("outside")
    /\ UNCHANGED <<cfg, helper, unconfigured, lists, connections, timers, stack, process, heard,
                   behind, lost, alive>>

-----------------------------------------------------------------------------

\* Some fonts are there, the hidden ones recorded in disabledfonts.xml, and
\* the daemon has just been started by the watcher, which has its lists.
InitWith(files) ==
    /\ disk = files
    /\ cfg = [d \in Dir |-> In(Hidden(files), d)]
    /\ helper = NoHelper
    /\ unconfigured = {}
    /\ fonts = [d \in Dir |-> In(files, d)]
    /\ dirty = {} /\ modified = {}
    /\ cache = Visible(files)
    /\ connections = {Watcher}
    /\ timers = AllTimers
    /\ stack = <<>>
    /\ process = "running"
    /\ alive = Clients
    /\ heard = files
    /\ behind = FALSE
    /\ lost = {}
    /\ used = [calls |-> 0, outside |-> 0, kills |-> 0]

Init == \E files \in Initial : InitWith(files)

Calls ==
    \E p \in Clients :
        \/ \E op \in FontMethods, n \in Names, d \in CallDirs, k \in BOOLEAN :
                CallFontMethod(op, p, n, d, k)
        \/ CallList(p)
        \/ \E force \in BOOLEAN : CallReconfigure(p, force)
        \/ CallSaveDisabled(p)

\* The steps of the method on top, once it need not wait.
MethodSteps ==
    \/ UpdateFontList \/ RebuildLists \/ FindFont
    \/ Install \/ InstallAfter
    \/ UninstallUser \/ UninstallSystem \/ UninstallAfter
    \/ Move \/ MoveAfter
    \/ ToggleUser \/ ToggleSystem \/ ToggleAfter
    \/ RemoveFile \/ RemoveFileAfter
    \/ UsesFreed
    \/ StoreDisabled \/ StoredDisabled \/ Configure \/ ConfigureAfter \/ Reply

HelperSteps ==
    \/ \E i \in DOMAIN stack : HelperServes(i) \/ HelperRefuses(i)
    \/ StartHelper \/ ExitHelper

Environment ==
    \/ ConnectionsTimeout \/ FontListTimeout \/ Exit \/ Killed \/ Start
    \/ \E p \in Clients : ClientDies(p)
    \/ \E f \in File : OutsideChange(f)

Next == Calls \/ MethodSteps \/ HelperSteps \/ Environment

Spec == Init /\ [][Next]_vars

\* The event loop dispatches what is ready, the job of each method ends (KAuth and
\* D-Bus have time limits), and an expired timer stays due while methods run.
\* Nothing is assumed of clients, nor of D-Bus starting the daemon again.
Fairness ==
    /\ WF_vars(MethodSteps)
    /\ \A depth \in 1..MaxDepth : WF_vars(HelperRefuses(Len(stack) + 1 - depth))
    /\ SF_vars(ConnectionsTimeout) /\ WF_vars(FontListTimeout) /\ WF_vars(Exit)

FairSpec == Spec /\ Fairness

-----------------------------------------------------------------------------
(* Properties                                                              *)

\* The types; a list has the files of its folder, disabledfonts.xml hidden ones.
TypeOK ==
    /\ HelperTypeOK
    /\ \A d \in Dir : fonts[d] \subseteq In(File, d) /\ cfg[d] \subseteq In(Hidden(File), d)
    /\ DOMAIN fonts = Dir
    /\ dirty \subseteq Dir /\ modified \subseteq Dir /\ lost \subseteq Dir
    /\ cache \subseteq File /\ heard \subseteq File
    /\ connections \subseteq Clients /\ alive \subseteq Clients
    /\ timers \subseteq AllTimers
    /\ stack \in Seq(Frames)
    /\ process \in {"running", "exiting", "hung", "gone"}
    /\ behind \in BOOLEAN
    /\ used \in [{"calls", "outside", "kills"} -> Nat]

\* A disabled font is invisible to fontconfig: it is known only from
\* disabledfonts.xml.  What that file lists, or will list when the pending save
\* is done, loses a file that stays on disk only when its style is enabled or
\* disabled without this file, or the daemon is killed first.
TogglesStyleOf(m, f) == m.op \in Toggles /\ StyleOf[m.name] = StyleOf[f.name]

UserDisabledKept ==
    \A f \in In(Hidden(disk \cap disk'), "user") \cap UserSaved :
        \/ f \in UserSaved'
        \/ stack # <<>> /\ TogglesStyleOf(Top, f)
        \/ process # "exiting" /\ process' = "gone"
SysDisabledKept ==
    \A f \in In(Hidden(disk \cap disk'), "sys") \cap SavedByHelper :
        \/ f \in SavedByHelper'
        \/ \E i \in DOMAIN stack : stack[i].asked = "toggle" /\ TogglesStyleOf(stack[i], f)

DisabledStaysKnown == [][UserDisabledKept /\ SysDisabledKept]_vars

\* What Helper.cpp:367 says of the helper: it stores the list of disabled fonts, to
\* write it back to disk.  So a disabled system font it has or loads stays listed.
HelperStoresDisabled ==
    [][\A f \in In(Hidden(disk \cap disk'), "sys") \cap SavedByHelper : f \in SavedByHelper']_vars

\* Folders a request has changed are marked until fc-cache has run there, so the
\* next reconfigure() will see to them; a mark is lost when the daemon or the
\* helper ends, or when the helper does not do what reconfigure() asks.
UserChangesPending == "user" \in unconfigured => "user" \in modified \cup lost
SysChangesPending ==
    "sys" \in unconfigured =>
        "sys" \in modified \cup lost \/ \E i \in DOMAIN stack : stack[i].asked # ""

\* What FontInst.cpp:398 says of move(): it marks both folders because "we only want
\* to call fc-cache".  So when the helper moves a font of or to the user's folder,
\* that folder is marked.
MovedIsMarked ==
    [][\A i \in DOMAIN stack :
            stack[i].asked = "move" /\ disk' # disk /\ unconfigured' # unconfigured
                => "user" \in modified' \cup lost']_vars

\* The broadcasts keep a client's copy equal to the lists, except when a style has
\* both files of a name: toggle() announces the kept file before its removal.
KeptRemoved == Top.op \in Toggles /\ Flipped(Top.files, Enables) \cap Top.files # {}

HeardFollows ==
    [][~behind /\ heard = All(fonts) =>
            heard' = All(fonts') \/ behind' \/ KeptRemoved]_vars

\* In the folder of the user that is so whatever runs while a method waits, but
\* for a refresh that itself waited: it forgets what was installed meanwhile.
UserHeardFollows ==
    [][~behind /\ In(heard, "user") = fonts["user"] =>
            \/ In(heard', "user") = fonts'["user"] \/ behind' \/ KeptRemoved
            \/ Top.at = "rebuild" /\ Top.asked # ""]_vars

\* The daemon does not decide to quit while a client waits for its answer, but for the
\* methods that do not register their caller (uninstall() by name: not before the style
\* is found).  One found meanwhile goes on while the daemon quits (FontInst.cpp:580).
Unregistered == {"reconfigure", "saveDisabled", "fontListTimeout", "uninstallByName"}
NoExitUnderClient ==
    [][process = "running" /\ process' = "exiting" =>
            \A i \in DOMAIN stack : stack[i].pid \in alive => stack[i].op \in Unregistered]_vars

\* Every method comes to its end, nested or not, once the helper's jobs end.
EveryMethodEnds == stack # <<>> ~> stack = <<>> \/ process = "hung"

\* Without clients the daemon quits in the end, but for one whose timer a method
\* stopped when it began to wait for the helper (FontInst.cpp:953) and did
\* not start them again.
QuitsWithoutClients ==
    alive = {} ~> process \in {"gone", "hung"} \/ ("connections" \notin timers /\ stack = <<>>)

=============================================================================
