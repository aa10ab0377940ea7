--------------------------- MODULE KeyboardDaemon ---------------------------
(***************************************************************************)
(* The keyboard daemon (kcms/keyboard/keyboard_daemon.cpp) and its layout  *)
(* memory (layout_memory.cpp, layout_memory_persister.cpp): every window,  *)
(* application or desktop keeps the keyboard layout that was used in it.   *)
(*                                                                         *)
(* The X server holds the list of layouts and the group (the index of the  *)
(* layout in use).  Its events, and those of the window manager, come to   *)
(* the daemon in one queue; the daemon knows the active window and desktop *)
(* from the events it has handled, but asks the server for the layouts as  *)
(* they are when it handles one.                                           *)
(***************************************************************************)
EXTENDS Integers, Sequences, FiniteSets, Functions, TLC

CONSTANTS
  Windows,      \* normal windows
  ClassOf,      \* the application of a window
  Desktops,     \* virtual desktops
  Configs,      \* contents of kxkbrc: [policy, layouts, loop, configure]
  Foreign,      \* lists of layouts other programs set
  Fresh,        \* lists of layouts a session begins with
  MaxTurns,     \* bound: settings saved, sessions ended, keyboards plugged in, foreign lists
  MaxEvents     \* bound: events that wait when the user acts, after so many turns

\* KeyboardConfig::NO_LOOPING; X11Helper::MAX_GROUP_COUNT
NO_LOOPING == -1
MAX_GROUP_COUNT == 4
Policies == {"Global", "Desktop", "WinClass", "Window"}

ASSUME KeyboardAssumption ==
  /\ \A c \in Configs :
       /\ c.policy \in Policies /\ c.configure \in BOOLEAN
       /\ c.layouts \in Seq(STRING)
       /\ c.loop = NO_LOOPING \/ c.loop \in 1 .. Len(c.layouts)
       /\ c.configure => c.layouts # <<>>
  /\ Foreign \cup Fresh \subseteq Seq(STRING) \ {<<>>}
  /\ {"desktop", "panel"} \cap Windows = {}
  /\ MaxTurns \in Nat /\ MaxEvents \in [0 .. MaxTurns -> Nat]

VARIABLES
  xkb,          \* the X server: [layouts, group]
  events,       \* X events on their way: [type, value]
  stored,       \* what kxkbrc holds
  reloadDue,    \* the settings module's message is on its way
  session,      \* layout_memory.xml
  running,      \* the daemon runs
  config,       \* keyboardConfig
  listens,      \* what LayoutMemory is connected to: "window", "desktop"
  active, desk, \* the window and desktop of the last event handled
  layoutMap, prevLayoutList, previousLayoutMapKey,
  turns,        \* what MaxTurns bounds
  mine,         \* history: the layouts last in use where the user was
  noticed,      \* history: an event of the server has told of its list since the start
  raced         \* history: layouts were changed where, or by rules, the daemon does not know yet

memoryVars == <<config, listens, layoutMap, prevLayoutList, previousLayoutMapKey>>
wmVars == <<active, desk>>
vars == <<xkb, events, stored, reloadDue, session, running, memoryVars, wmVars, turns, mine, noticed, raced>>

NoKey == ""
NoMap == [k \in {} |-> NoKey]
NoFile == [policy |-> "none", map |-> NoMap, layout |-> ""]
Members(list) == {list[i] : i \in 1 .. Len(list)}

-----------------------------------------------------------------------------
(* The X server (x11_helper.cpp, xkb_helper.cpp).  A server that is being  *)
(* changed is a record with the events this causes.                        *)

Server == [layouts |-> xkb.layouts, group |-> xkb.group, out |-> <<>>]

\* setGroup(): the server wraps a group that does not exist.
Groups(s) == IF Len(s.layouts) > MAX_GROUP_COUNT THEN MAX_GROUP_COUNT ELSE Len(s.layouts)
SetGroup(s, g) ==
  LET to == g % Groups(s) IN
  IF to = s.group THEN s ELSE [layouts |-> s.layouts, group |-> to, out |-> Append(s.out, "layout")]

\* initializeKeyboardLayouts(): setxkbmap, which is waited for.  It may fail, or not
\* be found, and nobody looks at the result.
SetXkbMap(s, list, works) ==
  IF works THEN SetGroup([layouts |-> list, group |-> s.group, out |-> Append(s.out, "map")], s.group)
  ELSE s

\* setLayout() fails for a layout that is not in the list.
SetLayout(s, unit) ==
  IF \E i \in 1 .. Len(s.layouts) : i <= MAX_GROUP_COUNT /\ s.layouts[i] = unit
  THEN SetGroup(s, (CHOOSE i \in 1 .. Len(s.layouts) :
                      s.layouts[i] = unit /\ \A j \in 1 .. i - 1 : s.layouts[j] # unit) - 1)
  ELSE s

\* getCurrentLayouts()
CurrentLayouts(s) == [layouts |-> s.layouts, current |-> s.layouts[s.group + 1]]

\* scrollLayouts()
Scrolled(s, delta) ==
  LET size == Len(s.layouts)
      group == s.group + delta
  IN  SetGroup(s, IF group < 0 THEN size - ((-group) % size) ELSE group % size)

Queue(s) == [i \in 1 .. Len(s.out) |-> [type |-> s.out[i], value |-> NoKey]]

-----------------------------------------------------------------------------
(* The configuration.                                                      *)

SpareLayoutsEnabled(c) == c.loop # NO_LOOPING
DefaultLayouts(c) == IF c.loop = NO_LOOPING THEN c.layouts ELSE SubSeq(c.layouts, 1, c.loop)
UsesSpare(c) == c.configure /\ SpareLayoutsEnabled(c)

\* isExtraSubset(): the list has spare layouts.
IsExtraSubset(all, list) == all[1] = list[1] /\ Members(list) \subseteq Members(all)

ListensFor(policy) ==
  CASE policy \in {"Window", "WinClass"} -> {"window"}
    [] policy = "Desktop" -> {"desktop"}
    [] OTHER -> {}

\* getCurrentMapKey(), of a window and a desktop.  The desktop's own window
\* stands for the window before it; of a panel nothing is remembered.
MapKey(policy, window, desktop) ==
  CASE policy \in {"Window", "WinClass"} /\ window = "desktop" -> previousLayoutMapKey
    [] policy \in {"Window", "WinClass"} /\ window = "panel" -> NoKey
    [] policy = "Window" /\ window \in Windows -> window
    [] policy = "WinClass" /\ window \in Windows -> ClassOf[window]
    [] policy = "Desktop" -> desktop
    [] OTHER -> NoKey

\* Where the user is: what the events on their way will make known.
LastOf(type, known) ==
  LET S == {i \in 1 .. Len(events) : events[i].type = type}
  IN  IF S = {} THEN known ELSE events[CHOOSE i \in S : \A j \in S : j <= i].value
UserKey == MapKey(config.policy, LastOf("window", active), LastOf("desktop", desk))
Waits(types) == \E i \in 1 .. Len(events) : events[i].type \in types

\* The user, or another program, changes the layouts.
Put(f, k, v) ==
  IF k = NoKey THEN f ELSE [x \in {k} \cup DOMAIN f |-> IF x = k THEN v ELSE f[x]]

-----------------------------------------------------------------------------
(* The user and other programs.                                            *)

Turn == turns < MaxTurns /\ turns' = turns + 1
UserActs == running /\ Len(events) < MaxEvents[turns]

LayoutsBecome(s) ==
  /\ xkb' = [layouts |-> s.layouts, group |-> s.group]
  /\ events' = events \o Queue(s)

\* A list that is neither the one before nor one with spare layouts.
OtherList(s) == s.layouts # xkb.layouts /\ ~(UsesSpare(config) /\ IsExtraSubset(config.layouts, s.layouts))

Changed(s) ==
  LET races == \/ raced
               \/ s.out # <<>> /\ Waits({"window", "desktop"})
               \/ s.layouts # xkb.layouts /\ Waits({"map"})
  IN
  /\ LayoutsBecome(s)
  /\ mine' = IF races THEN NoMap
             ELSE IF OtherList(s) THEN NoMap
             ELSE IF CurrentLayouts(s) = CurrentLayouts(xkb) THEN mine
             ELSE Put(mine, UserKey, CurrentLayouts(s))
  /\ raced' = races

StaysButLayouts == UNCHANGED <<stored, reloadDue, session, running, memoryVars, wmVars, noticed>>

\* The shortcut, a click or the wheel on the icon, or D-Bus.
SwitchToNextLayout ==
  /\ UserActs /\ UNCHANGED turns
  /\ Changed(SetGroup(Server, xkb.group + 1))
  /\ StaysButLayouts

ScrollLayouts ==
  /\ UserActs /\ UNCHANGED turns
  /\ \E delta \in {1, -1} : Changed(Scrolled(Server, delta))
  /\ StaysButLayouts

SetLayoutByName ==
  /\ UserActs /\ UNCHANGED turns
  /\ \E unit \in Members(xkb.layouts) : Changed(SetLayout(Server, unit))
  /\ StaysButLayouts

\* LayoutsMenu::switchToLayout() to a spare layout: it takes the place of the last.
SwitchToSpareLayout ==
  /\ UserActs /\ UNCHANGED turns
  /\ SpareLayoutsEnabled(config)
  /\ \E unit \in Members(config.layouts) \ Members(xkb.layouts), works \in BOOLEAN :
       LET default == DefaultLayouts(config)
           list    == Append(SubSeq(default, 1, Len(default) - 1), unit)
       IN  Changed(SetLayout(SetXkbMap(Server, list, works), unit))
  /\ StaysButLayouts

\* Another program runs setxkbmap.
OtherSetsMap ==
  /\ UserActs /\ Turn
  /\ \E list \in Foreign : Changed(SetXkbMap(Server, list, TRUE))
  /\ StaysButLayouts

Event(type, v) == events' = Append(events, [type |-> type, value |-> v])
StaysButEvents == UNCHANGED <<xkb, stored, reloadDue, session, running, memoryVars, wmVars, turns, mine, noticed, raced>>

ActivateWindow ==
  /\ UserActs
  /\ \E w \in Windows \cup {"desktop", "panel"} : w # LastOf("window", active) /\ Event("window", w)
  /\ StaysButEvents

SwitchDesktop ==
  /\ UserActs
  /\ \E d \in Desktops : d # LastOf("desktop", desk) /\ Event("desktop", d)
  /\ StaysButEvents

\* The settings module saves, and sends its message.  What was in use under other
\* settings is not to be found again.
SaveConfig ==
  /\ Turn
  /\ \E c \in Configs : c # stored /\ stored' = c
  /\ reloadDue' = running
  /\ mine' = NoMap /\ raced' = TRUE
  /\ UNCHANGED <<xkb, events, session, running, memoryVars, wmVars, noticed>>

-----------------------------------------------------------------------------
(* The layout memory.                                                      *)

\* Mutant: what has no key is remembered too.
RememberedAnywhere(c) == (MapKey(c.policy, active, desk) :> CurrentLayouts(xkb)) @@ layoutMap

\* LayoutMemory::layoutChanged(), with a configuration that may be new.
Remembered(c) == Put(layoutMap, MapKey(c.policy, active, desk), CurrentLayouts(xkb))

\* KeyboardDaemon::layoutChanged()
LayoutChanged ==
  /\ layoutMap' = Remembered(config)
  /\ UNCHANGED <<xkb, config, listens, prevLayoutList, previousLayoutMapKey, wmVars, mine, noticed>>

\* KeyboardDaemon::layoutMapChanged(): the configuration is read again, but not
\* what is listened to.
LayoutMapChanged ==
  /\ config' = stored
  /\ prevLayoutList' = xkb.layouts
  /\ layoutMap' =
       IF prevLayoutList = xkb.layouts THEN layoutMap
       ELSE IF UsesSpare(stored) /\ IsExtraSubset(stored.layouts, xkb.layouts) THEN Remembered(stored)
       ELSE NoMap
  /\ mine' = IF noticed THEN mine
             ELSE IF prevLayoutList = xkb.layouts
                  THEN Restrict(mine, DOMAIN mine \ {MapKey(stored.policy, active, desk)})
                  ELSE NoMap
  /\ noticed' = TRUE
  /\ UNCHANGED <<xkb, listens, previousLayoutMapKey, wmVars>>

\* Mutant: what was remembered is set only when the list has changed.
FromMapOtherListOnly(s, c, saved, works) ==
  IF saved.layouts = s.layouts THEN s
  ELSE SetLayout(IF UsesSpare(c) THEN SetXkbMap(s, saved.layouts, works) ELSE s, saved.current)

\* setCurrentLayoutFromMap() of a container that is known,
FromMap(s, c, saved, works) ==
  LET there == IF saved.layouts # s.layouts /\ UsesSpare(c)
               THEN SetXkbMap(s, saved.layouts, works) ELSE s
  IN  IF saved = CurrentLayouts(s) THEN s ELSE SetLayout(there, saved.current)

\* and of a new one: the default layout.
Default(s, c, works) ==
  IF s.group = 0 THEN s
  ELSE SetGroup(IF UsesSpare(c) /\ s.layouts # DefaultLayouts(c)
                THEN SetXkbMap(s, DefaultLayouts(c), works) ELSE s, 0)

\* setxkbmap has failed, and the list that was remembered is not the one still there.
ListNotSet(key, works) ==
  /\ ~works /\ UsesSpare(config)
  /\ key \in DOMAIN layoutMap /\ layoutMap[key].layouts # xkb.layouts

\* windowChanged(), desktopChanged(): the container is now key.
SetCurrentLayoutFromMap(key) ==
  IF key = NoKey THEN UNCHANGED <<xkb, previousLayoutMapKey, mine>> /\ events' = Tail(events)
  ELSE \E works \in BOOLEAN :
         LET s == IF key \in DOMAIN layoutMap THEN FromMap(Server, config, layoutMap[key], works)
                  ELSE Default(Server, config, works)
         IN  /\ xkb' = [layouts |-> s.layouts, group |-> s.group]
             /\ events' = Tail(events) \o Queue(s)
             /\ mine' = IF OtherList(s) THEN NoMap
                        ELSE IF ListNotSet(key, works) THEN Restrict(mine, DOMAIN mine \ {key})
                        ELSE mine
             /\ previousLayoutMapKey' = key

ContainerChanged(e) ==
  /\ active' = IF e.type = "window" THEN e.value ELSE active
  /\ desk' = IF e.type = "desktop" THEN e.value ELSE desk
  /\ IF running /\ e.type \in listens
     THEN SetCurrentLayoutFromMap(MapKey(config.policy, active', desk'))
     ELSE events' = Tail(events) /\ UNCHANGED <<xkb, previousLayoutMapKey, mine>>
  /\ UNCHANGED <<config, listens, layoutMap, prevLayoutList, noticed>>

HandleEvent ==
  /\ events # <<>>
  /\ LET e == Head(events) IN
       CASE e.type \in {"window", "desktop"} -> ContainerChanged(e)
         [] e.type = "layout" /\ running -> LayoutChanged /\ events' = Tail(events)
         [] e.type = "map" /\ running -> LayoutMapChanged /\ events' = Tail(events)
         [] OTHER -> events' = Tail(events) /\ UNCHANGED <<xkb, memoryVars, wmVars, mine, noticed>>
  /\ raced' = (raced /\ (events' # <<>> \/ reloadDue))
  /\ UNCHANGED <<stored, reloadDue, session, running, turns>>

-----------------------------------------------------------------------------
(* The daemon.                                                             *)

Configured(s, c, works) == IF c.configure THEN SetXkbMap(s, DefaultLayouts(c), works) ELSE s

\* Mutant: the listeners of the old policy stay.
RegisterOnce(policy) == listens' = listens \cup ListensFor(policy)

\* LayoutMemory::configChanged(); what is remembered stays.
Register(policy) == listens' = ListensFor(policy)

\* configureKeyboard(): the message, or a keyboard that was plugged in.
ConfigureKeyboard ==
  /\ UserActs
  /\ IF reloadDue THEN UNCHANGED turns ELSE Turn
  /\ reloadDue' = FALSE
  /\ config' = stored /\ Register(stored.policy)
  /\ \E works \in BOOLEAN : Changed(Configured(Server, stored, works))
  /\ UNCHANGED <<stored, session, running, layoutMap, prevLayoutList, previousLayoutMapKey, wmVars, noticed>>

\* ~KeyboardDaemon(), at the end of the session, when the login mode is to restore
\* it; a daemon that dies saves nothing, as one that cannot open the file.  A file
\* that cannot be written is removed.  save() has nothing to say of windows.
Stop ==
  /\ running /\ running' = FALSE
  /\ Turn
  /\ session' \in {session} \cup
       CASE config.policy = "Window" -> {}
         [] config.policy = "Global" ->
              {NoFile, [NoFile EXCEPT !.policy = "Global", !.layout = CurrentLayouts(xkb).current]}
         [] OTHER -> {NoFile, [NoFile EXCEPT !.policy = config.policy, !.map = layoutMap]}
  /\ events' = <<>> /\ reloadDue' = FALSE
  /\ UNCHANGED <<xkb, stored, memoryVars, wmVars, mine, noticed, raced>>

\* KeyboardDaemon(), with the layouts the server then has.  No event comes of what
\* configureKeyboard() does, as the daemon listens to the server only afterwards;
\* the list that was there before is what the next one is compared with.
\* restoreFromFile() skips what has layouts that are not configured.
Start ==
  /\ ~running /\ running' = TRUE
  /\ config' = stored /\ listens' = ListensFor(stored.policy)
  /\ active' \in Windows /\ desk' \in Desktops
  /\ \E list \in Fresh, restores, works \in BOOLEAN :
       LET s == [Configured([layouts |-> list, group |-> 0, out |-> <<>>], stored, works) EXCEPT !.out = <<>>]
           usable == restores /\ session.policy = stored.policy
       IN  /\ prevLayoutList' = list
           /\ LayoutsBecome(IF usable /\ stored.policy = "Global" /\ session.layout \in Members(stored.layouts)
                            THEN SetLayout(s, session.layout) ELSE s)
           /\ layoutMap' = IF usable THEN Restrict(session.map,
                                {k \in DOMAIN session.map :
                                   Members(session.map[k].layouts) \subseteq Members(stored.layouts)})
                           ELSE NoMap
  /\ previousLayoutMapKey' = NoKey
  /\ mine' = NoMap /\ noticed' = FALSE /\ raced' = FALSE
  /\ UNCHANGED <<stored, reloadDue, session, turns>>

Init ==
  /\ stored \in Configs /\ config = stored
  /\ \E list \in Fresh : xkb = [layouts |-> list, group |-> 0]
  /\ events = <<>> /\ reloadDue = FALSE /\ session = NoFile /\ running = FALSE
  /\ listens = {}
  /\ active \in Windows /\ desk \in Desktops
  /\ layoutMap = NoMap /\ prevLayoutList = <<>> /\ previousLayoutMapKey = NoKey
  /\ turns = 0 /\ mine = NoMap /\ noticed = FALSE /\ raced = FALSE

Next ==
  \/ SwitchToNextLayout \/ ScrollLayouts \/ SetLayoutByName \/ SwitchToSpareLayout
  \/ OtherSetsMap \/ ActivateWindow \/ SwitchDesktop \/ SaveConfig
  \/ HandleEvent \/ ConfigureKeyboard \/ Stop \/ Start

Spec == Init /\ [][Next]_vars

-----------------------------------------------------------------------------
(* Properties.                                                             *)

Layouts(set) == DOMAIN set = {"layouts", "current"} /\ set.current \in Members(set.layouts)
Keys == Windows \cup {ClassOf[w] : w \in Windows} \cup Desktops

\* The memory has a layout of a list for windows, applications and desktops, and for
\* nothing else (getCurrentMapKey() says so of panels and of what has no window).
KeyboardTypeOK ==
  /\ xkb.group \in 0 .. Groups(xkb) - 1
  /\ \A i \in DOMAIN events : events[i].type \in {"layout", "map", "window", "desktop"}
  /\ {stored, config} \subseteq Configs
  /\ active \in Windows \cup {"desktop", "panel"} /\ desk \in Desktops
  /\ DOMAIN layoutMap \cup DOMAIN session.map \subseteq Keys
  /\ \A k \in DOMAIN layoutMap : Layouts(layoutMap[k])
  /\ \A k \in DOMAIN session.map : Layouts(session.map[k])
  /\ previousLayoutMapKey \in Keys \cup {NoKey}
  /\ listens \subseteq {"window", "desktop"} /\ {running, reloadDue, raced} \subseteq BOOLEAN

\* Who comes back to a window, application or desktop finds the layouts that were last
\* in use there, list and layout, when none were changed where the daemon did not know the user was, or
\* before it had heard of another list (setCurrentLayoutFromMap(), layoutChanged()).
\* All is forgotten when the settings are saved and when another list is set, be it one
\* of the memory.  The first list after the start is compared with the one from before
\* (layout_memory.cpp:32): all is forgotten when it differs, and the
\* layout in use then need not be remembered when it does not.  Nor need a layout be
\* found for which setxkbmap had to set another list, and failed (xkb_helper.cpp:119).
BackToTheSameLayout ==
  running /\ events = <<>> /\ ~reloadDue /\ ~raced /\ UserKey \in DOMAIN mine =>
    CurrentLayouts(xkb) = mine[UserKey]

\* The daemon listens to what its policy needs, unless a message of the settings
\* module is on its way: layoutMapChanged() reads the configuration by itself, and
\* registers nothing.
ListensFollowPolicy == running /\ ~reloadDue => listens = ListensFor(config.policy)
=============================================================================
