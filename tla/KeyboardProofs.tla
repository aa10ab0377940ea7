--------------------------- MODULE KeyboardProofs ---------------------------
(***************************************************************************)
(* What holds of the keyboard daemon for every set of windows, desktops,   *)
(* configurations and lists of layouts: its types, that it listens to what *)
(* its policy needs, and that who comes back to a window, an application   *)
(* or a desktop finds the layout used there before.                        *)
(***************************************************************************)
EXTENDS KeyboardDaemon, TLAPS

Lists == Seq(STRING) \ {<<>>}
Servers == [layouts : Lists, group : Nat, out : Seq({"layout", "map"})]
LayoutSets == {set \in [layouts : Lists, current : STRING] : set.current \in Members(set.layouts)}
Containers == Windows \cup {"desktop", "panel"}
Events == [type : {"layout", "map"}, value : {NoKey}]
          \cup [type : {"window"}, value : Containers]
          \cup [type : {"desktop"}, value : Desktops]

\* A server whose group exists.
Good(s) == s \in Servers /\ s.group < Groups(s)

MemoryOK(f) == DOMAIN f \subseteq Keys /\ \A k \in DOMAIN f : f[k] \in LayoutSets

-----------------------------------------------------------------------------
(* The server.                                                             *)

LEMMA GroupsExist ==
  ASSUME NEW s, s.layouts \in Lists
  PROVE  Groups(s) \in 1 .. MAX_GROUP_COUNT /\ Groups(s) <= Len(s.layouts)
<1> DEFINE n == Len(s.layouts)
<1>1. n \in Nat /\ n # 0
  BY DEF Lists
<1>2. Groups(s) = IF n > 4 THEN 4 ELSE n
  BY DEF Groups, MAX_GROUP_COUNT
<1> HIDE DEF n
<1>3. Groups(s) \in 1 .. 4 /\ Groups(s) <= n
  BY <1>1, <1>2
<1> QED
  BY <1>3 DEF MAX_GROUP_COUNT, n

LEMMA SetGroupGood ==
  ASSUME NEW s \in Servers, NEW g \in Int
  PROVE  Good(SetGroup(s, g)) /\ SetGroup(s, g).layouts = s.layouts
<1> DEFINE to == g % Groups(s)
<1>1. Groups(s) \in 1 .. 4 /\ s.layouts \in Lists
  BY GroupsExist DEF Servers, MAX_GROUP_COUNT
<1>2. to \in Nat /\ to < Groups(s)
  BY <1>1
<1>3. CASE to = s.group
  BY <1>2, <1>3 DEF SetGroup, Good
<1>4. CASE to # s.group
  <2>1. SetGroup(s, g) = [layouts |-> s.layouts, group |-> to, out |-> Append(s.out, "layout")]
    BY <1>4 DEF SetGroup
  <2>2. SetGroup(s, g) \in Servers
    BY <2>1, <1>2 DEF Servers
  <2>3. SetGroup(s, g).group = to /\ SetGroup(s, g).layouts = s.layouts
    BY <2>1 DEF Servers
  <2> QED
    BY <2>2, <2>3, <1>2 DEF Good, Groups
<1> QED
  BY <1>3, <1>4

LEMMA SetXkbMapGood ==
  ASSUME NEW s, Good(s), NEW list \in Lists, NEW works \in BOOLEAN
  PROVE  /\ Good(SetXkbMap(s, list, works))
         /\ works => SetXkbMap(s, list, works).layouts = list
         /\ ~works => SetXkbMap(s, list, works) = s
<1> DEFINE t == [layouts |-> list, group |-> s.group, out |-> Append(s.out, "map")]
<1>1. t \in Servers /\ t.layouts = list
  BY DEF Servers, Good
<1>2. s.group \in Int
  BY DEF Servers, Good
<1>3. SetXkbMap(s, list, works) = IF works THEN SetGroup(t, s.group) ELSE s
  BY DEF SetXkbMap
<1> HIDE DEF t
<1> QED
  BY <1>1, <1>2, <1>3, SetGroupGood

\* The least of at most MAX_GROUP_COUNT layouts exists.
LEMMA SetLayoutGood ==
  ASSUME NEW s, Good(s), NEW unit
  PROVE  Good(SetLayout(s, unit)) /\ SetLayout(s, unit).layouts = s.layouts
<1> DEFINE First(i) == s.layouts[i] = unit /\ \A j \in 1 .. i - 1 : s.layouts[j] # unit
           there == \E i \in 1 .. Len(s.layouts) : i <= MAX_GROUP_COUNT /\ s.layouts[i] = unit
<1>1. CASE ~there
  BY <1>1 DEF SetLayout
<1>2. CASE there
  <2>1. PICK i \in 1 .. Len(s.layouts) : i <= 4 /\ s.layouts[i] = unit
    BY <1>2 DEF MAX_GROUP_COUNT
  <2>0. Len(s.layouts) \in Nat
    BY DEF Good, Servers, Lists
  <2>2. \E k \in 1 .. Len(s.layouts) : First(k)
    <3>1. CASE s.layouts[1] = unit
      BY <3>1, <2>1, <2>0
    <3>2. CASE s.layouts[1] # unit /\ s.layouts[2] = unit
      BY <3>2, <2>1, <2>0
    <3>3. CASE s.layouts[1] # unit /\ s.layouts[2] # unit /\ s.layouts[3] = unit
      BY <3>3, <2>1, <2>0
    <3>4. CASE s.layouts[1] # unit /\ s.layouts[2] # unit /\ s.layouts[3] # unit
      BY <3>4, <2>1, <2>0
    <3> QED
      BY <3>1, <3>2, <3>3, <3>4
  <2>3. (CHOOSE k \in 1 .. Len(s.layouts) : First(k)) \in 1 .. Len(s.layouts)
    BY <2>2
  <2>4. (CHOOSE k \in 1 .. Len(s.layouts) : First(k)) - 1 \in Int
    BY <2>3, <2>0
  <2>5. SetLayout(s, unit) = SetGroup(s, (CHOOSE k \in 1 .. Len(s.layouts) : First(k)) - 1)
    BY <1>2 DEF SetLayout
  <2> QED
    BY <2>4, <2>5, SetGroupGood DEF Good
<1> QED
  BY <1>1, <1>2

LEMMA ScrolledGood ==
  ASSUME NEW s, Good(s), NEW delta \in Int
  PROVE  Good(Scrolled(s, delta))
<1> DEFINE size == Len(s.layouts)
           group == s.group + delta
           to == IF group < 0 THEN size - ((-group) % size) ELSE group % size
<1>1. size \in Nat /\ size > 0 /\ group \in Int
  BY DEF Good, Servers, Lists
<1>2. to \in Int
  BY <1>1
<1>3. Scrolled(s, delta) = SetGroup(s, to)
  BY DEF Scrolled
<1> QED
  BY <1>2, <1>3, SetGroupGood DEF Good

LEMMA CurrentGood ==
  ASSUME NEW s, s.layouts \in Lists, s.group \in Nat, s.group < Groups(s)
  PROVE  CurrentLayouts(s) \in LayoutSets
<1>1. s.group + 1 \in 1 .. Len(s.layouts)
  BY GroupsExist DEF MAX_GROUP_COUNT, Lists
<1>2. s.layouts[s.group + 1] \in STRING /\ s.layouts[s.group + 1] \in Members(s.layouts)
  BY <1>1 DEF Members, Lists
<1> QED
  BY <1>2 DEF CurrentLayouts, LayoutSets

-----------------------------------------------------------------------------
(* The configuration.                                                      *)

LEMMA DefaultLayoutsGood ==
  ASSUME NEW c \in Configs, c.configure \/ SpareLayoutsEnabled(c)
  PROVE  DefaultLayouts(c) \in Lists
<1>1. c.layouts \in Seq(STRING) /\ (c.loop = NO_LOOPING \/ c.loop \in 1 .. Len(c.layouts))
      /\ (c.configure => c.layouts # <<>>)
  BY KeyboardAssumption
<1>2. CASE c.loop = NO_LOOPING
  BY <1>1, <1>2 DEF DefaultLayouts, Lists, SpareLayoutsEnabled
<1>3. CASE c.loop # NO_LOOPING
  <2>1. c.loop \in 1 .. Len(c.layouts)
    BY <1>1, <1>3
  <2>2. DefaultLayouts(c) = SubSeq(c.layouts, 1, c.loop)
    BY <1>3 DEF DefaultLayouts
  <2>3. SubSeq(c.layouts, 1, c.loop) \in Seq(STRING) /\ Len(SubSeq(c.layouts, 1, c.loop)) = c.loop
    BY <2>1, <1>1
  <2> QED
    BY <2>1, <2>2, <2>3 DEF Lists
<1> QED
  BY <1>2, <1>3

LEMMA ConfiguredGood ==
  ASSUME NEW s, Good(s), NEW c \in Configs, NEW works \in BOOLEAN
  PROVE  Good(Configured(s, c, works))
BY DefaultLayoutsGood, SetXkbMapGood DEF Configured

LEMMA FromMapGood ==
  ASSUME NEW s, Good(s), NEW c \in Configs, NEW saved \in LayoutSets, NEW works \in BOOLEAN
  PROVE  Good(FromMap(s, c, saved, works))
<1>1. saved.layouts \in Lists /\ s \in Servers
  BY DEF LayoutSets, Good
<1>2. Good(SetXkbMap(s, saved.layouts, works))
  BY <1>1, SetXkbMapGood
<1> QED
  BY <1>2, SetLayoutGood DEF FromMap

LEMMA DefaultGood ==
  ASSUME NEW s, Good(s), NEW c \in Configs, NEW works \in BOOLEAN
  PROVE  Good(Default(s, c, works))
<1>1. UsesSpare(c) => SetXkbMap(s, DefaultLayouts(c), works) \in Servers
  BY DefaultLayoutsGood, SetXkbMapGood DEF UsesSpare, Good
<1>2. s \in Servers
  BY DEF Good
<1>3. Good(SetGroup(IF UsesSpare(c) /\ s.layouts # DefaultLayouts(c)
                    THEN SetXkbMap(s, DefaultLayouts(c), works) ELSE s, 0))
  BY <1>1, <1>2, SetGroupGood
<1> QED
  BY <1>3 DEF Default

-----------------------------------------------------------------------------
(* What is inductive.                                                      *)

\* Types that say more of the server, of events and of the memory.
KeyboardInv ==
  /\ xkb \in [layouts : Lists, group : Nat] /\ xkb.group < Groups(xkb)
  /\ events \in Seq(Events)
  /\ stored \in Configs /\ config \in Configs
  /\ active \in Containers /\ desk \in Desktops
  /\ MemoryOK(layoutMap) /\ MemoryOK(session.map)
  /\ previousLayoutMapKey \in Keys \cup {NoKey}
  /\ listens \subseteq {"window", "desktop"}
  /\ running \in BOOLEAN /\ reloadDue \in BOOLEAN /\ raced \in BOOLEAN

LEMMA InvTypes == KeyboardInv => KeyboardTypeOK
<1> SUFFICES ASSUME KeyboardInv PROVE KeyboardTypeOK
  OBVIOUS
<1> USE DEF KeyboardInv
<1>1. xkb.group \in 0 .. Groups(xkb) - 1
  <2>1. Groups(xkb) \in 1 .. 4
    BY GroupsExist DEF MAX_GROUP_COUNT
  <2> QED
    BY <2>1
<1>2. \A i \in DOMAIN events : events[i].type \in {"layout", "map", "window", "desktop"}
  BY DEF Events
<1>3. ASSUME NEW f, MemoryOK(f) PROVE DOMAIN f \subseteq Keys /\ \A k \in DOMAIN f : Layouts(f[k])
  BY <1>3 DEF MemoryOK, LayoutSets, Layouts
<1> QED
  BY <1>1, <1>2, <1>3 DEF KeyboardTypeOK, Containers

\* A change of the server by the user or by another program.
LEMMA ServerChanged ==
  ASSUME KeyboardInv, NEW s, Good(s), LayoutsBecome(s)
  PROVE  /\ xkb' \in [layouts : Lists, group : Nat] /\ xkb'.group < Groups(xkb')
         /\ events' \in Seq(Events)
<1>1. xkb' = [layouts |-> s.layouts, group |-> s.group] /\ events' = events \o Queue(s)
  BY DEF LayoutsBecome
<1>2. xkb' \in [layouts : Lists, group : Nat] /\ xkb'.group < Groups(xkb')
  BY <1>1 DEF Good, Servers, Groups
<1>3. Queue(s) \in Seq(Events)
  BY DEF Queue, Events, Good, Servers
<1> QED
  BY <1>1, <1>2, <1>3 DEF KeyboardInv

LEMMA ServerGood == KeyboardInv => Good(Server)
BY DEF KeyboardInv, Good, Server, Servers, Groups

LEMMA KeyGood ==
  ASSUME KeyboardInv, NEW policy, NEW window \in Containers, NEW desktop \in Desktops
  PROVE  MapKey(policy, window, desktop) \in Keys \cup {NoKey}
BY DEF MapKey, Keys, KeyboardInv

LEMMA PutGood ==
  ASSUME NEW f, MemoryOK(f), NEW k \in Keys \cup {NoKey}, NEW v \in LayoutSets
  PROVE  MemoryOK(Put(f, k, v))
<1>1. CASE k = NoKey
  BY <1>1 DEF Put
<1>2. CASE k # NoKey
  <2>1. Put(f, k, v) = [x \in {k} \cup DOMAIN f |-> IF x = k THEN v ELSE f[x]]
    BY <1>2 DEF Put
  <2> QED
    BY <2>1, <1>2 DEF MemoryOK
<1> QED
  BY <1>1, <1>2

LEMMA RememberedGood ==
  ASSUME KeyboardInv, NEW c \in Configs
  PROVE  MemoryOK(Remembered(c))
<1>1. CurrentLayouts(xkb) \in LayoutSets
  BY CurrentGood DEF KeyboardInv
<1>2. MapKey(c.policy, active, desk) \in Keys \cup {NoKey} /\ MemoryOK(layoutMap)
  BY KeyGood DEF KeyboardInv
<1> QED
  BY <1>1, <1>2, PutGood DEF Remembered

-----------------------------------------------------------------------------
(* The steps.                                                              *)

\* What the steps of the user and of other programs leave alone.
LEMMA LayoutsStep ==
  ASSUME KeyboardInv, NEW s, Good(s), Changed(s), StaysButLayouts
  PROVE  KeyboardInv'
<1>1. /\ xkb' \in [layouts : Lists, group : Nat] /\ xkb'.group < Groups(xkb')
      /\ events' \in Seq(Events)
  BY ServerChanged DEF Changed
<1>2. raced' \in BOOLEAN
  BY DEF Changed
<1> QED
  BY <1>1, <1>2 DEF KeyboardInv, StaysButLayouts, memoryVars, wmVars, MemoryOK

LEMMA ServerSteps ==
  ASSUME KeyboardInv,
         SwitchToNextLayout \/ ScrollLayouts \/ SetLayoutByName \/ SwitchToSpareLayout \/ OtherSetsMap
  PROVE  KeyboardInv'
<1>1. Good(Server) /\ Server \in Servers
  BY ServerGood DEF Good
<1>2. CASE SwitchToNextLayout
  <2>1. Good(SetGroup(Server, xkb.group + 1))
    BY <1>1, SetGroupGood DEF KeyboardInv
  <2> QED
    BY <2>1, <1>2, LayoutsStep DEF SwitchToNextLayout
<1>3. CASE ScrollLayouts
  <2>1. PICK delta \in {1, -1} : Changed(Scrolled(Server, delta))
    BY <1>3 DEF ScrollLayouts
  <2>2. Good(Scrolled(Server, delta))
    BY <1>1, ScrolledGood
  <2> QED
    BY <2>1, <2>2, <1>3, LayoutsStep DEF ScrollLayouts
<1>4. CASE SetLayoutByName
  <2>1. PICK unit : Changed(SetLayout(Server, unit))
    BY <1>4 DEF SetLayoutByName
  <2> QED
    BY <2>1, <1>1, <1>4, SetLayoutGood, LayoutsStep DEF SetLayoutByName
<1>5. CASE SwitchToSpareLayout
  <2> DEFINE default == DefaultLayouts(config)
             Spared(unit) == Append(SubSeq(default, 1, Len(default) - 1), unit)
  <2>1. PICK unit \in Members(config.layouts), works \in BOOLEAN :
          Changed(SetLayout(SetXkbMap(Server, Spared(unit), works), unit))
    BY <1>5 DEF SwitchToSpareLayout
  <2>2. default \in Lists
    BY <1>5, DefaultLayoutsGood DEF SwitchToSpareLayout, KeyboardInv
  <2>3. unit \in STRING
    BY KeyboardAssumption DEF Members, KeyboardInv
  <2> HIDE DEF default
  <2>4. SubSeq(default, 1, Len(default) - 1) \in Seq(STRING)
    BY <2>2 DEF Lists
  <2>5. Spared(unit) \in Lists
    BY <2>3, <2>4 DEF Lists
  <2> HIDE DEF Spared
  <2>6. Good(SetLayout(SetXkbMap(Server, Spared(unit), works), unit))
    BY <1>1, <2>5, SetXkbMapGood, SetLayoutGood
  <2> QED
    BY <2>1, <2>6, <1>5, LayoutsStep DEF SwitchToSpareLayout
<1>6. CASE OtherSetsMap
  <2>1. PICK list \in Foreign : Changed(SetXkbMap(Server, list, TRUE))
    BY <1>6 DEF OtherSetsMap
  <2>2. list \in Lists
    BY KeyboardAssumption DEF Lists
  <2> QED
    BY <2>1, <2>2, <1>1, <1>6, SetXkbMapGood, LayoutsStep DEF OtherSetsMap
<1> QED
  BY <1>2, <1>3, <1>4, <1>5, <1>6

LEMMA UserSteps ==
  ASSUME KeyboardInv, ActivateWindow \/ SwitchDesktop
  PROVE  KeyboardInv'
<1>1. UNCHANGED <<xkb, stored, reloadDue, session, running, memoryVars, wmVars, raced>>
  BY DEF ActivateWindow, SwitchDesktop, StaysButEvents
<1>2. events' \in Seq(Events)
  <2>1. CASE ActivateWindow
    <3>1. PICK w \in Containers : Event("window", w)
      BY <2>1 DEF ActivateWindow, Containers
    <3>2. [type |-> "window", value |-> w] \in Events
      BY DEF Events
    <3> QED
      BY <3>1, <3>2 DEF Event, KeyboardInv
  <2>2. CASE SwitchDesktop
    <3>1. PICK d \in Desktops : Event("desktop", d)
      BY <2>2 DEF SwitchDesktop
    <3>2. [type |-> "desktop", value |-> d] \in Events
      BY DEF Events
    <3> QED
      BY <3>1, <3>2 DEF Event, KeyboardInv
  <2> QED
    BY <2>1, <2>2
<1> QED
  BY <1>1, <1>2 DEF KeyboardInv, memoryVars, wmVars, MemoryOK, Groups

LEMMA SaveConfigStep ==
  ASSUME KeyboardInv, SaveConfig
  PROVE  KeyboardInv'
<1>1. stored' \in Configs /\ reloadDue' \in BOOLEAN
  BY DEF SaveConfig, KeyboardInv
<1>2. raced' \in BOOLEAN
  BY DEF SaveConfig, KeyboardInv
<1> QED
  BY <1>1, <1>2 DEF SaveConfig, KeyboardInv, memoryVars, wmVars, MemoryOK, Groups

LEMMA ContainerStep ==
  ASSUME KeyboardInv, events # <<>>, NEW e, e = Head(events), e.type \in {"window", "desktop"},
         ContainerChanged(e)
  PROVE  /\ xkb' \in [layouts : Lists, group : Nat] /\ xkb'.group < Groups(xkb')
         /\ events' \in Seq(Events)
         /\ active' \in Containers /\ desk' \in Desktops
         /\ previousLayoutMapKey' \in Keys \cup {NoKey}
<1>1. e \in Events /\ Tail(events) \in Seq(Events)
  BY DEF KeyboardInv
<1>2. active' \in Containers /\ desk' \in Desktops
  BY <1>1 DEF ContainerChanged, KeyboardInv, Events
<1> DEFINE key == MapKey(config.policy, active', desk')
<1>3. key \in Keys \cup {NoKey}
  BY <1>2, KeyGood
<1>4. CASE running /\ e.type \in listens /\ key # NoKey
  <2> DEFINE There(works) == IF key \in DOMAIN layoutMap THEN FromMap(Server, config, layoutMap[key], works)
                             ELSE Default(Server, config, works)
  <2>0. PICK works \in BOOLEAN :
          /\ xkb' = [layouts |-> There(works).layouts, group |-> There(works).group]
          /\ events' = Tail(events) \o Queue(There(works)) /\ previousLayoutMapKey' = key
    BY <1>4 DEF ContainerChanged, SetCurrentLayoutFromMap
  <2> DEFINE s == There(works)
  <2>1. Good(s)
    BY ServerGood, FromMapGood, DefaultGood DEF KeyboardInv, MemoryOK
  <2>2. /\ xkb' = [layouts |-> s.layouts, group |-> s.group]
        /\ events' = Tail(events) \o Queue(s) /\ previousLayoutMapKey' = key
    BY <2>0
  <2> HIDE DEF s
  <2>3. Queue(s) \in Seq(Events)
    BY <2>1 DEF Queue, Events, Good, Servers
  <2>4. xkb' \in [layouts : Lists, group : Nat] /\ xkb'.group < Groups(xkb')
    BY <2>1, <2>2 DEF Good, Servers, Groups
  <2> QED
    BY <2>2, <2>3, <2>4, <1>1, <1>2, <1>3
<1>5. CASE ~(running /\ e.type \in listens /\ key # NoKey)
  <2>1. UNCHANGED <<xkb, previousLayoutMapKey>> /\ events' = Tail(events)
    BY <1>5 DEF ContainerChanged, SetCurrentLayoutFromMap
  <2> QED
    BY <2>1, <1>1, <1>2 DEF KeyboardInv, Groups
<1> QED
  BY <1>4, <1>5

LEMMA HandleEventStep ==
  ASSUME KeyboardInv, HandleEvent
  PROVE  KeyboardInv'
<1> DEFINE e == Head(events)
<1>1. events # <<>> /\ Tail(events) \in Seq(Events) /\ UNCHANGED <<stored, reloadDue, session, running>>
  BY DEF HandleEvent, KeyboardInv
<1>2. raced' \in BOOLEAN
  BY DEF HandleEvent
<1>3. MemoryOK(session.map)'
  BY <1>1 DEF KeyboardInv, MemoryOK
<1>4. CASE e.type \in {"window", "desktop"}
  <2>1. ContainerChanged(e)
    BY <1>4 DEF HandleEvent
  <2>2. UNCHANGED <<config, listens, layoutMap>>
    BY <2>1 DEF ContainerChanged
  <2> QED
    BY <2>1, <2>2, <1>1, <1>2, <1>3, <1>4, ContainerStep DEF KeyboardInv, MemoryOK
<1>5. CASE e.type = "layout" /\ running
  <2>1. LayoutChanged /\ events' = Tail(events)
    BY <1>5 DEF HandleEvent
  <2>2. MemoryOK(layoutMap')
    BY <2>1, RememberedGood DEF LayoutChanged, KeyboardInv
  <2> QED
    BY <2>1, <2>2, <1>1, <1>2, <1>3 DEF KeyboardInv, LayoutChanged, wmVars, Groups
<1>6. CASE e.type = "map" /\ running
  <2>1. LayoutMapChanged /\ events' = Tail(events)
    BY <1>6 DEF HandleEvent
  <2>2. MemoryOK(layoutMap')
    BY <2>1, RememberedGood DEF LayoutMapChanged, KeyboardInv, MemoryOK, NoMap
  <2> QED
    BY <2>1, <2>2, <1>1, <1>2, <1>3 DEF KeyboardInv, LayoutMapChanged, wmVars, Groups
<1>7. CASE ~(e.type \in {"window", "desktop"}) /\ ~(e.type = "layout" /\ running)
           /\ ~(e.type = "map" /\ running)
  <2>1. events' = Tail(events) /\ UNCHANGED <<xkb, memoryVars, wmVars>>
    BY <1>7 DEF HandleEvent
  <2> QED
    BY <2>1, <1>1, <1>2, <1>3 DEF KeyboardInv, memoryVars, wmVars, Groups, MemoryOK
<1> QED
  BY <1>4, <1>5, <1>6, <1>7

LEMMA ConfigureStep ==
  ASSUME KeyboardInv, ConfigureKeyboard
  PROVE  KeyboardInv'
<1>2. PICK works \in BOOLEAN : Changed(Configured(Server, stored, works))
  BY DEF ConfigureKeyboard
<1>1. Good(Configured(Server, stored, works))
  BY ServerGood, ConfiguredGood DEF KeyboardInv
<1>3. /\ xkb' \in [layouts : Lists, group : Nat] /\ xkb'.group < Groups(xkb')
      /\ events' \in Seq(Events)
  BY <1>1, <1>2, ServerChanged DEF Changed
<1>4. raced' \in BOOLEAN
  BY <1>2 DEF Changed
<1>5. listens' \subseteq {"window", "desktop"}
  BY DEF ConfigureKeyboard, Register, ListensFor
<1> QED
  BY <1>3, <1>4, <1>5 DEF ConfigureKeyboard, KeyboardInv, wmVars, MemoryOK

LEMMA StopStep ==
  ASSUME KeyboardInv, Stop
  PROVE  KeyboardInv'
<1>1. MemoryOK(session'.map)
  <2> DEFINE global == [NoFile EXCEPT !.policy = "Global", !.layout = CurrentLayouts(xkb).current]
             others == [NoFile EXCEPT !.policy = config.policy, !.map = layoutMap]
  <2>1. session' \in {session, NoFile, global, others}
    BY DEF Stop
  <2>2. NoFile.map = NoMap /\ global.map = NoMap /\ others.map = layoutMap
    BY DEF NoFile
  <2> HIDE DEF global, others
  <2> QED
    BY <2>1, <2>2 DEF KeyboardInv, MemoryOK, NoMap
<1>2. UNCHANGED <<xkb, stored, config, listens, layoutMap, previousLayoutMapKey, active, desk, raced>>
      /\ events' = <<>> /\ reloadDue' = FALSE /\ running' = FALSE
  BY DEF Stop, memoryVars, wmVars
<1>3. MemoryOK(layoutMap)'
  BY <1>2 DEF KeyboardInv, MemoryOK
<1>4. MemoryOK(session.map)'
  BY <1>1 DEF MemoryOK
<1>5. reloadDue' \in BOOLEAN /\ running' \in BOOLEAN
  BY <1>2, Zenon
<1>7. events' \in Seq(Events)
  BY <1>2
<1>6. (xkb \in [layouts : Lists, group : Nat])' /\ xkb'.group < Groups(xkb')
  BY <1>2 DEF KeyboardInv
<1> QED
  BY <1>2, <1>3, <1>4, <1>5, <1>6, <1>7 DEF KeyboardInv

LEMMA StartStep ==
  ASSUME KeyboardInv, Start
  PROVE  KeyboardInv'
<1>1. PICK list \in Fresh, restores \in BOOLEAN, works \in BOOLEAN :
        LET s == [Configured([layouts |-> list, group |-> 0, out |-> <<>>], stored, works) EXCEPT !.out = <<>>]
            usable == restores /\ session.policy = stored.policy
        IN  /\ LayoutsBecome(IF usable /\ stored.policy = "Global" /\ session.layout \in Members(stored.layouts)
                             THEN SetLayout(s, session.layout) ELSE s)
            /\ layoutMap' = IF usable THEN Restrict(session.map,
                                 {k \in DOMAIN session.map :
                                    Members(session.map[k].layouts) \subseteq Members(stored.layouts)})
                            ELSE NoMap
  BY DEF Start
<1> DEFINE fresh == [layouts |-> list, group |-> 0, out |-> <<>>]
           c == Configured(fresh, stored, works)
           s == [c EXCEPT !.out = <<>>]
<1>2. list \in Lists
  BY KeyboardAssumption DEF Lists
<1>3. Good(fresh)
  <2>1. fresh \in Servers /\ fresh.layouts \in Lists
    BY <1>2 DEF Servers
  <2>2. Groups(fresh) \in 1 .. 4
    BY <2>1, GroupsExist DEF MAX_GROUP_COUNT
  <2> QED
    BY <2>1, <2>2 DEF Good
<1> HIDE DEF fresh
<1>4. Good(c)
  BY <1>3, ConfiguredGood DEF KeyboardInv
<1> HIDE DEF c
<1>5. Good(s)
  <2>1. c \in Servers /\ c.group < Groups(c)
    BY <1>4 DEF Good
  <2>2. s.layouts = c.layouts /\ s.group = c.group
    BY <2>1 DEF Servers
  <2>4. s = [layouts |-> c.layouts, group |-> c.group, out |-> <<>>]
    BY <2>1 DEF Servers
  <2> HIDE DEF s
  <2>5. c.layouts \in Lists /\ c.group \in Nat /\ <<>> \in Seq({"layout", "map"})
    BY <2>1 DEF Servers
  <2>3. s \in Servers
    BY <2>4, <2>5 DEF Servers
  <2> QED
    BY <2>1, <2>2, <2>3 DEF Good, Groups
<1>6. PICK t : Good(t) /\ LayoutsBecome(t)
  BY <1>1, <1>5, SetLayoutGood DEF c, fresh
<1>7. /\ xkb' \in [layouts : Lists, group : Nat] /\ xkb'.group < Groups(xkb')
      /\ events' \in Seq(Events)
  BY <1>6, ServerChanged
<1>8. MemoryOK(layoutMap')
  BY <1>1 DEF Restrict, MemoryOK, KeyboardInv, NoMap
<1>9. listens' \subseteq {"window", "desktop"}
  BY DEF Start, ListensFor
<1>10. active' \in Containers /\ raced' \in BOOLEAN /\ running' \in BOOLEAN
  BY DEF Start, Containers
<1> QED
  BY <1>7, <1>8, <1>9, <1>10 DEF Start, KeyboardInv, MemoryOK

-----------------------------------------------------------------------------
(* The theorems.                                                           *)

LEMMA InvInit == Init => KeyboardInv
<1> SUFFICES ASSUME Init PROVE KeyboardInv
  OBVIOUS
<1>1. PICK list \in Fresh : xkb = [layouts |-> list, group |-> 0]
  BY DEF Init
<1>2. list \in Lists
  BY KeyboardAssumption DEF Lists
<1>3. xkb.layouts \in Lists /\ Groups(xkb) \in 1 .. 4
  BY <1>1, <1>2, GroupsExist DEF MAX_GROUP_COUNT
<1>4. xkb \in [layouts : Lists, group : Nat] /\ xkb.group < Groups(xkb)
  BY <1>1, <1>2, <1>3
<1>5. MemoryOK(layoutMap) /\ MemoryOK(session.map)
  BY DEF Init, NoFile, NoMap, MemoryOK
<1>6. events \in Seq(Events) /\ active \in Containers /\ listens \subseteq {"window", "desktop"}
  BY DEF Init, Containers
<1>7. running \in BOOLEAN /\ reloadDue \in BOOLEAN /\ raced \in BOOLEAN
  BY DEF Init
<1> QED
  BY <1>4, <1>5, <1>6, <1>7 DEF Init, KeyboardInv

LEMMA InvNext == KeyboardInv /\ [Next]_vars => KeyboardInv'
<1> SUFFICES ASSUME KeyboardInv, [Next]_vars PROVE KeyboardInv'
  OBVIOUS
<1>1. CASE SwitchToNextLayout \/ ScrollLayouts \/ SetLayoutByName \/ SwitchToSpareLayout \/ OtherSetsMap
  BY <1>1, ServerSteps
<1>2. CASE ActivateWindow \/ SwitchDesktop
  BY <1>2, UserSteps
<1>3. CASE SaveConfig
  BY <1>3, SaveConfigStep
<1>4. CASE HandleEvent
  BY <1>4, HandleEventStep
<1>5. CASE ConfigureKeyboard
  BY <1>5, ConfigureStep
<1>6. CASE Stop
  BY <1>6, StopStep
<1>7. CASE Start
  BY <1>7, StartStep
<1>8. CASE UNCHANGED vars
  BY <1>8 DEF vars, memoryVars, wmVars, KeyboardInv, MemoryOK, Groups
<1> QED
  BY <1>1, <1>2, <1>3, <1>4, <1>5, <1>6, <1>7, <1>8 DEF Next

\* The group of the server exists, and the memory holds layouts of a list, for windows,
\* applications and desktops only (layout_memory.cpp:69), whatever is configured, set by
\* other programs, restored or plugged in.
THEOREM KeyboardTypeCorrect == Spec => []KeyboardTypeOK
<1>1. Spec => []KeyboardInv
  BY InvInit, InvNext, PTL DEF Spec
<1> QED
  BY <1>1, InvTypes, PTL

\* What the daemon listens to is what the stored configuration needs, unless the
\* message that it has changed is on its way.
ListensInv == running /\ ~reloadDue => config = stored /\ listens = ListensFor(stored.policy)

LEMMA ListensNext == ListensInv /\ [Next]_vars => ListensInv'
<1> SUFFICES ASSUME ListensInv, [Next]_vars PROVE ListensInv'
  OBVIOUS
<1>1. CASE SwitchToNextLayout \/ ScrollLayouts \/ SetLayoutByName \/ SwitchToSpareLayout \/ OtherSetsMap
  BY <1>1 DEF ListensInv, SwitchToNextLayout, ScrollLayouts, SetLayoutByName, SwitchToSpareLayout,
       OtherSetsMap, StaysButLayouts, memoryVars
<1>2. CASE ActivateWindow \/ SwitchDesktop
  BY <1>2 DEF ListensInv, ActivateWindow, SwitchDesktop, StaysButEvents, memoryVars
<1>3. CASE SaveConfig
  BY <1>3 DEF ListensInv, SaveConfig
<1>4. CASE HandleEvent
  <2>1. UNCHANGED <<stored, reloadDue, running>>
    BY <1>4 DEF HandleEvent
  <2>2. listens' = listens /\ (config' = config \/ config' = stored)
    BY <1>4 DEF HandleEvent, ContainerChanged, LayoutChanged, LayoutMapChanged, memoryVars
  <2> QED
    BY <2>1, <2>2 DEF ListensInv
<1>5. CASE ConfigureKeyboard
  BY <1>5 DEF ListensInv, ConfigureKeyboard, Register
<1>6. CASE Stop \/ Start
  BY <1>6 DEF ListensInv, Stop, Start
<1>7. CASE UNCHANGED vars
  BY <1>7 DEF vars, memoryVars, ListensInv
<1> QED
  BY <1>1, <1>2, <1>3, <1>4, <1>5, <1>6, <1>7 DEF Next

\* The daemon listens to what its policy needs although layoutMapChanged() reads a new
\* policy without registering for it (keyboard_daemon.cpp:215): the message of the
\* settings module is then still on its way.
THEOREM ListensToItsPolicy == Spec => []ListensFollowPolicy
<1>1. Init => ListensInv
  BY DEF Init, ListensInv
<1>2. ListensInv => ListensFollowPolicy
  BY DEF ListensInv, ListensFollowPolicy
<1> QED
  BY <1>1, <1>2, ListensNext, PTL DEF Spec

-----------------------------------------------------------------------------
(* What a change of the server tells the daemon.                           *)

Says(s, type) == \E i \in 1 .. Len(s.out) : s.out[i] = type

\* t is s after calls of the server: the events tell what has changed.
Told(s, t) ==
  /\ Good(t)
  /\ \A type : Says(s, type) => Says(t, type)
  /\ t.layouts # s.layouts => Says(t, "map")
  /\ t.group # s.group => Says(t, "layout")

\* A layout the server can be asked for by its name.
Reachable(set) ==
  /\ set \in LayoutSets
  /\ \E i \in 1 .. Len(set.layouts) : i <= MAX_GROUP_COUNT /\ set.layouts[i] = set.current

LEMMA ToldMore ==
  ASSUME NEW s, NEW t, NEW u, Told(s, t), Told(t, u)
  PROVE  Told(s, u)
BY DEF Told

LEMMA ToldNothing ==
  ASSUME NEW s, Good(s)
  PROVE  Told(s, s)
BY DEF Told

LEMMA SaysMore ==
  ASSUME NEW s \in Servers, NEW v \in {"layout", "map"}, NEW t, t.out = Append(s.out, v)
  PROVE  Says(t, v) /\ \A type : Says(s, type) => Says(t, type)
<1>1. t.out = Append(s.out, v) /\ s.out \in Seq({"layout", "map"})
  BY DEF Servers
<1>2. /\ Len(t.out) = Len(s.out) + 1 /\ Len(s.out) \in Nat /\ t.out[Len(s.out) + 1] = v
      /\ \A i \in 1 .. Len(s.out) : t.out[i] = s.out[i]
  BY <1>1
<1>3. \A i \in 1 .. Len(s.out) : i \in 1 .. Len(t.out)
  BY <1>2
<1> QED
  BY <1>2, <1>3 DEF Says

LEMMA SetGroupTells ==
  ASSUME NEW s \in Servers, NEW g \in Int
  PROVE  /\ Good(SetGroup(s, g))
         /\ \A type : Says(s, type) => Says(SetGroup(s, g), type)
         /\ SetGroup(s, g).layouts = s.layouts
         /\ SetGroup(s, g).group # s.group => Says(SetGroup(s, g), "layout")
         /\ SetGroup(s, g).group = g % Groups(s)
<1> DEFINE to == g % Groups(s)
           t == SetGroup(s, g)
<1>1. Good(t) /\ t.layouts = s.layouts
  BY SetGroupGood
<1>2. CASE to = s.group
  BY <1>1, <1>2 DEF SetGroup
<1>3. CASE to # s.group
  <2>1. t = [layouts |-> s.layouts, group |-> to, out |-> Append(s.out, "layout")]
    BY <1>3 DEF SetGroup
  <2>2. t.group = to
    BY <2>1
  <2> QED
    BY <1>1, <2>1, <2>2, SaysMore
<1> QED
  BY <1>2, <1>3

LEMMA SetGroupTold ==
  ASSUME NEW s, Good(s), NEW g \in Int
  PROVE  Told(s, SetGroup(s, g))
BY SetGroupTells DEF Told, Good

LEMMA SetXkbMapTold ==
  ASSUME NEW s, Good(s), NEW list \in Lists, NEW works \in BOOLEAN
  PROVE  Told(s, SetXkbMap(s, list, works))
<1> DEFINE t == [layouts |-> list, group |-> s.group, out |-> Append(s.out, "map")]
           u == SetGroup(t, s.group)
<1>1. s \in Servers /\ s.group \in Int
  BY DEF Good, Servers
<1>2. t \in Servers /\ t.group = s.group
  BY <1>1 DEF Servers
<1>3. Says(t, "map") /\ \A type : Says(s, type) => Says(t, type)
  BY <1>1, SaysMore
<1>4. /\ Good(u)
      /\ u.group # t.group => Says(u, "layout")
      /\ \A type : Says(t, type) => Says(u, type)
  BY <1>1, <1>2, SetGroupTells
<1>5. SetXkbMap(s, list, works) = IF works THEN u ELSE s
  BY DEF SetXkbMap
<1> HIDE DEF t, u
<1> QED
  BY <1>2, <1>3, <1>4, <1>5, ToldNothing DEF Told

\* The first place of a layout is one the server has.
LEMMA SetLayoutPlace ==
  ASSUME NEW s, Good(s), NEW unit
  PROVE  \/ SetLayout(s, unit) = s
            /\ ~(\E i \in 1 .. Len(s.layouts) : i <= MAX_GROUP_COUNT /\ s.layouts[i] = unit)
         \/ \E i \in 1 .. Len(s.layouts) :
              i <= MAX_GROUP_COUNT /\ s.layouts[i] = unit /\ SetLayout(s, unit) = SetGroup(s, i - 1)
<1> DEFINE First(i) == s.layouts[i] = unit /\ \A j \in 1 .. i - 1 : s.layouts[j] # unit
           n == Len(s.layouts)
           there == \E i \in 1 .. n : i <= MAX_GROUP_COUNT /\ s.layouts[i] = unit
           first == CHOOSE i \in 1 .. n : First(i)
<1>0. n \in Nat
  BY DEF Good, Servers, Lists
<1>1. CASE ~there
  BY <1>1 DEF SetLayout
<1>2. CASE there
  <2>1. PICK i \in 1 .. n : i <= 4 /\ s.layouts[i] = unit
    BY <1>2 DEF MAX_GROUP_COUNT
  <2>2. \E k \in 1 .. n : First(k)
    <3>1. CASE s.layouts[1] = unit
      BY <3>1, <2>1, <1>0
    <3>2. CASE s.layouts[1] # unit /\ s.layouts[2] = unit
      BY <3>2, <2>1, <1>0
    <3>3. CASE s.layouts[1] # unit /\ s.layouts[2] # unit /\ s.layouts[3] = unit
      BY <3>3, <2>1, <1>0
    <3>4. CASE s.layouts[1] # unit /\ s.layouts[2] # unit /\ s.layouts[3] # unit
      BY <3>4, <2>1, <1>0
    <3> QED
      BY <3>1, <3>2, <3>3, <3>4
  <2>3. first \in 1 .. n /\ First(first)
    BY <2>2
  <2>4. SetLayout(s, unit) = SetGroup(s, first - 1)
    BY <1>2 DEF SetLayout
  <2> HIDE DEF first, n
  <2>5. first <= i
    BY <2>1, <2>3, <1>0
  <2>6. first <= MAX_GROUP_COUNT
    BY <2>1, <2>3, <2>5, <1>0 DEF MAX_GROUP_COUNT
  <2> QED
    BY <2>3, <2>4, <2>6 DEF n
<1> QED
  BY <1>1, <1>2

LEMMA SetLayoutTold ==
  ASSUME NEW s, Good(s), NEW unit
  PROVE  Told(s, SetLayout(s, unit)) /\ SetLayout(s, unit).layouts = s.layouts
<1>1. SetLayout(s, unit) = s \/ \E g \in Int : SetLayout(s, unit) = SetGroup(s, g)
  <2>1. Len(s.layouts) \in Nat
    BY DEF Good, Servers, Lists
  <2> QED
    BY <2>1, SetLayoutPlace
<1>2. s \in Servers
  BY DEF Good
<1> QED
  BY <1>1, <1>2, ToldNothing, SetGroupTold, SetGroupGood

\* The server does what it is asked for.
LEMMA SetLayoutSets ==
  ASSUME NEW s, Good(s), NEW set, Reachable(set), s.layouts = set.layouts
  PROVE  CurrentLayouts(SetLayout(s, set.current)) = set
<1> DEFINE t == SetLayout(s, set.current)
<1>1. PICK i \in 1 .. Len(s.layouts) :
        i <= MAX_GROUP_COUNT /\ s.layouts[i] = set.current /\ t = SetGroup(s, i - 1)
  BY SetLayoutPlace DEF Reachable
<1> DEFINE n == Len(s.layouts)
<1>2. s \in Servers /\ n \in Nat /\ Groups(s) = IF n > 4 THEN 4 ELSE n
  BY DEF Good, Servers, Lists, Groups, MAX_GROUP_COUNT
<1>3. i \in 1 .. n /\ i <= 4
  BY <1>1 DEF MAX_GROUP_COUNT
<1> HIDE DEF n
<1>4. (i - 1) % Groups(s) = i - 1 /\ i - 1 \in Int
  BY <1>2, <1>3
<1>5. t.layouts = s.layouts /\ t.group = i - 1
  BY <1>1, <1>2, <1>4, SetGroupTells
<1>6. t.group + 1 = i
  BY <1>2, <1>3, <1>5
<1>7. CurrentLayouts(t) = [layouts |-> set.layouts, current |-> set.current]
  BY <1>1, <1>5, <1>6 DEF CurrentLayouts
<1>8. set = [layouts |-> set.layouts, current |-> set.current]
  BY DEF Reachable, LayoutSets
<1> QED
  BY <1>7, <1>8

LEMMA ScrolledTold ==
  ASSUME NEW s, Good(s), NEW delta \in Int
  PROVE  Told(s, Scrolled(s, delta))
<1> DEFINE size == Len(s.layouts)
           group == s.group + delta
           to == IF group < 0 THEN size - ((-group) % size) ELSE group % size
<1>1. size \in Nat /\ size > 0 /\ group \in Int
  BY DEF Good, Servers, Lists
<1>2. to \in Int
  BY <1>1
<1>3. Scrolled(s, delta) = SetGroup(s, to)
  BY DEF Scrolled
<1> QED
  BY <1>2, <1>3, SetGroupTold

LEMMA ConfiguredTold ==
  ASSUME NEW s, Good(s), NEW c \in Configs, NEW works \in BOOLEAN
  PROVE  Told(s, Configured(s, c, works))
BY DefaultLayoutsGood, SetXkbMapTold, ToldNothing DEF Configured

LEMMA FromMapTold ==
  ASSUME NEW s, Good(s), NEW c \in Configs, NEW saved \in LayoutSets, NEW works \in BOOLEAN
  PROVE  /\ Told(s, FromMap(s, c, saved, works))
         /\ ~UsesSpare(c) => FromMap(s, c, saved, works).layouts = s.layouts
<1> DEFINE there == IF saved.layouts # s.layouts /\ UsesSpare(c)
                    THEN SetXkbMap(s, saved.layouts, works) ELSE s
<1>1. saved.layouts \in Lists
  BY DEF LayoutSets
<1>2. Told(s, there) /\ Good(there)
  BY <1>1, SetXkbMapTold, ToldNothing DEF Told
<1>3. /\ FromMap(s, c, saved, works) \in {s, SetLayout(there, saved.current)}
      /\ ~UsesSpare(c) => there = s
  BY DEF FromMap
<1> HIDE DEF there
<1> QED
  BY <1>2, <1>3, SetLayoutTold, ToldMore, ToldNothing

\* What was remembered is found again, but where the daemon may not set its list, or
\* setxkbmap fails.
LEMMA FromMapSets ==
  ASSUME NEW s, Good(s), NEW c \in Configs, NEW saved, Reachable(saved),
         NEW works \in BOOLEAN, saved.layouts = s.layouts \/ (UsesSpare(c) /\ works)
  PROVE  CurrentLayouts(FromMap(s, c, saved, works)) = saved
<1> DEFINE there == IF saved.layouts # s.layouts /\ UsesSpare(c)
                    THEN SetXkbMap(s, saved.layouts, works) ELSE s
<1>1. saved.layouts \in Lists /\ s \in Servers
  BY DEF LayoutSets, Reachable, Good
<1>2. Good(there) /\ there.layouts = saved.layouts
  BY <1>1, SetXkbMapGood
<1>3. FromMap(s, c, saved, works) = IF saved = CurrentLayouts(s) THEN s ELSE SetLayout(there, saved.current)
  BY DEF FromMap
<1> HIDE DEF there
<1> QED
  BY <1>2, <1>3, SetLayoutSets

LEMMA DefaultTold ==
  ASSUME NEW s, Good(s), NEW c \in Configs, NEW works \in BOOLEAN
  PROVE  /\ Told(s, Default(s, c, works))
         /\ ~UsesSpare(c) => Default(s, c, works).layouts = s.layouts
<1> DEFINE there == IF UsesSpare(c) /\ s.layouts # DefaultLayouts(c)
                    THEN SetXkbMap(s, DefaultLayouts(c), works) ELSE s
<1>1. Told(s, there) /\ Good(there)
  BY DefaultLayoutsGood, SetXkbMapTold, ToldNothing DEF Told, UsesSpare
<1>2. Default(s, c, works) = (IF s.group = 0 THEN s ELSE SetGroup(there, 0)) /\ (~UsesSpare(c) => there = s)
  BY DEF Default
<1> HIDE DEF there
<1>3. there \in Servers /\ 0 \in Int
  BY <1>1 DEF Good
<1> QED
  BY <1>1, <1>2, <1>3, SetGroupTold, SetGroupGood, ToldMore, ToldNothing

LEMMA CurrentReachable ==
  ASSUME NEW s, s.layouts \in Lists, s.group \in Nat, s.group < Groups(s)
  PROVE  Reachable(CurrentLayouts(s))
<1>1. Groups(s) \in 1 .. 4 /\ Groups(s) <= Len(s.layouts) /\ Len(s.layouts) \in Nat
  BY GroupsExist DEF MAX_GROUP_COUNT, Lists
<1> DEFINE i == s.group + 1
           n == Len(s.layouts)
<1>2. i \in 1 .. n /\ i <= MAX_GROUP_COUNT
  <2> DEFINE g == Groups(s)
  <2>1. g \in 1 .. 4 /\ g <= n /\ n \in Nat /\ s.group < g
    BY <1>1
  <2> HIDE DEF g, n
  <2> QED
    BY <2>1 DEF MAX_GROUP_COUNT
<1>3. CurrentLayouts(s).layouts = s.layouts /\ CurrentLayouts(s).current = s.layouts[i]
  BY DEF CurrentLayouts
<1>4. CurrentLayouts(s) \in LayoutSets
  BY CurrentGood
<1> HIDE DEF i
<1> QED
  BY <1>2, <1>3, <1>4 DEF Reachable

-----------------------------------------------------------------------------
(* What the daemon will hear before it hears of another container.         *)

Container == {"window", "desktop"}
Has(q, type) == \E i \in 1 .. Len(q) : q[i].type = type
Before(q, i) == \A j \in 1 .. i : q[j].type \notin Container
Due(q, type) == \E i \in 1 .. Len(q) : q[i].type = type /\ Before(q, i)
MapThenLayout(q) ==
  \E i, j \in 1 .. Len(q) : i < j /\ q[i].type = "map" /\ q[j].type = "layout" /\ Before(q, j)

LEMMA Joined ==
  ASSUME NEW q \in Seq(Events), NEW r \in Seq(Events), NEW p, p = q \o r
  PROVE  /\ Len(q) \in Nat /\ Len(r) \in Nat /\ Len(p) = Len(q) + Len(r)
         /\ \A i \in 1 .. Len(q) : p[i] = q[i]
         /\ \A i \in 1 .. Len(r) : p[Len(q) + i] = r[i]
OBVIOUS

LEMMA DueStays ==
  ASSUME NEW q \in Seq(Events), NEW r \in Seq(Events)
  PROVE  /\ \A type : Due(q, type) => Due(q \o r, type)
         /\ MapThenLayout(q) => MapThenLayout(q \o r)
         /\ \A type : Has(q, type) => Has(q \o r, type)
         /\ \A type : Has(r, type) => Has(q \o r, type)
<1> DEFINE p == q \o r
<1>1. /\ Len(q) \in Nat /\ Len(r) \in Nat /\ Len(p) = Len(q) + Len(r)
      /\ \A i \in 1 .. Len(q) : p[i] = q[i]
      /\ \A i \in 1 .. Len(r) : p[Len(q) + i] = r[i]
  BY Joined
<1> HIDE DEF p
<1>2. /\ \A i \in 1 .. Len(q) : i \in 1 .. Len(p)
      /\ \A i \in 1 .. Len(r) : Len(q) + i \in 1 .. Len(p)
  BY <1>1
<1>3. \A i \in 1 .. Len(q) : \A j \in 1 .. i : j \in 1 .. Len(q)
  BY <1>1
<1>4. \A i \in 1 .. Len(q) : Before(q, i) => Before(p, i)
  BY <1>1, <1>3 DEF Before
<1>5. \A type : Due(q, type) => Due(p, type)
  BY <1>1, <1>2, <1>4 DEF Due
<1>6. MapThenLayout(q) => MapThenLayout(p)
  BY <1>1, <1>2, <1>4 DEF MapThenLayout
<1>7. \A type : (Has(q, type) => Has(p, type)) /\ (Has(r, type) => Has(p, type))
  BY <1>1, <1>2 DEF Has
<1> QED
  BY <1>5, <1>6, <1>7 DEF p

\* While no event of a container waits, what is told next is due.
LEMMA DueNext ==
  ASSUME NEW q \in Seq(Events), NEW r \in Seq(Events),
         \A t \in Container : ~Has(q, t) /\ ~Has(r, t)
  PROVE  /\ \A type : Has(r, type) => Due(q \o r, type)
         /\ Has(q, "map") /\ Has(r, "layout") => MapThenLayout(q \o r)
<1> DEFINE p == q \o r
           n == Len(q)
           m == Len(r)
<1>1. /\ n \in Nat /\ m \in Nat /\ Len(p) = n + m
      /\ \A i \in 1 .. n : p[i] = q[i]
      /\ \A i \in 1 .. m : p[n + i] = r[i]
  BY Joined
<1>0. (\A i \in 1 .. n : q[i].type \notin Container) /\ (\A i \in 1 .. m : r[i].type \notin Container)
  BY DEF Has
<1> HIDE DEF p, n, m
<1>2. \A i \in 1 .. Len(p) : p[i].type \notin Container
  <2> SUFFICES ASSUME NEW i \in 1 .. Len(p) PROVE p[i].type \notin Container
    OBVIOUS
  <2>1. CASE i <= n
    BY <2>1, <1>0, <1>1
  <2>2. CASE i > n
    <3>1. i - n \in 1 .. m /\ n + (i - n) = i
      BY <2>2, <1>1
    <3> QED
      BY <3>1, <1>0, <1>1
  <2> QED
    BY <2>1, <2>2, <1>1
<1>3. \A i \in 1 .. Len(p) : Before(p, i)
  <2>1. Len(p) \in Nat
    BY <1>1
  <2> QED
    BY <1>2, <2>1 DEF Before
<1>4. \A i \in 1 .. m : n + i \in 1 .. Len(p)
  BY <1>1
<1>5. ASSUME NEW type, Has(r, type) PROVE Due(p, type)
  BY <1>1, <1>3, <1>4, <1>5 DEF Due, Has, m
<1>6. ASSUME Has(q, "map"), Has(r, "layout") PROVE MapThenLayout(p)
  <2>1. PICK i \in 1 .. n : q[i].type = "map"
    BY <1>6 DEF Has, n
  <2>2. PICK j \in 1 .. m : r[j].type = "layout"
    BY <1>6 DEF Has, m
  <2>3. i \in 1 .. Len(p) /\ n + j \in 1 .. Len(p) /\ i < n + j
    BY <1>1, <2>1, <2>2
  <2> QED
    BY <1>1, <1>3, <2>1, <2>2, <2>3 DEF MapThenLayout
<1> QED
  BY <1>5, <1>6 DEF p

LEMMA TailItems ==
  ASSUME NEW q \in Seq(Events), q # <<>>
  PROVE  /\ Len(q) \in Nat /\ Len(q) > 0 /\ Len(Tail(q)) = Len(q) - 1 /\ Head(q) = q[1]
         /\ \A i \in 1 .. Len(Tail(q)) : Tail(q)[i] = q[i + 1]
OBVIOUS

\* One event is handled.
LEMMA DueTail ==
  ASSUME NEW q \in Seq(Events), q # <<>>
  PROVE  /\ Head(q).type \in Container => ~MapThenLayout(q) /\ \A type : ~Due(q, type)
         /\ \A type : Due(q, type) /\ Head(q).type # type => Due(Tail(q), type)
         /\ MapThenLayout(q) /\ Head(q).type # "map" => MapThenLayout(Tail(q))
         /\ MapThenLayout(q) => Due(Tail(q), "layout")
         /\ \A type : Has(q, type) /\ Head(q).type # type => Has(Tail(q), type)
<1> DEFINE t == Tail(q)
           n == Len(q)
<1>1. /\ n \in Nat /\ n > 0 /\ Len(t) = n - 1 /\ Head(q) = q[1]
      /\ \A i \in 1 .. Len(t) : t[i] = q[i + 1]
  BY TailItems
<1> HIDE DEF t, n
<1>2. ASSUME NEW i \in 1 .. n, Before(q, i) PROVE q[1].type \notin Container
  BY <1>1, <1>2 DEF Before
<1>3. ASSUME NEW i \in 1 .. n, i # 1
      PROVE  i - 1 \in 1 .. Len(t) /\ t[i - 1] = q[i] /\ (Before(q, i) => Before(t, i - 1))
  <2>1. i - 1 \in 1 .. Len(t) /\ (i - 1) + 1 = i
    BY <1>1, <1>3
  <2>2. ASSUME Before(q, i), NEW j \in 1 .. i - 1 PROVE t[j].type \notin Container
    <3>1. j \in 1 .. Len(t) /\ j + 1 \in 1 .. i
      BY <1>1, <2>2, <1>3
    <3> QED
      BY <3>1, <2>2, <1>1 DEF Before
  <2> QED
    BY <2>1, <2>2, <1>1 DEF Before
<1>4. Head(q).type \in Container => ~MapThenLayout(q) /\ \A type : ~Due(q, type)
  BY <1>1, <1>2 DEF MapThenLayout, Due, n
<1>5. ASSUME NEW type, Due(q, type), Head(q).type # type PROVE Due(t, type)
  <2>1. PICK i \in 1 .. n : q[i].type = type /\ Before(q, i)
    BY <1>5 DEF Due, n
  <2>2. i # 1
    BY <1>1, <1>5, <2>1
  <2> QED
    BY <2>1, <2>2, <1>3 DEF Due
<1>6. ASSUME MapThenLayout(q)
      PROVE  Due(t, "layout") /\ (Head(q).type # "map" => MapThenLayout(t))
  <2>1. PICK i \in 1 .. n, j \in 1 .. n :
          i < j /\ q[i].type = "map" /\ q[j].type = "layout" /\ Before(q, j)
    BY <1>6 DEF MapThenLayout, n
  <2>2. j # 1 /\ i - 1 < j - 1
    BY <1>1, <2>1
  <2>3. Due(t, "layout")
    BY <2>1, <2>2, <1>3 DEF Due
  <2>4. ASSUME Head(q).type # "map" PROVE MapThenLayout(t)
    <3>1. i # 1
      BY <1>1, <2>1, <2>4
    <3> QED
      BY <2>1, <2>2, <3>1, <1>3 DEF MapThenLayout
  <2> QED
    BY <2>3, <2>4
<1>7. ASSUME NEW type, Has(q, type), Head(q).type # type PROVE Has(t, type)
  <2>1. PICK i \in 1 .. n : q[i].type = type
    BY <1>7 DEF Has, n
  <2>2. i # 1
    BY <1>1, <1>7, <2>1
  <2> QED
    BY <2>1, <2>2, <1>3 DEF Has
<1> QED
  BY <1>4, <1>5, <1>6, <1>7 DEF t

\* What the server says is put in the queue.
LEMMA QueueSays ==
  ASSUME NEW s, Good(s)
  PROVE  /\ Queue(s) \in Seq(Events)
         /\ \A type : Says(s, type) => Has(Queue(s), type)
         /\ \A type \in Container : ~Has(Queue(s), type)
<1>1. s.out \in Seq({"layout", "map"})
  BY DEF Good, Servers
<1>2. /\ Queue(s) \in Seq(Events) /\ Len(Queue(s)) = Len(s.out)
      /\ \A i \in 1 .. Len(s.out) : Queue(s)[i].type = s.out[i]
  BY <1>1 DEF Queue, Events
<1>3. \A i \in 1 .. Len(s.out) : s.out[i] \in {"layout", "map"}
  BY <1>1
<1> QED
  BY <1>2, <1>3 DEF Says, Has, Container

-----------------------------------------------------------------------------
(* Who comes back finds the same layouts.                                  *)

\* The container the daemon takes the user to be in, and a list with spare layouts.
Here == MapKey(config.policy, active, desk)
Spare(list) == UsesSpare(config) /\ IsExtraSubset(config.layouts, list)

\* The daemon is to hear of another list, and will then forget what it remembers.
ListIsNews == noticed /\ xkb.layouts # prevLayoutList
Forgets == ListIsNews /\ ~Spare(xkb.layouts)

\* What the user last had in a container is in the memory, or is what the server has
\* and an event that is due makes the daemon remember it.
Recorded(k) == k \in DOMAIN layoutMap /\ layoutMap[k] = mine[k]
ToRecord ==
  \/ Due(events, "layout")
  \/ Due(events, "map") /\ (noticed => xkb.layouts # prevLayoutList /\ Spare(xkb.layouts))
Kept(k) ==
  /\ k # NoKey /\ Reachable(mine[k])
  /\ UsesSpare(config) \/ mine[k].layouts = xkb.layouts
  /\ k = Here => mine[k] = CurrentLayouts(xkb)
  /\ Recorded(k) \/ (k = Here /\ ToRecord)
  /\ Forgets => k = Here /\ MapThenLayout(events)

RunInv ==
  /\ ListIsNews => Has(events, "map")
  /\ reloadDue => raced
  /\ ~raced => config = stored /\ listens = ListensFor(config.policy)
  /\ raced => mine = NoMap
  /\ \A k \in DOMAIN mine : Kept(k)

MemoryInv == IF running THEN RunInv ELSE events = <<>> /\ ~reloadDue

LEMMA NothingKept ==
  ASSUME mine' = NoMap
  PROVE  \A k \in DOMAIN mine' : Kept(k)'
<1>1. DOMAIN mine' = {}
  BY DEF NoMap
<1> QED
  BY <1>1

LEMMA PutValues ==
  ASSUME NEW f, NEW k, NEW v, NEW x, x \in DOMAIN Put(f, k, v)
  PROVE  \/ x = k /\ k # NoKey /\ Put(f, k, v)[x] = v
         \/ (x # k \/ k = NoKey) /\ x \in DOMAIN f /\ Put(f, k, v)[x] = f[x]
<1>1. CASE k = NoKey
  BY <1>1 DEF Put
<1>2. CASE k # NoKey
  <2>1. Put(f, k, v) = [y \in {k} \cup DOMAIN f |-> IF y = k THEN v ELSE f[y]]
    BY <1>2 DEF Put
  <2> QED
    BY <1>2, <2>1
<1> QED
  BY <1>1, <1>2

\* What Put() leaves, and what it adds.
LEMMA PutKeeps ==
  ASSUME NEW f, NEW k, NEW v, NEW x
  PROVE  /\ x # k /\ x \in DOMAIN f => x \in DOMAIN Put(f, k, v) /\ Put(f, k, v)[x] = f[x]
         /\ k # NoKey => k \in DOMAIN Put(f, k, v) /\ Put(f, k, v)[k] = v
<1>1. CASE k = NoKey
  BY <1>1 DEF Put
<1>2. CASE k # NoKey
  <2>1. Put(f, k, v) = [y \in {k} \cup DOMAIN f |-> IF y = k THEN v ELSE f[y]]
    BY <1>2 DEF Put
  <2> QED
    BY <1>2, <2>1
<1> QED
  BY <1>1, <1>2

\* While no event of a container waits, the daemon knows where the user is.
LEMMA KnowsWhere ==
  ASSUME \A t \in Container : ~Has(events, t)
  PROVE  UserKey = Here
BY DEF UserKey, Here, LastOf, Has, Container

LEMMA WaitsHas ==
  ASSUME KeyboardInv, NEW types
  PROVE  Waits(types) <=> \E t \in types : Has(events, t)
BY DEF Waits, Has

\* A change of the server by the user or by another program.
LEMMA ChangedKeeps ==
  ASSUME KeyboardInv, RunInv, NEW s, Told(Server, s), Changed(s),
         config' = config \/ raced,
         UNCHANGED <<active, desk, layoutMap, prevLayoutList, previousLayoutMapKey, noticed>>
  PROVE  /\ ListIsNews' => Has(events', "map")
         /\ raced => raced'
         /\ raced' => mine' = NoMap
         /\ \A k \in DOMAIN mine' : Kept(k)'
<1> DEFINE q == events
           r == Queue(s)
<1>0. Good(s) /\ Server.layouts = xkb.layouts /\ Server.group = xkb.group
  BY DEF Told, Server
<1>1. xkb'.layouts = s.layouts /\ xkb'.group = s.group /\ events' = q \o r
  BY DEF Changed, LayoutsBecome
<1>2. /\ q \in Seq(Events) /\ r \in Seq(Events)
      /\ \A type : Says(s, type) => Has(r, type)
      /\ \A type \in Container : ~Has(r, type)
  BY <1>0, QueueSays DEF KeyboardInv
<1>3. (s.layouts # xkb.layouts => Has(r, "map")) /\ (s.group # xkb.group => Has(r, "layout"))
  BY <1>0, <1>2 DEF Told
<1> HIDE DEF q, r
<1>4. /\ \A type : Due(q, type) => Due(q \o r, type)
      /\ MapThenLayout(q) => MapThenLayout(q \o r)
      /\ \A type : Has(q, type) => Has(q \o r, type)
      /\ \A type : Has(r, type) => Has(q \o r, type)
  BY <1>2, DueStays
<1>5. ListIsNews' => Has(events', "map")
  BY <1>1, <1>3, <1>4 DEF ListIsNews, RunInv, q
<1> DEFINE races == \/ raced
                    \/ s.out # <<>> /\ Waits({"window", "desktop"})
                    \/ s.layouts # xkb.layouts /\ Waits({"map"})
<1>6. raced' = races /\ (races => mine' = NoMap)
  BY DEF Changed
<1>7. CASE mine' = NoMap
  BY <1>5, <1>6, <1>7, NothingKept
<1>8. CASE mine' # NoMap
  <2>1. ~races /\ ~raced' /\ ~OtherList(s)
    BY <1>6, <1>8 DEF Changed
  <2>2. config' = config /\ Here' = Here
    <3>1. config' = config
      BY <2>1
    <3> QED
      BY <3>1 DEF Here, MapKey
  <2>3. CurrentLayouts(xkb') = CurrentLayouts(s)
    BY <1>1 DEF CurrentLayouts
  <2>4. s.layouts = xkb.layouts \/ Spare(s.layouts)
    BY <2>1 DEF OtherList, Spare
  <2>5. UsesSpare(config') \/ s.layouts = xkb.layouts
    BY <2>2, <2>4 DEF Spare
  <2>6. Forgets' => Forgets /\ s.layouts = xkb.layouts
    BY <1>1, <2>2, <2>4 DEF Forgets, ListIsNews, Spare
  <2>7. CASE CurrentLayouts(s) = CurrentLayouts(xkb)
    <3>1. mine' = mine /\ s.layouts = xkb.layouts
      BY <2>1, <2>7 DEF Changed, CurrentLayouts
    <3> SUFFICES ASSUME NEW k \in DOMAIN mine' PROVE Kept(k)'
      BY <1>5, <1>6, <2>1
    <3>2. Kept(k) /\ mine'[k] = mine[k]
      BY <3>1 DEF RunInv
    <3>3. k # NoKey /\ Reachable(mine'[k]) /\ (UsesSpare(config') \/ mine'[k].layouts = xkb'.layouts)
      BY <1>1, <2>2, <3>1, <3>2 DEF Kept
    <3>4. k = Here' => mine'[k] = CurrentLayouts(xkb')
      BY <2>2, <2>3, <2>7, <3>2 DEF Kept
    <3>5. ToRecord => ToRecord'
      BY <1>1, <1>4, <2>2, <3>1 DEF ToRecord, Spare, q
    <3>6. Recorded(k)' \/ (k = Here' /\ ToRecord')
      BY <2>2, <3>2, <3>5 DEF Kept, Recorded
    <3>7. Forgets' => k = Here' /\ MapThenLayout(events')
      BY <1>1, <1>4, <2>2, <2>6, <3>2 DEF Kept, q
    <3> QED
      BY <3>3, <3>4, <3>6, <3>7 DEF Kept
  <2>8. CASE CurrentLayouts(s) # CurrentLayouts(xkb)
    <3>1. s.layouts # xkb.layouts \/ s.group # xkb.group
      BY <2>8 DEF CurrentLayouts
    <3>2. s.out # <<>>
      <4>1. \E type : Says(s, type)
        BY <1>0, <3>1 DEF Told
      <4> QED
        BY <4>1 DEF Says
    <3>3. /\ \A t \in Container : ~Has(q, t)
          /\ s.layouts # xkb.layouts => ~Has(q, "map")
      BY <2>1, <3>2, WaitsHas DEF Container, q
    <3>4. UserKey = Here
      BY <3>3, KnowsWhere DEF q
    <3>5. mine' = Put(mine, Here, CurrentLayouts(s))
      BY <2>1, <2>8, <3>4 DEF Changed
    <3>6. /\ \A type : Has(r, type) => Due(q \o r, type)
          /\ Has(q, "map") /\ Has(r, "layout") => MapThenLayout(q \o r)
      BY <1>2, <3>3, DueNext
    <3> SUFFICES ASSUME NEW k \in DOMAIN mine' PROVE Kept(k)'
      BY <1>5, <1>6, <2>1
    <3>7. CASE k = Here /\ Here # NoKey /\ mine'[k] = CurrentLayouts(s)
      <4>1. Reachable(mine'[k])
        BY <1>0, <3>7, CurrentReachable DEF Good, Servers
      <4>2. mine'[k].layouts = xkb'.layouts
        BY <1>1, <3>7 DEF CurrentLayouts
      <4>3. ToRecord'
        <5>1. CASE s.layouts = xkb.layouts
          <6>1. Has(r, "layout")
            BY <1>3, <3>1, <5>1
          <6> QED
            BY <6>1, <1>1, <3>6 DEF ToRecord
        <5>2. CASE s.layouts # xkb.layouts
          <6>1. Due(events', "map")
            BY <1>1, <1>3, <3>6, <5>2
          <6>2. noticed => xkb.layouts = prevLayoutList
            BY <3>3, <5>2 DEF RunInv, ListIsNews, q
          <6> QED
            BY <6>1, <6>2, <1>1, <2>2, <2>4, <5>2 DEF ToRecord, Spare
        <5> QED
          BY <5>1, <5>2
      <4>4. Forgets' => MapThenLayout(events')
        <5> SUFFICES ASSUME Forgets' PROVE MapThenLayout(events')
          OBVIOUS
        <5>1. Forgets /\ s.layouts = xkb.layouts
          BY <2>6
        <5>2. Has(q, "map") /\ Has(r, "layout")
          BY <5>1, <1>3, <3>1 DEF Forgets, RunInv, q
        <5> QED
          BY <5>2, <1>1, <3>6
      <4> QED
        BY <2>2, <2>3, <3>7, <4>1, <4>2, <4>3, <4>4 DEF Kept
    <3>8. CASE (k # Here \/ Here = NoKey) /\ k \in DOMAIN mine /\ mine'[k] = mine[k]
      <4>1. Kept(k)
        BY <3>8 DEF RunInv
      <4>2. k # NoKey /\ Reachable(mine'[k]) /\ k # Here /\ Recorded(k)
        BY <3>8, <4>1 DEF Kept
      <4>3. UsesSpare(config') \/ mine'[k].layouts = xkb'.layouts
        BY <1>1, <2>2, <2>5, <3>8, <4>1 DEF Kept
      <4>4. Recorded(k)' /\ ~Forgets'
        BY <2>6, <3>8, <4>1, <4>2 DEF Kept, Recorded
      <4> QED
        BY <2>2, <4>2, <4>3, <4>4 DEF Kept
    <3> QED
      BY <3>5, <3>7, <3>8, PutValues
  <2> QED
    BY <2>7, <2>8
<1> QED
  BY <1>7, <1>8

\* The daemon remembers what is in use.
LEMMA LayoutKeeps ==
  ASSUME KeyboardInv, RunInv, events # <<>>, Head(events).type = "layout", LayoutChanged,
         events' = Tail(events)
  PROVE  (ListIsNews' => Has(events', "map")) /\ \A k \in DOMAIN mine' : Kept(k)'
<1> DEFINE q == events
<1>0. UNCHANGED <<xkb, config, listens, prevLayoutList, previousLayoutMapKey, active, desk, mine, noticed>>
      /\ layoutMap' = Put(layoutMap, Here, CurrentLayouts(xkb))
  BY DEF LayoutChanged, Remembered, Here, wmVars
<1>1. q \in Seq(Events) /\ q # <<>> /\ events' = Tail(q) /\ Head(q).type = "layout"
  BY DEF KeyboardInv
<1>2. Here' = Here /\ (ListIsNews' <=> ListIsNews) /\ (Forgets' <=> Forgets)
  BY <1>0 DEF Here, MapKey, ListIsNews, Forgets, Spare
<1> HIDE DEF q
<1>3. /\ Has(q, "map") => Has(events', "map")
      /\ MapThenLayout(q) => MapThenLayout(events')
  BY <1>1, DueTail
<1>4. ASSUME NEW k \in DOMAIN mine' PROVE Kept(k)'
  <2>1. Kept(k) /\ mine'[k] = mine[k]
    BY <1>0, <1>4 DEF RunInv
  <2>2. Recorded(k)'
    <3>1. CASE k = Here
      BY <1>0, <2>1, <3>1, PutKeeps DEF Kept, Recorded
    <3>2. CASE k # Here
      BY <1>0, <2>1, <3>2, PutKeeps DEF Kept, Recorded
    <3> QED
      BY <3>1, <3>2
  <2> QED
    BY <1>0, <1>2, <1>3, <2>1, <2>2 DEF Kept, q
<1> QED
  BY <1>2, <1>3, <1>4 DEF RunInv, q

\* The daemon hears of the server's list.
LEMMA MapKeeps ==
  ASSUME KeyboardInv, RunInv, events # <<>>, Head(events).type = "map", LayoutMapChanged,
         events' = Tail(events)
  PROVE  (ListIsNews' => Has(events', "map")) /\ \A k \in DOMAIN mine' : Kept(k)'
<1> DEFINE q == events
<1>0. /\ UNCHANGED <<xkb, listens, previousLayoutMapKey, active, desk>>
      /\ config' = stored /\ prevLayoutList' = xkb.layouts /\ noticed'
  BY DEF LayoutMapChanged, wmVars
<1>1. q \in Seq(Events) /\ q # <<>> /\ events' = Tail(q) /\ Head(q).type = "map"
  BY DEF KeyboardInv
<1>2. ~ListIsNews' /\ ~Forgets'
  BY <1>0 DEF ListIsNews, Forgets
<1> HIDE DEF q
<1>3. /\ Due(q, "layout") => Due(events', "layout")
      /\ MapThenLayout(q) => Due(events', "layout")
  BY <1>1, DueTail
<1>4. ASSUME NEW k \in DOMAIN mine' PROVE Kept(k)'
  <2>1. mine' # NoMap
    <3>1. DOMAIN NoMap = {}
      BY DEF NoMap
    <3> QED
      BY <1>4, <3>1
  <2> DEFINE place == MapKey(stored.policy, active, desk)
  <2>2. \/ noticed /\ mine' = mine
        \/ ~noticed /\ prevLayoutList = xkb.layouts /\ mine' = Restrict(mine, DOMAIN mine \ {place})
    BY <2>1 DEF LayoutMapChanged
  <2>3. k \in DOMAIN mine /\ mine'[k] = mine[k] /\ (~noticed => prevLayoutList = xkb.layouts /\ k # place)
    BY <1>4, <2>2 DEF Restrict
  <2>4. Kept(k)
    BY <2>3 DEF RunInv
  <2>5. ~raced
    <3>1. DOMAIN NoMap = {}
      BY DEF NoMap
    <3> QED
      BY <2>3, <3>1 DEF RunInv
  <2>6. config' = config /\ config = stored /\ place = Here /\ Here' = Here
    BY <1>0, <2>5 DEF RunInv, Here, MapKey
  <2>7. layoutMap' = IF prevLayoutList = xkb.layouts THEN layoutMap
                     ELSE IF Spare(xkb.layouts) THEN Put(layoutMap, Here, CurrentLayouts(xkb))
                     ELSE NoMap
    BY <2>6 DEF LayoutMapChanged, Spare, Remembered
  <2>8. Recorded(k)' \/ (k = Here' /\ ToRecord')
    <3>1. CASE prevLayoutList = xkb.layouts
      <4>1. layoutMap' = layoutMap
        BY <2>7, <3>1
      <4>2. CASE Recorded(k)
        BY <2>3, <4>1, <4>2 DEF Recorded
      <4>3. CASE ~Recorded(k)
        <5>1. k = Here /\ ToRecord
          BY <2>4, <4>3 DEF Kept
        <5>2. noticed
          BY <2>3, <2>6, <5>1
        <5>3. Due(q, "layout")
          BY <3>1, <5>1, <5>2 DEF ToRecord, q
        <5> QED
          BY <1>3, <2>6, <5>1, <5>3 DEF ToRecord
      <4> QED
        BY <4>2, <4>3
    <3>2. CASE prevLayoutList # xkb.layouts /\ Spare(xkb.layouts)
      <4>1. layoutMap' = Put(layoutMap, Here, CurrentLayouts(xkb))
        BY <2>7, <3>2
      <4>2. CASE k = Here
        BY <2>3, <2>4, <4>1, <4>2, PutKeeps DEF Kept, Recorded
      <4>3. CASE k # Here
        BY <2>3, <2>4, <4>1, <4>3, PutKeeps DEF Kept, Recorded
      <4> QED
        BY <4>2, <4>3
    <3>3. CASE prevLayoutList # xkb.layouts /\ ~Spare(xkb.layouts)
      <4>1. Forgets
        BY <2>3, <3>3 DEF Forgets, ListIsNews
      <4>2. k = Here /\ MapThenLayout(q)
        BY <2>4, <4>1 DEF Kept, q
      <4> QED
        BY <1>3, <2>6, <4>2 DEF ToRecord
    <3> QED
      BY <3>1, <3>2, <3>3
  <2>9. CurrentLayouts(xkb') = CurrentLayouts(xkb) /\ xkb' = xkb
    BY <1>0
  <2>10. /\ k # NoKey /\ Reachable(mine'[k])
         /\ UsesSpare(config') \/ mine'[k].layouts = xkb'.layouts
         /\ k = Here' => mine'[k] = CurrentLayouts(xkb')
    BY <2>3, <2>4, <2>6, <2>9 DEF Kept
  <2> HIDE DEF place
  <2> QED
    BY <1>2, <2>8, <2>10 DEF Kept
<1> QED
  BY <1>2, <1>4

\* The user is in another container: nothing is due before, so all is in the memory.
LEMMA ContainerKeeps ==
  ASSUME KeyboardInv, RunInv, running, events # <<>>, NEW e, e = Head(events),
         e.type \in Container, ContainerChanged(e)
  PROVE  (ListIsNews' => Has(events', "map")) /\ \A k \in DOMAIN mine' : Kept(k)'
<1> DEFINE q == events
           key == MapKey(config.policy, active', desk')
           There(works) == IF key \in DOMAIN layoutMap THEN FromMap(Server, config, layoutMap[key], works)
                           ELSE Default(Server, config, works)
<1>0. /\ UNCHANGED <<config, listens, layoutMap, prevLayoutList, noticed>>
      /\ active' = IF e.type = "window" THEN e.value ELSE active
      /\ desk' = IF e.type = "desktop" THEN e.value ELSE desk
  BY DEF ContainerChanged
<1>1. q \in Seq(Events) /\ q # <<>> /\ Head(q).type \in Container /\ e \in Events
  BY DEF KeyboardInv
<1>2. /\ ~MapThenLayout(q) /\ \A type : ~Due(q, type)
      /\ Has(q, "map") => Has(Tail(q), "map")
  BY <1>1, DueTail DEF Container
<1>3. ASSUME NEW k \in DOMAIN mine PROVE Kept(k) /\ Recorded(k) /\ ~Forgets
  BY <1>2, <1>3 DEF RunInv, Kept, ToRecord
<1>4. raced => mine = NoMap /\ DOMAIN NoMap = {}
  BY DEF RunInv, NoMap
<1>5. CASE e.type \in listens /\ key # NoKey
  <2>0. PICK works \in BOOLEAN :
          /\ xkb' = [layouts |-> There(works).layouts, group |-> There(works).group]
          /\ events' = Tail(q) \o Queue(There(works))
          /\ mine' = IF OtherList(There(works)) THEN NoMap
                     ELSE IF ListNotSet(key, works) THEN Restrict(mine, DOMAIN mine \ {key}) ELSE mine
          /\ previousLayoutMapKey' = key
    BY <1>5 DEF ContainerChanged, SetCurrentLayoutFromMap
  <2> DEFINE s == There(works)
  <2>1. Good(Server) /\ Server.layouts = xkb.layouts /\ config \in Configs
    BY ServerGood DEF Server, KeyboardInv
  <2>2. /\ Told(Server, s)
        /\ ~UsesSpare(config) => s.layouts = xkb.layouts
    <3>1. ASSUME key \in DOMAIN layoutMap PROVE layoutMap[key] \in LayoutSets
      BY <3>1 DEF KeyboardInv, MemoryOK
    <3> QED
      BY <2>1, <3>1, FromMapTold, DefaultTold
  <2>3. ASSUME key \in DOMAIN mine, ~ListNotSet(key, works) PROVE CurrentLayouts(s) = mine[key]
    <3>1. Kept(key) /\ Recorded(key)
      BY <1>3, <2>3
    <3>2. /\ Reachable(mine[key])
          /\ mine[key].layouts = Server.layouts \/ (UsesSpare(config) /\ works)
      BY <2>1, <2>3, <3>1 DEF Kept, Recorded, ListNotSet
    <3>3. s = FromMap(Server, config, mine[key], works)
      BY <3>1 DEF Recorded
    <3> HIDE DEF s, key
    <3> QED
      BY <2>1, <3>2, <3>3, FromMapSets
  <2>4. /\ xkb' = [layouts |-> s.layouts, group |-> s.group]
        /\ events' = Tail(q) \o Queue(s)
        /\ mine' = IF OtherList(s) THEN NoMap
                   ELSE IF ListNotSet(key, works) THEN Restrict(mine, DOMAIN mine \ {key}) ELSE mine
        /\ previousLayoutMapKey' = key
    BY <2>0
  <2>5. Here' = key
    <3> DEFINE w == active'
    <3>1. config' = config /\ previousLayoutMapKey' = key
      BY <1>0, <2>4
    <3>2. {"desktop", "panel"} \cap Windows = {} /\ config.policy \in Policies
      BY <2>1, KeyboardAssumption
    <3>3. CASE config.policy \in {"Window", "WinClass"} /\ w = "desktop"
      BY <3>1, <3>2, <3>3 DEF Here, MapKey
    <3>4. CASE ~(config.policy \in {"Window", "WinClass"} /\ w = "desktop")
      BY <3>1, <3>2, <3>4 DEF Here, MapKey
    <3> QED
      BY <3>3, <3>4
  <2> HIDE DEF s, key, q
  <2>6. Queue(s) \in Seq(Events) /\ (Says(s, "map") => Has(Queue(s), "map")) /\ Tail(q) \in Seq(Events)
    BY <1>1, <2>2, QueueSays DEF Told
  <2>7. /\ Has(q, "map") => Has(events', "map")
        /\ Says(s, "map") => Has(events', "map")
    BY <1>2, <2>4, <2>6, DueStays
  <2>8. ListIsNews' => Has(events', "map")
    <3>1. s.layouts # xkb.layouts => Says(s, "map")
      BY <2>1, <2>2 DEF Told
    <3> QED
      BY <1>0, <2>4, <2>7, <3>1 DEF ListIsNews, RunInv, q
  <2>9. CASE OtherList(s)
    BY <2>4, <2>8, <2>9, NothingKept
  <2>10. CASE ~OtherList(s)
    <3>1. CurrentLayouts(xkb') = CurrentLayouts(s) /\ xkb'.layouts = s.layouts
      BY <2>4, <2>10 DEF CurrentLayouts
    <3>2. s.layouts = xkb.layouts \/ Spare(s.layouts)
      BY <2>10 DEF OtherList, Spare
    <3> SUFFICES ASSUME NEW k \in DOMAIN mine' PROVE Kept(k)'
      BY <2>8
    <3>0. k \in DOMAIN mine /\ mine'[k] = mine[k] /\ (k = key => ~ListNotSet(key, works))
      <4>1. CASE ListNotSet(key, works)
        BY <2>4, <2>10, <4>1 DEF Restrict
      <4>2. CASE ~ListNotSet(key, works)
        BY <2>4, <2>10, <4>2
      <4> QED
        BY <4>1, <4>2
    <3>3. k \in DOMAIN mine /\ mine'[k] = mine[k] /\ Kept(k) /\ Recorded(k) /\ ~Forgets
      BY <1>3, <3>0
    <3>4. ~Forgets'
      BY <1>0, <3>1, <3>2, <3>3 DEF Forgets, ListIsNews, Spare
    <3>5. UsesSpare(config') \/ mine'[k].layouts = xkb'.layouts
      BY <1>0, <2>2, <3>1, <3>3 DEF Kept
    <3>6. k = Here' => mine'[k] = CurrentLayouts(xkb')
      BY <2>3, <2>5, <3>0, <3>1, <3>3
    <3>7. Recorded(k)' /\ k # NoKey /\ Reachable(mine'[k])
      BY <1>0, <3>3 DEF Recorded, Kept
    <3> QED
      BY <3>4, <3>5, <3>6, <3>7 DEF Kept
  <2> QED
    BY <2>9, <2>10
<1>6. CASE ~(e.type \in listens /\ key # NoKey)
  <2>1. UNCHANGED <<xkb, previousLayoutMapKey, mine>> /\ events' = Tail(q)
    BY <1>6 DEF ContainerChanged, SetCurrentLayoutFromMap
  <2>2. (ListIsNews' <=> ListIsNews) /\ (Forgets' <=> Forgets)
    BY <1>0, <2>1 DEF ListIsNews, Forgets, Spare
  <2>3. Here' = key
    BY <1>0, <2>1 DEF Here, MapKey
  <2>4. ASSUME ~raced PROVE key = NoKey \/ key = Here
    <3> SUFFICES ASSUME e.type \notin listens PROVE key = Here
      BY <1>6
    <3>1. config.policy \in Policies /\ e.type \in Container /\ e.type \notin ListensFor(config.policy)
      BY <1>1, <2>4, KeyboardAssumption DEF KeyboardInv, RunInv
    <3>2. CASE config.policy \in {"Window", "WinClass"}
      <4>1. active' = active
        BY <1>0, <3>1, <3>2 DEF ListensFor, Container
      <4> QED
        BY <3>2, <4>1 DEF Here, MapKey
    <3>3. CASE config.policy = "Desktop"
      <4>1. desk' = desk
        BY <1>0, <3>1, <3>3 DEF ListensFor, Container
      <4> QED
        BY <3>3, <4>1 DEF Here, MapKey
    <3>4. CASE config.policy = "Global"
      BY <3>4 DEF Here, MapKey
    <3> QED
      BY <3>1, <3>2, <3>3, <3>4 DEF Policies
  <2>5. ASSUME NEW k \in DOMAIN mine' PROVE Kept(k)'
    <3>1. k \in DOMAIN mine /\ mine'[k] = mine[k] /\ Kept(k) /\ Recorded(k) /\ ~Forgets
      BY <1>3, <2>1, <2>5
    <3>2. k = Here' => k = Here
      BY <1>4, <2>3, <2>4, <3>1 DEF Kept
    <3>3. Recorded(k)' /\ CurrentLayouts(xkb') = CurrentLayouts(xkb)
      BY <1>0, <2>1, <3>1 DEF Recorded
    <3> QED
      BY <1>0, <2>1, <2>2, <3>1, <3>2, <3>3 DEF Kept
  <2>6. ListIsNews' => Has(events', "map")
    BY <1>2, <2>1, <2>2 DEF RunInv, q
  <2> QED
    BY <2>5, <2>6
<1> QED
  BY <1>5, <1>6

\* What is told of windows and desktops comes after what is due.
LEMMA UserKeeps ==
  ASSUME KeyboardInv, RunInv, ActivateWindow \/ SwitchDesktop
  PROVE  (ListIsNews' => Has(events', "map")) /\ \A k \in DOMAIN mine' : Kept(k)'
<1>1. UNCHANGED <<xkb, memoryVars, wmVars, mine, noticed>>
  BY DEF ActivateWindow, SwitchDesktop, StaysButEvents
<1>2. PICK e \in Events : events' = events \o <<e>>
  <2>1. CASE ActivateWindow
    <3>1. PICK w \in Containers : Event("window", w)
      BY <2>1 DEF ActivateWindow, Containers
    <3>2. [type |-> "window", value |-> w] \in Events
      BY DEF Events
    <3> QED
      BY <3>1, <3>2 DEF Event, KeyboardInv
  <2>2. CASE SwitchDesktop
    <3>1. PICK d \in Desktops : Event("desktop", d)
      BY <2>2 DEF SwitchDesktop
    <3>2. [type |-> "desktop", value |-> d] \in Events
      BY DEF Events
    <3> QED
      BY <3>1, <3>2 DEF Event, KeyboardInv
  <2> QED
    BY <2>1, <2>2
<1> DEFINE q == events
           r == <<e>>
<1>3. q \in Seq(Events) /\ r \in Seq(Events)
  BY DEF KeyboardInv
<1> HIDE DEF q, r
<1>4. /\ \A type : Due(q, type) => Due(q \o r, type)
      /\ MapThenLayout(q) => MapThenLayout(q \o r)
      /\ \A type : Has(q, type) => Has(q \o r, type)
  BY <1>3, DueStays
<1>5. events' = q \o r
  BY <1>2 DEF q, r
<1>6. /\ Here' = Here /\ (ListIsNews' <=> ListIsNews) /\ (Forgets' <=> Forgets)
      /\ ToRecord => ToRecord'
  BY <1>1, <1>4, <1>5 DEF Here, MapKey, ListIsNews, Forgets, ToRecord, Spare, memoryVars, wmVars, q
<1>7. ASSUME NEW k \in DOMAIN mine' PROVE Kept(k)'
  <2>1. Kept(k) /\ mine'[k] = mine[k] /\ (Recorded(k) => Recorded(k)')
    BY <1>1, <1>7 DEF RunInv, Recorded, memoryVars
  <2> QED
    BY <1>1, <1>4, <1>5, <1>6, <2>1 DEF Kept, memoryVars, q
<1> QED
  BY <1>4, <1>5, <1>6, <1>7 DEF RunInv, q

LEMMA ServerStepsTell ==
  ASSUME KeyboardInv,
         SwitchToNextLayout \/ ScrollLayouts \/ SetLayoutByName \/ SwitchToSpareLayout \/ OtherSetsMap
  PROVE  \E s : Told(Server, s) /\ Changed(s)
<1>1. Good(Server) /\ Server \in Servers
  BY ServerGood DEF Good
<1>2. CASE SwitchToNextLayout
  <2>1. Told(Server, SetGroup(Server, xkb.group + 1))
    BY <1>1, SetGroupTold DEF KeyboardInv
  <2> QED
    BY <2>1, <1>2 DEF SwitchToNextLayout
<1>3. CASE ScrollLayouts
  BY <1>1, <1>3, ScrolledTold DEF ScrollLayouts
<1>4. CASE SetLayoutByName
  BY <1>1, <1>4, SetLayoutTold DEF SetLayoutByName
<1>5. CASE SwitchToSpareLayout
  <2> DEFINE default == DefaultLayouts(config)
             Spared(unit) == Append(SubSeq(default, 1, Len(default) - 1), unit)
  <2>1. PICK unit \in Members(config.layouts), works \in BOOLEAN :
          Changed(SetLayout(SetXkbMap(Server, Spared(unit), works), unit))
    BY <1>5 DEF SwitchToSpareLayout
  <2>2. default \in Lists
    BY <1>5, DefaultLayoutsGood DEF SwitchToSpareLayout, KeyboardInv
  <2>3. unit \in STRING
    BY KeyboardAssumption DEF Members, KeyboardInv
  <2> HIDE DEF default
  <2>4. SubSeq(default, 1, Len(default) - 1) \in Seq(STRING)
    BY <2>2 DEF Lists
  <2>5. Spared(unit) \in Lists
    BY <2>3, <2>4 DEF Lists
  <2> HIDE DEF Spared
  <2>6. Told(Server, SetXkbMap(Server, Spared(unit), works))
    BY <1>1, <2>5, SetXkbMapTold
  <2>7. Told(Server, SetLayout(SetXkbMap(Server, Spared(unit), works), unit))
    BY <2>6, SetLayoutTold, ToldMore DEF Told
  <2> QED
    BY <2>1, <2>7
<1>6. CASE OtherSetsMap
  <2>1. PICK list \in Foreign : Changed(SetXkbMap(Server, list, TRUE))
    BY <1>6 DEF OtherSetsMap
  <2>2. list \in Lists
    BY KeyboardAssumption DEF Lists
  <2> QED
    BY <2>1, <2>2, <1>1, SetXkbMapTold
<1> QED
  BY <1>2, <1>3, <1>4, <1>5, <1>6

LEMMA MemoryNext ==
  ASSUME KeyboardInv, ListensInv, MemoryInv, [Next]_vars
  PROVE  MemoryInv'
<1>0. ListensInv'
  BY ListensNext
<1>1. CASE SwitchToNextLayout \/ ScrollLayouts \/ SetLayoutByName \/ SwitchToSpareLayout \/ OtherSetsMap
           \/ ConfigureKeyboard
  <2>1. running /\ running' = running
    BY <1>1 DEF UserActs, SwitchToNextLayout, ScrollLayouts, SetLayoutByName, SwitchToSpareLayout,
                OtherSetsMap, ConfigureKeyboard, StaysButLayouts
  <2>2. RunInv
    BY <2>1 DEF MemoryInv
  <2>3. PICK s : Told(Server, s) /\ Changed(s)
    <3>1. CASE ConfigureKeyboard
      BY <3>1, ServerGood, ConfiguredTold DEF ConfigureKeyboard, KeyboardInv
    <3> QED
      BY <1>1, <3>1, ServerStepsTell
  <2>4. /\ config' = config \/ raced
        /\ UNCHANGED <<active, desk, layoutMap, prevLayoutList, previousLayoutMapKey, noticed>>
        /\ reloadDue' => reloadDue
    <3>1. CASE ConfigureKeyboard
      <4>1. config' = stored /\ reloadDue' = FALSE
            /\ UNCHANGED <<active, desk, layoutMap, prevLayoutList, previousLayoutMapKey, noticed>>
        BY <3>1 DEF ConfigureKeyboard, wmVars
      <4> QED
        BY <2>2, <4>1 DEF RunInv
    <3>2. CASE ~ConfigureKeyboard
      <4>1. StaysButLayouts
        BY <1>1, <3>2 DEF SwitchToNextLayout, ScrollLayouts, SetLayoutByName, SwitchToSpareLayout, OtherSetsMap
      <4> QED
        BY <4>1 DEF StaysButLayouts, memoryVars, wmVars
    <3> QED
      BY <3>1, <3>2
  <2>5. /\ ListIsNews' => Has(events', "map")
        /\ raced => raced'
        /\ raced' => mine' = NoMap
        /\ \A k \in DOMAIN mine' : Kept(k)'
    BY <2>2, <2>3, <2>4, ChangedKeeps
  <2>6. reloadDue' => raced'
    BY <2>2, <2>4, <2>5 DEF RunInv
  <2>7. ~raced' => config' = stored' /\ listens' = ListensFor(config'.policy)
    BY <1>0, <2>1, <2>6 DEF ListensInv
  <2> QED
    BY <2>1, <2>5, <2>6, <2>7 DEF MemoryInv, RunInv
<1>2. CASE ActivateWindow \/ SwitchDesktop
  <2>1. running /\ UNCHANGED <<running, config, stored, listens, reloadDue, raced, mine>>
    BY <1>2 DEF UserActs, ActivateWindow, SwitchDesktop, StaysButEvents, memoryVars
  <2>2. RunInv
    BY <2>1 DEF MemoryInv
  <2> QED
    BY <1>2, <2>1, <2>2, UserKeeps DEF MemoryInv, RunInv
<1>3. CASE SaveConfig
  <2>1. /\ UNCHANGED <<running, events, xkb, prevLayoutList, noticed>>
        /\ reloadDue' = running /\ mine' = NoMap /\ raced'
    BY <1>3 DEF SaveConfig, memoryVars
  <2>2. ListIsNews' = ListIsNews
    BY <2>1 DEF ListIsNews
  <2> QED
    BY <2>1, <2>2, NothingKept DEF MemoryInv, RunInv
<1>4. CASE HandleEvent
  <2>1. events # <<>> /\ UNCHANGED <<stored, reloadDue, session, running>>
        /\ raced' = (raced /\ (events' # <<>> \/ reloadDue))
    BY <1>4 DEF HandleEvent
  <2>2. running /\ running' /\ RunInv
    BY <2>1 DEF MemoryInv
  <2> DEFINE e == Head(events)
  <2>3. e \in Events /\ e.type \in {"layout", "map", "window", "desktop"}
    BY <2>1 DEF KeyboardInv, Events
  <2>4. (ListIsNews' => Has(events', "map")) /\ \A k \in DOMAIN mine' : Kept(k)'
    <3>1. CASE e.type \in Container
      <4>1. ContainerChanged(e)
        BY <1>4, <3>1 DEF HandleEvent, Container
      <4> QED
        BY <2>1, <2>2, <3>1, <4>1, ContainerKeeps
    <3>2. CASE e.type = "layout"
      <4>1. LayoutChanged /\ events' = Tail(events)
        BY <1>4, <2>2, <3>2 DEF HandleEvent
      <4> QED
        BY <2>1, <2>2, <3>2, <4>1, LayoutKeeps
    <3>3. CASE e.type = "map"
      <4>1. LayoutMapChanged /\ events' = Tail(events)
        BY <1>4, <2>2, <3>3 DEF HandleEvent
      <4> QED
        BY <2>1, <2>2, <3>3, <4>1, MapKeeps
    <3> QED
      BY <2>3, <3>1, <3>2, <3>3 DEF Container
  <2>5. raced => mine' = NoMap
    <3> SUFFICES ASSUME raced PROVE mine' = NoMap
      OBVIOUS
    <3>1. mine = NoMap /\ DOMAIN mine = {}
      BY <2>2 DEF RunInv, NoMap
    <3>2. ASSUME NEW S PROVE Restrict(mine, DOMAIN mine \ S) = NoMap
      BY <3>1 DEF Restrict, NoMap
    <3> QED
      BY <1>4, <3>1, <3>2 DEF HandleEvent, ContainerChanged, SetCurrentLayoutFromMap, LayoutChanged,
                              LayoutMapChanged
  <2>6. reloadDue' => raced'
    BY <2>1, <2>2 DEF RunInv
  <2>7. ~raced' => config' = stored' /\ listens' = ListensFor(config'.policy)
    <3> SUFFICES ASSUME ~raced' PROVE config' = stored' /\ listens' = ListensFor(config'.policy)
      OBVIOUS
    <3>1. ~reloadDue'
      BY <2>6
    <3> QED
      BY <1>0, <2>2, <3>1 DEF ListensInv
  <2> QED
    BY <2>1, <2>2, <2>4, <2>5, <2>6, <2>7 DEF MemoryInv, RunInv
<1>5. CASE Stop
  BY <1>5 DEF Stop, MemoryInv
<1>6. CASE Start
  <2>1. running' /\ ~noticed' /\ ~raced' /\ mine' = NoMap /\ ~reloadDue' /\ config' = stored'
    BY <1>6 DEF Start, MemoryInv
  <2>2. ~ListIsNews' /\ listens' = ListensFor(config'.policy)
    BY <1>0, <2>1 DEF ListIsNews, ListensInv
  <2> QED
    BY <2>1, <2>2, NothingKept DEF MemoryInv, RunInv
<1>7. CASE UNCHANGED vars
  BY <1>7 DEF vars, memoryVars, wmVars, MemoryInv, RunInv, ListIsNews, Kept, Recorded, ToRecord, Forgets,
              Here, MapKey, Spare
<1> QED
  BY <1>1, <1>2, <1>3, <1>4, <1>5, <1>6, <1>7 DEF Next

LEMMA MemoryInit == Init => MemoryInv
BY DEF Init, MemoryInv

LEMMA MemoryTells ==
  ASSUME MemoryInv
  PROVE  BackToTheSameLayout
<1> SUFFICES ASSUME running, events = <<>>, ~reloadDue, ~raced, UserKey \in DOMAIN mine
             PROVE  CurrentLayouts(xkb) = mine[UserKey]
  BY DEF BackToTheSameLayout
<1>1. UserKey = Here
  <2>1. \A t \in Container : ~Has(events, t)
    BY DEF Has
  <2> QED
    BY <2>1, KnowsWhere
<1>2. Kept(Here)
  BY <1>1 DEF MemoryInv, RunInv
<1> QED
  BY <1>1, <1>2 DEF Kept

\* Who comes back to a window, application or desktop finds the layouts that were last
\* in use there (layout_memory.cpp:149 layoutChanged(), :158 setCurrentLayoutFromMap()),
\* unless they were changed while the daemon did not know where the user was, or
\* setxkbmap did not set their list.
THEOREM ComesBackToLayout == Spec => []BackToTheSameLayout
<1>1. Init => KeyboardInv /\ ListensInv /\ MemoryInv
  BY InvInit, MemoryInit DEF Init, ListensInv
<1>2. KeyboardInv /\ ListensInv /\ MemoryInv /\ [Next]_vars => (KeyboardInv /\ ListensInv /\ MemoryInv)'
  BY InvNext, ListensNext, MemoryNext
<1>3. MemoryInv => BackToTheSameLayout
  BY MemoryTells
<1> QED
  BY <1>1, <1>2, <1>3, PTL DEF Spec
=============================================================================
