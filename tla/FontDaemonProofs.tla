-------------------------- MODULE FontDaemonProofs --------------------------
(***************************************************************************)
(* What holds of the font daemon for all fonts, styles, clients and orders *)
(* of calls, timers, deaths and answers of the helper.  At any depth of    *)
(* nesting: its types, that it does not quit under a registered client,    *)
(* what a client hears of the folder of the user, and that disabled system *)
(* fonts stay known.  While it does one thing at a time: that changes stay *)
(* marked, disabled fonts known, and a client's copy equal to the lists.   *)
(***************************************************************************)
EXTENDS FontDaemon, TLAPS

Methods_ == {"", "install", "uninstall", "move", "toggle", "removeFile", "reconfigure",
             "saveDisabled"}

\* A frame whose files are those of its folder.  Only system fonts are toggled by the
\* helper, and a refresh goes on neither after an answer nor with a configuration.
GoodFrames ==
    {m \in Frames :
        /\ m.files \subseteq In(File, m.dir)
        /\ m.asked = "toggle" => m.dir = "sys"
        /\ m.at = "after" /\ m.op \in Toggles => m.dir = "sys"
        /\ m.at = "configure" => m.op \notin Toggles
        /\ m.then \notin {"after", "configure"}}

FilesOK ==
    /\ disk \subseteq File
    /\ cfg \in [Dir -> SUBSET File] /\ \A d \in Dir : cfg[d] \subseteq In(Hidden(File), d)
    /\ helper \in [up : BOOLEAN, fonts : SUBSET File, dirty : BOOLEAN, modified : BOOLEAN]
    /\ helper.fonts \subseteq In(File, "sys")
    /\ unconfigured \subseteq Dir

ListsOK ==
    /\ fonts \in [Dir -> SUBSET File] /\ \A d \in Dir : fonts[d] \subseteq In(File, d)
    /\ dirty \subseteq Dir /\ modified \subseteq Dir /\ lost \subseteq Dir
    /\ cache \subseteq File /\ heard \subseteq File

RestOK ==
    /\ connections \subseteq Clients /\ alive \subseteq Clients
    /\ timers \subseteq AllTimers
    /\ process \in {"running", "exiting", "hung", "gone"}
    /\ behind \in BOOLEAN
    /\ used \in [{"calls", "outside", "kills"} -> Nat]

StackOK == stack \in Seq(GoodFrames) /\ (process = "gone" => stack = <<>>)

DaemonInv == FilesOK /\ ListsOK /\ RestOK /\ StackOK

LEMMA InvTypes == DaemonInv => TypeOK
<1>1. stack \in Seq(GoodFrames) => stack \in Seq(Frames)
  <2>1. GoodFrames \subseteq Frames
    BY DEF GoodFrames
  <2> QED
    BY <2>1
<1>2. helper \in [up : BOOLEAN, fonts : SUBSET File, dirty : BOOLEAN, modified : BOOLEAN]
      /\ FilesOK => HelperTypeOK
  BY DEF FilesOK, HelperTypeOK
<1> QED
  BY <1>1, <1>2 DEF DaemonInv, FilesOK, ListsOK, RestOK, StackOK, TypeOK

-----------------------------------------------------------------------------
(* The files and what is known of them.                                    *)

LEMMA SavedGood ==
    ASSUME FilesOK, ListsOK
    PROVE  /\ UserSaved \subseteq In(Hidden(File), "user")
           /\ SavedByHelper \subseteq In(Hidden(File), "sys")
           /\ LoadedByHelper \subseteq In(File, "sys")
           /\ ResavedByHelper \subseteq In(Hidden(File), "sys")
<1>1. "user" \in Dir /\ "sys" \in Dir
  BY DEF Dir
<1>2. UserSaved \subseteq In(Hidden(File), "user")
  BY <1>1 DEF UserSaved, FilesOK, ListsOK, In, Hidden
<1>3. SavedByHelper \subseteq In(Hidden(File), "sys")
  BY <1>1 DEF SavedByHelper, FilesOK, In, Hidden
<1>4. LoadedByHelper \subseteq In(File, "sys")
  BY <1>3 DEF LoadedByHelper, FilesOK, In, Hidden
<1>5. ResavedByHelper \subseteq In(Hidden(File), "sys")
  BY <1>3, <1>4 DEF ResavedByHelper, In, Hidden
<1> QED
  BY <1>2, <1>3, <1>4, <1>5

LEMMA CfgSet ==
    ASSUME FilesOK, NEW d \in Dir, NEW S, S \subseteq In(Hidden(File), d), cfg' = [cfg EXCEPT ![d] = S]
    PROVE  cfg' \in [Dir -> SUBSET File] /\ \A e \in Dir : cfg'[e] \subseteq In(Hidden(File), e)
BY DEF FilesOK, In, Hidden

LEMMA FontsSet ==
    ASSUME ListsOK, NEW d \in Dir, NEW S, S \subseteq In(File, d), fonts' = [fonts EXCEPT ![d] = S]
    PROVE  fonts' \in [Dir -> SUBSET File] /\ \A e \in Dir : fonts'[e] \subseteq In(File, e)
BY DEF ListsOK, In

LEMMA FlippedGood ==
    ASSUME NEW d \in Dir, NEW S, S \subseteq In(File, d), NEW on \in BOOLEAN
    PROVE  Flipped(S, on) \subseteq In(File, d) /\ ToFlip(S, on) \subseteq S
BY DEF Flipped, ToFlip, In, File

LEMMA MovedGood ==
    ASSUME NEW d \in Dir, NEW S, S \subseteq File
    PROVE  Moved(S, d) \subseteq File
BY DEF Moved, File

-----------------------------------------------------------------------------
(* The stack.                                                              *)

\* Every frame was there, of the same client and method.
Kept ==
    \A j \in DOMAIN stack' : \E i \in DOMAIN stack :
        stack'[j].pid = stack[i].pid /\ stack'[j].op = stack[i].op

LEMMA TopGood ==
    ASSUME StackOK, stack # <<>>
    PROVE  /\ Top \in GoodFrames /\ Top \in Frames /\ Tail(stack) \in Seq(GoodFrames)
           /\ Len(stack) \in Nat /\ Len(stack) > 0 /\ Top = stack[1]
           /\ Len(Tail(stack)) = Len(stack) - 1
           /\ \A j \in 1 .. Len(stack) - 1 : Tail(stack)[j] = stack[j + 1]
BY DEF StackOK, Top, GoodFrames

\* What comes on top of the rest of the stack.
LEMMA OnTop ==
    ASSUME StackOK, stack # <<>>, NEW m \in GoodFrames, NEW rest \in Seq(GoodFrames),
           Len(rest) = Len(stack) - 1,
           \A j \in 1 .. Len(stack) - 1 : rest[j].pid = stack[j + 1].pid /\ rest[j].op = stack[j + 1].op,
           stack' = <<m>> \o rest
    PROVE  /\ stack' \in Seq(GoodFrames)
           /\ m.pid = Top.pid /\ m.op = Top.op => Kept
<1>1. Len(stack) \in Nat /\ Len(stack) > 0 /\ Top = stack[1]
  BY TopGood
<1>2. stack' \in Seq(GoodFrames) /\ Len(stack') = Len(stack)
  BY <1>1
<1>3. stack'[1] = m /\ \A j \in 2 .. Len(stack) : stack'[j] = rest[j - 1]
  BY <1>1, <1>2
<1>4. ASSUME m.pid = Top.pid, m.op = Top.op, NEW j \in DOMAIN stack'
      PROVE  j \in DOMAIN stack /\ stack'[j].pid = stack[j].pid /\ stack'[j].op = stack[j].op
  <2>1. j \in 1 .. Len(stack)
    BY <1>2
  <2>2. CASE j = 1
    BY <2>2, <1>1, <1>3, <1>4 DEF StackOK
  <2>3. CASE j # 1
    <3>1. j - 1 \in 1 .. Len(stack) - 1 /\ (j - 1) + 1 = j
      BY <2>1, <2>3, <1>1
    <3>2. rest[j - 1].pid = stack[j].pid /\ rest[j - 1].op = stack[j].op
      BY <3>1
    <3>3. j \in 2 .. Len(stack)
      BY <2>1, <2>3, <1>1
    <3> QED
      BY <3>2, <3>3, <1>3, <2>1 DEF StackOK
  <2> QED
    BY <2>2, <2>3
<1> QED
  BY <1>2, <1>4 DEF Kept

LEMMA RestOfStack ==
    ASSUME StackOK, stack # <<>>
    PROVE  /\ Tail(stack) \in Seq(GoodFrames) /\ Len(Tail(stack)) = Len(stack) - 1
           /\ \A j \in 1 .. Len(stack) - 1 :
                 Tail(stack)[j].pid = stack[j + 1].pid /\ Tail(stack)[j].op = stack[j + 1].op
BY TopGood

LEMMA AskedGood ==
    ASSUME NEW m \in GoodFrames, NEW v \in Methods_, v = "toggle" => m.dir = "sys"
    PROVE  /\ [m EXCEPT !.asked = v, !.answered = FALSE] \in GoodFrames
           /\ [m EXCEPT !.asked = v, !.answered = FALSE].pid = m.pid
           /\ [m EXCEPT !.asked = v, !.answered = FALSE].op = m.op
<1> DEFINE n == [m EXCEPT !.asked = v, !.answered = FALSE]
<1>1. n \in Frames
  BY DEF GoodFrames, Frames, Methods_
<1>2. n.asked = v /\ n.files = m.files /\ n.dir = m.dir /\ n.at = m.at /\ n.op = m.op
      /\ n.then = m.then /\ n.pid = m.pid
  BY DEF GoodFrames, Frames
<1> HIDE DEF n
<1>3. n \in GoodFrames
  BY <1>1, <1>2 DEF GoodFrames
<1> QED
  BY <1>2, <1>3 DEF n

LEMMA BecomesGood ==
    ASSUME StackOK, stack # <<>>, NEW m \in GoodFrames, Becomes(m)
    PROVE  stack' \in Seq(GoodFrames) /\ (m.pid = Top.pid /\ m.op = Top.op => Kept)
<1> DEFINE n == [m EXCEPT !.asked = "", !.answered = FALSE]
<1>1. n \in GoodFrames /\ n.pid = m.pid /\ n.op = m.op
  BY AskedGood DEF Methods_
<1>2. stack' = <<n>> \o Tail(stack)
  BY DEF Becomes, BecomesAnd
<1> HIDE DEF n
<1> QED
  BY <1>1, <1>2, RestOfStack, OnTop

LEMMA PerformGood ==
    ASSUME StackOK, stack # <<>>, NEW m \in GoodFrames, NEW v \in Methods_,
           v = "toggle" => m.dir = "sys", PerformAction(m, v)
    PROVE  /\ stack' \in Seq(GoodFrames) /\ (m.pid = Top.pid /\ m.op = Top.op => Kept)
           /\ timers' \subseteq AllTimers
<1> DEFINE n == [m EXCEPT !.asked = v, !.answered = FALSE]
<1>1. n \in GoodFrames /\ n.pid = m.pid /\ n.op = m.op
  BY AskedGood
<1>2. stack' = <<n>> \o Tail(stack) /\ timers' = {}
  BY DEF PerformAction
<1> HIDE DEF n
<1> QED
  BY <1>1, <1>2, RestOfStack, OnTop

LEMMA ReturnsGood ==
    ASSUME StackOK, stack # <<>>, Returns
    PROVE  stack' \in Seq(GoodFrames) /\ Kept
<1>1. Len(stack) \in Nat /\ stack' = Tail(stack)
  BY TopGood DEF Returns
<1>2. \A j \in DOMAIN stack' : j + 1 \in DOMAIN stack /\ stack'[j] = stack[j + 1]
  BY <1>1, TopGood DEF StackOK
<1> QED
  BY <1>1, <1>2, TopGood DEF Kept

LEMMA UnvalidGood ==
    ASSUME NEW m \in GoodFrames
    PROVE  /\ [m EXCEPT !.valid = FALSE] \in GoodFrames
           /\ [m EXCEPT !.valid = FALSE].pid = m.pid /\ [m EXCEPT !.valid = FALSE].op = m.op
BY DEF GoodFrames, Frames

LEMMA FreedGood ==
    ASSUME NEW s \in Seq(GoodFrames), NEW d, NEW style
    PROVE  /\ Freed(s, d, style) \in Seq(GoodFrames) /\ Len(Freed(s, d, style)) = Len(s)
           /\ \A j \in 1 .. Len(s) :
                 Freed(s, d, style)[j].pid = s[j].pid /\ Freed(s, d, style)[j].op = s[j].op
<1> DEFINE U(j) == [s[j] EXCEPT !.valid = FALSE]
<1>1. DOMAIN s = 1 .. Len(s) /\ Len(s) \in Nat
  OBVIOUS
<1>2. \A j \in 1 .. Len(s) : s[j] \in GoodFrames /\ U(j) \in GoodFrames /\ U(j).pid = s[j].pid
                             /\ U(j).op = s[j].op
  BY UnvalidGood
<1>3. Freed(s, d, style) = [j \in 1 .. Len(s) |-> IF s[j].dir = d /\ StyleOf[s[j].name] = style
                                                  THEN U(j) ELSE s[j]]
  BY <1>1 DEF Freed
<1> HIDE DEF U
<1> QED
  BY <1>1, <1>2, <1>3

LEMMA AllFreedGood ==
    ASSUME NEW s \in Seq(GoodFrames)
    PROVE  /\ AllFreed(s) \in Seq(GoodFrames) /\ Len(AllFreed(s)) = Len(s)
           /\ \A j \in 1 .. Len(s) : AllFreed(s)[j].pid = s[j].pid /\ AllFreed(s)[j].op = s[j].op
<1> DEFINE U(j) == [s[j] EXCEPT !.valid = FALSE]
<1>1. DOMAIN s = 1 .. Len(s) /\ Len(s) \in Nat
  OBVIOUS
<1>2. \A j \in 1 .. Len(s) : U(j) \in GoodFrames /\ U(j).pid = s[j].pid /\ U(j).op = s[j].op
  BY UnvalidGood
<1>3. AllFreed(s) = [j \in 1 .. Len(s) |-> U(j)]
  BY <1>1 DEF AllFreed
<1> HIDE DEF U
<1> QED
  BY <1>1, <1>2, <1>3

-----------------------------------------------------------------------------
(* The frames the steps leave.                                             *)

LEMMA FrameAt ==
    ASSUME NEW m \in GoodFrames, NEW step \in Steps,
           step = "after" /\ m.op \in Toggles => m.dir = "sys",
           step = "configure" => m.op \notin Toggles
    PROVE  /\ [m EXCEPT !.at = step] \in GoodFrames
           /\ [m EXCEPT !.at = step].pid = m.pid /\ [m EXCEPT !.at = step].op = m.op
           /\ [m EXCEPT !.at = step].dir = m.dir
<1> DEFINE n == [m EXCEPT !.at = step]
<1>1. n \in Frames
  BY DEF GoodFrames, Frames
<1>2. n.asked = m.asked /\ n.files = m.files /\ n.dir = m.dir /\ n.at = step /\ n.op = m.op
      /\ n.then = m.then /\ n.pid = m.pid
  BY DEF GoodFrames, Frames
<1> HIDE DEF n
<1>3. n \in GoodFrames
  BY <1>1, <1>2 DEF GoodFrames
<1> QED
  BY <1>2, <1>3 DEF n

LEMMA FrameRefresh ==
    ASSUME NEW m \in GoodFrames, NEW step \in Steps, step \notin {"after", "configure"}
    PROVE  /\ [m EXCEPT !.at = "update", !.then = step] \in GoodFrames
           /\ [m EXCEPT !.at = "update", !.then = step].pid = m.pid
           /\ [m EXCEPT !.at = "update", !.then = step].op = m.op
<1> DEFINE n == [m EXCEPT !.at = "update", !.then = step]
<1>1. n \in Frames
  BY DEF GoodFrames, Frames, Steps
<1>2. n.asked = m.asked /\ n.files = m.files /\ n.dir = m.dir /\ n.at = "update" /\ n.op = m.op
      /\ n.then = step /\ n.pid = m.pid
  BY DEF GoodFrames, Frames
<1> HIDE DEF n
<1>3. n \in GoodFrames
  BY <1>1, <1>2 DEF GoodFrames
<1> QED
  BY <1>2, <1>3 DEF n

LEMMA FrameOld ==
    ASSUME NEW m \in GoodFrames, NEW step \in Steps \ {"after", "configure"},
           NEW old \in [Dir -> SUBSET File]
    PROVE  /\ [m EXCEPT !.at = step, !.old = old] \in GoodFrames
           /\ [m EXCEPT !.at = step, !.old = old].pid = m.pid
           /\ [m EXCEPT !.at = step, !.old = old].op = m.op
<1> DEFINE n == [m EXCEPT !.at = step, !.old = old]
<1>1. n \in Frames
  BY DEF GoodFrames, Frames
<1>2. n.asked = m.asked /\ n.files = m.files /\ n.dir = m.dir /\ n.at = step /\ n.op = m.op
      /\ n.then = m.then /\ n.pid = m.pid
  BY DEF GoodFrames, Frames
<1> HIDE DEF n
<1>3. n \in GoodFrames
  BY <1>1, <1>2 DEF GoodFrames
<1> QED
  BY <1>2, <1>3 DEF n

LEMMA FrameFound ==
    ASSUME NEW m \in GoodFrames, NEW files \in SUBSET File, files \subseteq In(File, m.dir)
    PROVE  /\ [m EXCEPT !.at = "body", !.files = files, !.valid = TRUE] \in GoodFrames
           /\ [m EXCEPT !.at = "body", !.files = files, !.valid = TRUE].pid = m.pid
           /\ [m EXCEPT !.at = "body", !.files = files, !.valid = TRUE].op = m.op
<1> DEFINE n == [m EXCEPT !.at = "body", !.files = files, !.valid = TRUE]
<1>1. n \in Frames
  BY DEF GoodFrames, Frames, Steps
<1>2. n.asked = m.asked /\ n.files = files /\ n.dir = m.dir /\ n.at = "body" /\ n.op = m.op
      /\ n.then = m.then /\ n.pid = m.pid
  BY DEF GoodFrames, Frames
<1> HIDE DEF n
<1>3. n \in GoodFrames
  BY <1>1, <1>2 DEF GoodFrames
<1> QED
  BY <1>2, <1>3 DEF n

LEMMA FrameNamed ==
    ASSUME NEW m \in GoodFrames, NEW step \in {"update", "find"}
    PROVE  /\ [m EXCEPT !.op = "uninstall", !.at = step, !.then = "find"] \in GoodFrames
           /\ [m EXCEPT !.op = "uninstall", !.at = step, !.then = "find"].pid = m.pid
<1> DEFINE n == [m EXCEPT !.op = "uninstall", !.at = step, !.then = "find"]
<1>0. step \in Steps /\ "find" \in Steps /\ "uninstall" \in FontMethods
  BY DEF Steps, FontMethods, Finders
<1>1. n \in Frames
  BY <1>0 DEF GoodFrames, Frames
<1>2. n.asked = m.asked /\ n.files = m.files /\ n.dir = m.dir /\ n.at = step
      /\ n.op = "uninstall" /\ n.then = "find" /\ n.pid = m.pid
  BY DEF GoodFrames, Frames
<1> HIDE DEF n
<1>3. n \in GoodFrames
  BY <1>1, <1>2 DEF GoodFrames
<1> QED
  BY <1>2, <1>3 DEF n

-----------------------------------------------------------------------------
(* The steps of the method on top.                                         *)

\* No client loses its place, and a daemon that does not run does not start.
Steady ==
    /\ connections \subseteq connections' /\ alive' \subseteq alive
    /\ process' = "running" => process = "running"

\* What a step keeps.
StepOK == DaemonInv' /\ Kept /\ Steady

LEMMA AtGood ==
    ASSUME DaemonInv, NEW step, At(step)
    PROVE  /\ stack # <<>> /\ Top \in GoodFrames /\ Top \in Frames /\ Top.at = step
           /\ process \in {"running", "exiting"}
           /\ Top.dir \in Dir /\ Top.name \in Names /\ Top.files \subseteq In(File, Top.dir)
<1>1. stack # <<>> /\ Top.at = step /\ process \in {"running", "exiting"}
  BY DEF At
<1>2. Top \in GoodFrames /\ Top \in Frames
  BY <1>1, TopGood DEF DaemonInv
<1>3. Top.dir \in Dir /\ Top.name \in Names /\ Top.files \subseteq In(File, Top.dir)
  BY <1>2 DEF Frames, GoodFrames
<1> QED
  BY <1>1, <1>2, <1>3

\* A step that leaves what the methods do not change.
LEMMA UncheckedGood ==
    ASSUME DaemonInv, UNCHANGED Unchecked, timers' \subseteq AllTimers,
           stack # <<>>, process \in {"running", "exiting"}, stack' \in Seq(GoodFrames)
    PROVE  RestOK' /\ StackOK' /\ Steady /\ UNCHANGED <<cache, lost>>
BY DEF DaemonInv, RestOK, StackOK, Steady, Unchecked, environment

LEMMA UpdateStep ==
    ASSUME DaemonInv, UpdateFontList
    PROVE  StepOK
<1>1. /\ stack # <<>> /\ Top \in GoodFrames /\ process \in {"running", "exiting"}
      /\ Top.dir \in Dir
  BY AtGood DEF UpdateFontList
<1>2. UNCHANGED <<helperVars, fonts, dirty, modified, connections, process, heard, behind, lost,
                  environment>>
  BY DEF UpdateFontList
<1> DEFINE m == [Top EXCEPT !.at = "rebuild", !.old = fonts]
<1>3. m \in GoodFrames /\ m.pid = Top.pid /\ m.op = Top.op
  BY <1>1, FrameOld DEF DaemonInv, ListsOK, Steps
<1>9. cache' \subseteq File
  <2>1. cache \subseteq File /\ Visible(disk) \subseteq File
    BY DEF DaemonInv, ListsOK, FilesOK, Visible
  <2>2. cache' = cache \/ cache' = Visible(disk)
    BY DEF UpdateFontList
  <2> QED
    BY <2>1, <2>2
<1>4. \/ GoTo(Top.then) /\ timers' = timers
      \/ PerformAction(m, "saveDisabled")
      \/ Becomes(m) /\ timers' = timers
  BY Zenon DEF UpdateFontList
<1>5. Top.then \in Steps /\ Top.then \notin {"after", "configure"}
  BY <1>1 DEF GoodFrames, Frames
<1> HIDE DEF m
<1>6. stack' \in Seq(GoodFrames) /\ Kept /\ timers' \subseteq AllTimers
  <2>1. CASE GoTo(Top.then) /\ timers' = timers
    <3>1. stack' \in Seq(GoodFrames) /\ Kept
      BY <2>1, <1>1, <1>5, FrameAt, BecomesGood DEF GoTo, DaemonInv
    <3> QED
      BY <3>1, <2>1 DEF DaemonInv, RestOK
  <2>2. CASE PerformAction(m, "saveDisabled")
    BY <2>2, <1>1, <1>3, PerformGood DEF DaemonInv, Methods_
  <2>3. CASE Becomes(m) /\ timers' = timers
    <3>1. stack' \in Seq(GoodFrames) /\ Kept
      BY <2>3, <1>1, <1>3, BecomesGood DEF DaemonInv
    <3> QED
      BY <3>1, <2>3 DEF DaemonInv, RestOK
  <2> QED
    BY <1>4, <2>1, <2>2, <2>3
<1>7. FilesOK' /\ ListsOK'
  BY <1>2, <1>9 DEF DaemonInv, FilesOK, ListsOK, helperVars
<1>8. RestOK' /\ StackOK' /\ Steady
  BY <1>1, <1>2, <1>6 DEF DaemonInv, RestOK, StackOK, Steady, environment
<1> QED
  BY <1>6, <1>7, <1>8 DEF StepOK, DaemonInv

LEMMA RebuildStep ==
    ASSUME DaemonInv, RebuildLists
    PROVE  StepOK
<1>1. /\ stack # <<>> /\ Top \in GoodFrames /\ process \in {"running", "exiting"}
      /\ Top.dir \in Dir
  BY AtGood DEF RebuildLists
<1>2. UNCHANGED <<disk, helper, unconfigured, modified, cache, connections, timers, process,
                  lost, environment>>
  BY DEF RebuildLists
<1>3. UserSaved \subseteq In(Hidden(File), "user") /\ cfg["sys"] \subseteq In(Hidden(File), "sys")
  BY SavedGood DEF DaemonInv, FilesOK, Dir
<1>4. FilesOK'
  <2>1. Rewritten \subseteq In(Hidden(File), "user") /\ "user" \in Dir
    BY <1>3 DEF Rewritten, Dir
  <2>2. cfg' = [cfg EXCEPT !["user"] = Rewritten]
    BY DEF RebuildLists
  <2>3. cfg' \in [Dir -> SUBSET File] /\ \A d \in Dir : cfg'[d] \subseteq In(Hidden(File), d)
    BY <2>1, <2>2, CfgSet DEF DaemonInv
  <2> QED
    BY <2>3, <1>2 DEF FilesOK, DaemonInv
<1>5. fonts' \in [Dir -> SUBSET File] /\ \A d \in Dir : fonts'[d] \subseteq In(File, d)
  <2>1. \A d \in Dir : Listed(d) \subseteq In(File, d)
    BY <1>3 DEF Listed, Dir, In, Hidden, DaemonInv, FilesOK, ListsOK
  <2>2. \A d \in Dir : In(File, d) \subseteq File
    BY DEF In
  <2>3. fonts' = [d \in Dir |-> Listed(d)]
    BY DEF RebuildLists
  <2> QED
    BY <2>1, <2>2, <2>3
<1>6. heard' \subseteq File /\ dirty' = {} /\ behind' \in BOOLEAN
  <2>1. All(fonts') \subseteq File
    BY <1>5 DEF All, Dir
  <2>2. heard' = heard \/ \E gone : heard' = (heard \cup (All(fonts') \ All(Top.old))) \ gone
    BY DEF RebuildLists, Broadcast
  <2>3. behind' \in BOOLEAN
    BY DEF RebuildLists, DaemonInv, RestOK
  <2> QED
    BY <2>1, <2>2, <2>3 DEF RebuildLists, DaemonInv, ListsOK
<1>7. ListsOK'
  BY <1>5, <1>6, <1>2 DEF ListsOK, DaemonInv
<1> DEFINE m == [Top EXCEPT !.at = Top.then, !.old = Empty]
           n == [m EXCEPT !.asked = "", !.answered = FALSE]
<1>8. m \in GoodFrames /\ m.pid = Top.pid /\ m.op = Top.op
  <2>1. Empty \in [Dir -> SUBSET File]
    BY DEF Empty
  <2>2. Top.then \in Steps /\ Top.then \notin {"after", "configure"}
    BY <1>1 DEF GoodFrames, Frames
  <2> QED
    BY <2>1, <2>2, <1>1, FrameOld
<1>9. stack' = <<n>> \o AllFreed(Tail(stack))
  BY DEF RebuildLists, BecomesAnd
<1> HIDE DEF m
<1>10. n \in GoodFrames /\ n.pid = m.pid /\ n.op = m.op
  BY <1>8, AskedGood DEF Methods_
<1> HIDE DEF n
<1>11. StackOK /\ Tail(stack) \in Seq(GoodFrames) /\ Len(Tail(stack)) = Len(stack) - 1
  BY <1>1, TopGood DEF DaemonInv
<1>12. /\ AllFreed(Tail(stack)) \in Seq(GoodFrames) /\ Len(AllFreed(Tail(stack))) = Len(stack) - 1
       /\ \A j \in 1 .. Len(stack) - 1 : /\ AllFreed(Tail(stack))[j].pid = stack[j + 1].pid
                                         /\ AllFreed(Tail(stack))[j].op = stack[j + 1].op
  <2>1. Len(AllFreed(Tail(stack))) = Len(Tail(stack)) /\ AllFreed(Tail(stack)) \in Seq(GoodFrames)
        /\ \A j \in 1 .. Len(Tail(stack)) : /\ AllFreed(Tail(stack))[j].pid = Tail(stack)[j].pid
                                            /\ AllFreed(Tail(stack))[j].op = Tail(stack)[j].op
    BY <1>11, AllFreedGood
  <2>2. \A j \in 1 .. Len(stack) - 1 :
           Tail(stack)[j].pid = stack[j + 1].pid /\ Tail(stack)[j].op = stack[j + 1].op
    BY <1>1, <1>11, RestOfStack
  <2> QED
    BY <2>1, <2>2, <1>11
<1>13. stack' \in Seq(GoodFrames) /\ Kept
  BY <1>1, <1>8, <1>9, <1>10, <1>11, <1>12, OnTop
<1>14. RestOK' /\ StackOK' /\ Steady
  BY <1>1, <1>2, <1>6, <1>13 DEF DaemonInv, RestOK, StackOK, Steady, environment
<1> QED
  BY <1>4, <1>7, <1>13, <1>14 DEF StepOK, DaemonInv

\* What is freed on the stack when a method removes a style and returns.
LEMMA ReturnsFreed ==
    ASSUME StackOK, stack # <<>>, NEW d, NEW style, stack' = Freed(Tail(stack), d, style)
    PROVE  stack' \in Seq(GoodFrames) /\ Kept
<1>1. Tail(stack) \in Seq(GoodFrames) /\ Len(Tail(stack)) = Len(stack) - 1
      /\ Len(stack) \in Nat /\ Len(stack) > 0
  BY TopGood
<1>2. /\ stack' \in Seq(GoodFrames) /\ Len(stack') = Len(stack) - 1
      /\ \A j \in 1 .. Len(Tail(stack)) :
            stack'[j].pid = Tail(stack)[j].pid /\ stack'[j].op = Tail(stack)[j].op
  <2> DEFINE s == Tail(stack)
  <2>1. s \in Seq(GoodFrames) /\ stack' = Freed(s, d, style) /\ Len(s) = Len(stack) - 1
    BY <1>1
  <2> HIDE DEF s
  <2>2. /\ stack' \in Seq(GoodFrames) /\ Len(stack') = Len(s)
        /\ \A j \in 1 .. Len(s) : stack'[j].pid = s[j].pid /\ stack'[j].op = s[j].op
    BY <2>1, FreedGood
  <2> QED
    BY <2>1, <2>2 DEF s
<1>3. \A j \in 1 .. Len(stack) - 1 :
         Tail(stack)[j].pid = stack[j + 1].pid /\ Tail(stack)[j].op = stack[j + 1].op
  BY RestOfStack
<1>4. ASSUME NEW j \in DOMAIN stack'
      PROVE  j + 1 \in DOMAIN stack /\ stack'[j].pid = stack[j + 1].pid /\ stack'[j].op = stack[j + 1].op
  <2>1. j \in 1 .. Len(stack) - 1 /\ j + 1 \in 1 .. Len(stack)
    BY <1>1, <1>2
  <2> QED
    BY <2>1, <1>1, <1>2, <1>3 DEF StackOK
<1> QED
  BY <1>2, <1>4 DEF Kept

LEMMA FindStep ==
    ASSUME DaemonInv, FindFont
    PROVE  /\ DaemonInv' /\ Steady
           /\ Kept \/ (/\ connections' = connections \cup {Top.pid}
                       /\ \A j \in DOMAIN stack' :
                             \/ stack'[j].pid = Top.pid
                             \/ j \in DOMAIN stack /\ stack'[j].pid = stack[j].pid
                                                   /\ stack'[j].op = stack[j].op)
<1>1. /\ stack # <<>> /\ Top \in GoodFrames /\ process \in {"running", "exiting"}
      /\ Top.dir \in Dir /\ Top \in Frames /\ StackOK
  BY AtGood DEF FindFont, DaemonInv
<1>2. UNCHANGED <<helperVars, lists, process, heard, behind, lost, environment>>
  BY DEF FindFont
<1>3. FilesOK' /\ ListsOK'
  BY <1>2 DEF DaemonInv, FilesOK, ListsOK, helperVars, lists
<1> DEFINE Close == stack' \in Seq(GoodFrames) /\ Kept /\ timers' \subseteq AllTimers /\ connections' = connections
<1>4. timers \subseteq AllTimers
  BY DEF DaemonInv, RestOK
<1>5. ASSUME NEW m \in GoodFrames, m.pid = Top.pid, m.op = Top.op, Becomes(m),
             UNCHANGED <<timers, connections>>
      PROVE  Close
  BY <1>1, <1>4, <1>5, BecomesGood
<1>6. ASSUME Close PROVE DaemonInv' /\ Steady /\ Kept
  <2>1. RestOK' /\ StackOK' /\ Steady
    BY <1>1, <1>2, <1>6 DEF DaemonInv, RestOK, StackOK, Steady, environment
  <2> QED
    BY <2>1, <1>3, <1>6 DEF DaemonInv
<1> HIDE DEF Close
<1> DEFINE m1 == [Top EXCEPT !.at = "body", !.files = Found, !.valid = TRUE]
           m2 == [Top EXCEPT !.op = "uninstall", !.at = IF Top.check THEN "update" ELSE "find",
                             !.then = "find"]
<1>7. CASE Becomes(m1) /\ UNCHANGED <<timers, connections>>
  <2>1. Found \subseteq In(File, Top.dir) /\ Found \in SUBSET File
    BY <1>1 DEF Found, OfStyle, DaemonInv, ListsOK, In
  <2>2. m1 \in GoodFrames /\ m1.pid = Top.pid /\ m1.op = Top.op
    BY <2>1, <1>1, FrameFound
  <2> HIDE DEF m1
  <2> QED
    BY <2>2, <1>5, <1>6, <1>7
<1>8. CASE Becomes(m2) /\ connections' = connections \cup {Top.pid} /\ UNCHANGED timers
  <2>1. m2 \in GoodFrames /\ m2.pid = Top.pid
    BY <1>1, FrameNamed
  <2> DEFINE n == [m2 EXCEPT !.asked = "", !.answered = FALSE]
  <2>2. stack' = <<n>> \o Tail(stack)
    BY <1>8 DEF Becomes, BecomesAnd
  <2> HIDE DEF m2
  <2>3. n \in GoodFrames /\ n.pid = Top.pid
    BY <2>1, AskedGood DEF Methods_
  <2> HIDE DEF n
  <2>4. /\ Tail(stack) \in Seq(GoodFrames) /\ Len(Tail(stack)) = Len(stack) - 1
        /\ Len(stack) \in Nat /\ Len(stack) > 0
        /\ \A j \in 1 .. Len(stack) - 1 : Tail(stack)[j] = stack[j + 1]
    BY <1>1, TopGood
  <2>5. stack' \in Seq(GoodFrames) /\ Len(stack') = Len(stack)
    BY <2>2, <2>3, <2>4
  <2>9. stack'[1] = n /\ \A j \in 2 .. Len(stack) : stack'[j] = Tail(stack)[j - 1]
    BY <2>2, <2>4, <2>5
  <2>6. ASSUME NEW j \in DOMAIN stack'
        PROVE  \/ stack'[j].pid = Top.pid
               \/ j \in DOMAIN stack /\ stack'[j] = stack[j]
    <3>1. j \in 1 .. Len(stack)
      BY <2>4, <2>5
    <3>2. CASE j = 1
      <4>1. stack'[j] = n
        BY <3>2, <2>9
      <4> QED
        BY <4>1, <2>3
    <3>3. CASE j # 1
      <4>1. j - 1 \in 1 .. Len(stack) - 1 /\ (j - 1) + 1 = j /\ j \in 2 .. Len(stack)
        BY <3>1, <3>3, <2>4
      <4>2. stack'[j] = Tail(stack)[j - 1]
        BY <4>1, <2>9
      <4> QED
        BY <4>1, <4>2, <2>4, <3>1, <1>1 DEF StackOK
    <3> QED
      BY <3>2, <3>3
  <2>7. Top.pid \in Clients
    BY <1>1 DEF Frames
  <2>8. RestOK' /\ StackOK' /\ Steady
    BY <1>1, <1>2, <1>8, <2>5, <2>7 DEF DaemonInv, RestOK, StackOK, Steady, environment
  <2> QED
    BY <2>6, <2>8, <1>3, <1>8 DEF DaemonInv
<1>9. CASE Retry /\ UNCHANGED <<timers, connections>>
  <2> DEFINE m3 == [Top EXCEPT !.at = "update", !.then = "refind"]
  <2>1. m3 \in GoodFrames /\ m3.pid = Top.pid /\ m3.op = Top.op
    BY <1>1, FrameRefresh DEF Steps
  <2>2. Becomes(m3)
    BY <1>9 DEF Retry, Refresh
  <2> HIDE DEF m3
  <2> QED
    BY <2>1, <2>2, <1>5, <1>6, <1>9
<1>10. CASE ((Returns /\ UNCHANGED timers) \/ ReturnsAndRestarts) /\ UNCHANGED connections
  <2>1. Returns /\ timers' \subseteq AllTimers
    BY <1>10, <1>4 DEF ReturnsAndRestarts
  <2>2. Close
    BY <2>1, <1>1, <1>10, ReturnsGood DEF Close
  <2> QED
    BY <2>2, <1>6
<1> QED
  BY <1>7, <1>8, <1>9, <1>10 DEF FindFont

-----------------------------------------------------------------------------
(* The methods.                                                            *)

\* The lists of a step that tells of files of the folders.
LEMMA ListsGood ==
    ASSUME DaemonInv, fonts' \in [Dir -> SUBSET File], \A d \in Dir : fonts'[d] \subseteq In(File, d),
           dirty' \subseteq Dir, modified' \subseteq Dir, heard' \subseteq File, UNCHANGED <<cache, lost>>
    PROVE  ListsOK'
BY DEF DaemonInv, ListsOK

LEMMA AddedGood ==
    ASSUME DaemonInv, NEW S, Top.dir \in Dir, S \subseteq In(File, Top.dir), Added(S),
           UNCHANGED <<dirty, cache, lost>>
    PROVE  ListsOK'
<1> DEFINE new == fonts[Top.dir] \cup S
<1>1. new \subseteq In(File, Top.dir)
  BY DEF DaemonInv, ListsOK
<1>2. fonts' = [fonts EXCEPT ![Top.dir] = new] /\ modified' = modified \cup {Top.dir}
      /\ heard' = (heard \cup S) \ {}
  BY DEF Added, Broadcast
<1> HIDE DEF new
<1>3. fonts' \in [Dir -> SUBSET File] /\ \A d \in Dir : fonts'[d] \subseteq In(File, d)
  BY <1>1, <1>2, FontsSet DEF DaemonInv
<1>4. heard' \subseteq File /\ modified' \subseteq Dir /\ dirty' \subseteq Dir
  BY <1>2 DEF DaemonInv, ListsOK, In
<1> QED
  BY <1>3, <1>4, ListsGood

LEMMA InstalledGood == ASSUME Top.name \in Names, Top.dir \in Dir
                       PROVE  Installed \in In(File, Top.dir) /\ Installed \in File
BY DEF Installed, FileAt, File, In

LEMMA ReturnStep ==
    ASSUME DaemonInv, stack # <<>>, process \in {"running", "exiting"}, UNCHANGED Unchecked,
           Returns, timers' \subseteq AllTimers
    PROVE  RestOK' /\ StackOK' /\ Steady /\ Kept /\ UNCHANGED <<cache, lost>>
<1>1. stack' \in Seq(GoodFrames) /\ Kept
  BY ReturnsGood DEF DaemonInv
<1> QED
  BY <1>1, UncheckedGood

LEMMA RestartStep ==
    ASSUME DaemonInv, stack # <<>>, process \in {"running", "exiting"}, UNCHANGED Unchecked,
           ReturnsAndRestarts
    PROVE  RestOK' /\ StackOK' /\ Steady /\ Kept /\ UNCHANGED <<cache, lost>>
BY ReturnStep DEF ReturnsAndRestarts

\* The method on top asks the helper, to go on after its answer.
LEMMA AskStep ==
    ASSUME DaemonInv, NEW step, At(step), NEW next \in Steps, NEW v \in Methods_, UNCHANGED Unchecked,
           next = "after" /\ Top.op \in Toggles => Top.dir = "sys", next # "configure",
           v = "toggle" => Top.dir = "sys",
           PerformAction([Top EXCEPT !.at = next], v)
    PROVE  RestOK' /\ StackOK' /\ Steady /\ Kept /\ UNCHANGED <<cache, lost>>
<1> DEFINE m == [Top EXCEPT !.at = next]
<1>1. stack # <<>> /\ Top \in GoodFrames /\ process \in {"running", "exiting"}
  BY AtGood
<1>2. m \in GoodFrames /\ m.pid = Top.pid /\ m.op = Top.op /\ m.dir = Top.dir
  BY <1>1, FrameAt
<1> HIDE DEF m
<1>3. stack' \in Seq(GoodFrames) /\ Kept /\ timers' \subseteq AllTimers
  BY <1>1, <1>2, PerformGood DEF DaemonInv, m
<1> QED
  BY <1>1, <1>3, UncheckedGood

LEMMA InstallStep ==
    ASSUME DaemonInv, Install
    PROVE  StepOK
<1>1. /\ stack # <<>> /\ process \in {"running", "exiting"} /\ Top.dir \in Dir /\ Top.name \in Names
      /\ Top.op = "install" /\ At("body")
  BY AtGood DEF Install
<1>2. UNCHANGED Unchecked /\ UNCHANGED <<dirty, cfg, helper>>
  BY DEF Install
<1>3. CASE ReturnsAndRestarts /\ UNCHANGED <<disk, unconfigured, fonts, modified, heard>>
  <2>1. RestOK' /\ StackOK' /\ Steady /\ Kept /\ UNCHANGED <<cache, lost>>
    BY <1>1, <1>2, <1>3, RestartStep
  <2>2. FilesOK' /\ ListsOK'
    BY <2>1, <1>2, <1>3 DEF DaemonInv, FilesOK, ListsOK
  <2> QED
    BY <2>1, <2>2 DEF StepOK, DaemonInv
<1>4. CASE /\ Top.dir = "user" /\ disk' = disk \cup {Installed} /\ Changed({"user"})
           /\ Added({Installed}) /\ ReturnsAndRestarts
  <2>1. RestOK' /\ StackOK' /\ Steady /\ Kept /\ UNCHANGED <<cache, lost>>
    BY <1>1, <1>2, <1>4, RestartStep
  <2>2. {Installed} \subseteq In(File, Top.dir) /\ Installed \in File
    BY <1>1, InstalledGood
  <2>3. ListsOK'
    BY <2>1, <2>2, <1>1, <1>2, <1>4, AddedGood
  <2>4. FilesOK'
    BY <2>2, <1>1, <1>2, <1>4 DEF DaemonInv, FilesOK, Changed
  <2> QED
    BY <2>1, <2>3, <2>4 DEF StepOK, DaemonInv
<1>5. CASE /\ PerformAction([Top EXCEPT !.at = "after"], "install")
           /\ UNCHANGED <<disk, unconfigured, fonts, modified, heard>>
  <2>1. Top.op \notin Toggles
    BY <1>1 DEF Toggles
  <2>2. RestOK' /\ StackOK' /\ Steady /\ Kept /\ UNCHANGED <<cache, lost>>
    BY <2>1, <1>1, <1>2, <1>5, AskStep DEF Steps, Methods_
  <2>3. FilesOK' /\ ListsOK'
    BY <2>2, <1>2, <1>5 DEF DaemonInv, FilesOK, ListsOK
  <2> QED
    BY <2>2, <2>3 DEF StepOK, DaemonInv
<1> QED
  BY <1>3, <1>4, <1>5 DEF Install

LEMMA InstallAfterStep ==
    ASSUME DaemonInv, InstallAfter
    PROVE  StepOK
<1>1. stack # <<>> /\ process \in {"running", "exiting"} /\ Top.dir \in Dir /\ Top.name \in Names
  BY AtGood DEF InstallAfter
<1>2. RestOK' /\ StackOK' /\ Steady /\ Kept /\ UNCHANGED <<cache, lost>>
  BY <1>1, RestartStep DEF InstallAfter
<1>3. {Installed} \subseteq In(File, Top.dir)
  BY <1>1, InstalledGood
<1>4. ListsOK'
  BY <1>1, <1>2, <1>3, AddedGood DEF InstallAfter
<1>5. FilesOK'
  BY DEF InstallAfter, DaemonInv, FilesOK, helperVars
<1> QED
  BY <1>2, <1>4, <1>5 DEF StepOK, DaemonInv

LEMMA UninstallUserStep ==
    ASSUME DaemonInv, UninstallUser
    PROVE  StepOK
<1>1. stack # <<>> /\ process \in {"running", "exiting"} /\ Top.dir = "user" /\ "user" \in Dir
      /\ Top.files \subseteq In(File, Top.dir)
  BY AtGood DEF UninstallUser, Dir
<1>2. PICK gone \in SUBSET Top.files :
        /\ disk' = disk \ gone
        /\ fonts' = [fonts EXCEPT !["user"] = @ \ gone]
        /\ LET touched == IF gone = {} THEN {} ELSE {"user"} IN
           Changed(touched) /\ modified' = modified \cup touched
        /\ dirty' = IF Hidden(gone) = {} THEN dirty ELSE dirty \cup {"user"}
        /\ Broadcast({}, gone)
        /\ stack' = IF gone = Top.files
                    THEN Freed(Tail(stack), "user", StyleOf[Top.name])
                    ELSE Tail(stack)
  BY DEF UninstallUser
<1>3. timers' = AllTimers /\ UNCHANGED Unchecked /\ UNCHANGED <<cfg, helper>>
  BY DEF UninstallUser
<1>4. stack' \in Seq(GoodFrames) /\ Kept
  <2>1. CASE gone = Top.files
    BY <2>1, <1>1, <1>2, ReturnsFreed DEF DaemonInv
  <2>2. CASE gone # Top.files
    BY <2>2, <1>1, <1>2, ReturnsGood DEF DaemonInv, Returns
  <2> QED
    BY <2>1, <2>2
<1>5. RestOK' /\ StackOK' /\ Steady /\ UNCHANGED <<cache, lost>>
  BY <1>1, <1>3, <1>4, UncheckedGood
<1>6. FilesOK'
  BY <1>1, <1>2, <1>3 DEF DaemonInv, FilesOK, Changed
<1>7. ListsOK'
  <2> DEFINE S == fonts["user"] \ gone
  <2>1. S \subseteq In(File, "user")
    BY <1>1 DEF DaemonInv, ListsOK
  <2>2. fonts' = [fonts EXCEPT !["user"] = S]
    BY <1>2
  <2> HIDE DEF S
  <2>3. fonts' \in [Dir -> SUBSET File] /\ \A d \in Dir : fonts'[d] \subseteq In(File, d)
    BY <2>1, <2>2, <1>1, FontsSet DEF DaemonInv
  <2>4. dirty' \subseteq Dir /\ modified' \subseteq Dir /\ heard' \subseteq File
    BY <1>1, <1>2 DEF DaemonInv, ListsOK, Broadcast
  <2> QED
    BY <2>3, <2>4, <1>5, ListsGood
<1> QED
  BY <1>4, <1>5, <1>6, <1>7 DEF StepOK, DaemonInv

LEMMA UninstallSystemStep ==
    ASSUME DaemonInv, UninstallSystem
    PROVE  StepOK
<1>1. Top.op \notin Toggles /\ At("body") /\ UNCHANGED Unchecked
      /\ PerformAction([Top EXCEPT !.at = "after"], "uninstall")
  BY DEF UninstallSystem, Toggles
<1>2. RestOK' /\ StackOK' /\ Steady /\ Kept /\ UNCHANGED <<cache, lost>>
  BY <1>1, AskStep DEF Steps, Methods_
<1>3. FilesOK' /\ ListsOK'
  BY <1>2 DEF UninstallSystem, DaemonInv, FilesOK, ListsOK, helperVars, Dir
<1> QED
  BY <1>2, <1>3 DEF StepOK, DaemonInv

LEMMA UninstallAfterStep ==
    ASSUME DaemonInv, UninstallAfter
    PROVE  StepOK
<1>1. stack # <<>> /\ process \in {"running", "exiting"} /\ Top.files \subseteq In(File, Top.dir)
      /\ "sys" \in Dir
  BY AtGood DEF UninstallAfter, Dir
<1>2. stack' \in Seq(GoodFrames) /\ Kept
  BY <1>1, ReturnsFreed DEF DaemonInv, UninstallAfter
<1>3. RestOK' /\ StackOK' /\ Steady /\ UNCHANGED <<cache, lost>>
  BY <1>1, <1>2, UncheckedGood DEF UninstallAfter
<1>4. ListsOK'
  <2> DEFINE S == fonts["sys"] \ OfStyle(fonts["sys"], StyleOf[Top.name])
  <2>1. S \subseteq In(File, "sys")
    BY <1>1 DEF DaemonInv, ListsOK
  <2>2. fonts' = [fonts EXCEPT !["sys"] = S]
    BY DEF UninstallAfter
  <2> HIDE DEF S
  <2>3. fonts' \in [Dir -> SUBSET File] /\ \A d \in Dir : fonts'[d] \subseteq In(File, d)
    BY <2>1, <2>2, <1>1, FontsSet DEF DaemonInv
  <2>4. dirty' \subseteq Dir /\ modified' \subseteq Dir /\ heard' \subseteq File
    BY <1>1 DEF DaemonInv, ListsOK, Broadcast, UninstallAfter
  <2> QED
    BY <2>3, <2>4, <1>3, ListsGood
<1>5. FilesOK'
  BY DEF UninstallAfter, DaemonInv, FilesOK, helperVars
<1> QED
  BY <1>2, <1>3, <1>4, <1>5 DEF StepOK, DaemonInv

LEMMA MoveStep ==
    ASSUME DaemonInv, Move
    PROVE  StepOK
<1>1. Top.op \notin Toggles /\ At("body") /\ UNCHANGED Unchecked
      /\ PerformAction([Top EXCEPT !.at = "after"], "move")
  BY DEF Move, Toggles
<1>2. RestOK' /\ StackOK' /\ Steady /\ Kept /\ UNCHANGED <<cache, lost>>
  BY <1>1, AskStep DEF Steps, Methods_
<1>3. FilesOK' /\ ListsOK'
  BY <1>2 DEF Move, DaemonInv, FilesOK, ListsOK, helperVars
<1> QED
  BY <1>2, <1>3 DEF StepOK, DaemonInv

\* The refresh of the lists before the end of a method.
LEMMA RefreshStack ==
    ASSUME DaemonInv, NEW step, At(step), Refresh("reply")
    PROVE  stack' \in Seq(GoodFrames) /\ Kept
<1> DEFINE m == [Top EXCEPT !.at = "update", !.then = "reply"]
<1>1. stack # <<>> /\ Top \in GoodFrames /\ Becomes(m)
  BY AtGood DEF Refresh
<1>2. m \in GoodFrames /\ m.pid = Top.pid /\ m.op = Top.op
  BY <1>1, FrameRefresh DEF Steps
<1> HIDE DEF m
<1> QED
  BY <1>1, <1>2, BecomesGood DEF DaemonInv

LEMMA MoveAfterStep ==
    ASSUME DaemonInv, MoveAfter
    PROVE  StepOK
<1>1. stack # <<>> /\ process \in {"running", "exiting"}
  BY AtGood DEF MoveAfter
<1>2. stack' \in Seq(GoodFrames) /\ Kept
  BY RefreshStack DEF MoveAfter
<1>3. timers' \subseteq AllTimers
  BY DEF MoveAfter, DaemonInv, RestOK
<1>4. RestOK' /\ StackOK' /\ Steady /\ UNCHANGED <<cache, lost>>
  BY <1>1, <1>2, <1>3, UncheckedGood DEF MoveAfter
<1>5. FilesOK' /\ ListsOK'
  BY <1>4 DEF MoveAfter, DaemonInv, FilesOK, ListsOK, helperVars
<1> QED
  BY <1>2, <1>4, <1>5 DEF StepOK, DaemonInv

LEMMA ToggledGood ==
    ASSUME DaemonInv, NEW step, At(step), NEW kept, kept \subseteq In(File, Top.dir), Toggled(kept),
           UNCHANGED Unchecked
    PROVE  ListsOK' /\ RestOK' /\ StackOK' /\ Steady /\ Kept
<1>1. stack # <<>> /\ process \in {"running", "exiting"} /\ Top.files \subseteq In(File, Top.dir)
      /\ Top.dir \in Dir
  BY AtGood
<1>2. RestOK' /\ StackOK' /\ Steady /\ Kept /\ UNCHANGED <<cache, lost>>
  BY <1>1, RestartStep DEF Toggled
<1>3. Enables \in BOOLEAN
  BY DEF Enables
<1>4. Flipped(Top.files, Enables) \subseteq File
  BY <1>1, <1>3, FlippedGood DEF In
<1>5. fonts' = [fonts EXCEPT ![Top.dir] = kept]
  BY DEF Toggled
<1>6. fonts' \in [Dir -> SUBSET File] /\ \A d \in Dir : fonts'[d] \subseteq In(File, d)
  BY <1>1, <1>5, FontsSet DEF DaemonInv
<1>7. dirty' \subseteq Dir /\ modified' \subseteq Dir /\ heard' \subseteq File
  BY <1>1, <1>4 DEF Toggled, Broadcast, DaemonInv, ListsOK
<1>8. ListsOK'
  BY <1>2, <1>6, <1>7, ListsGood
<1> QED
  BY <1>2, <1>8

LEMMA WithFlippedGood ==
    ASSUME DaemonInv, Top.dir \in Dir, Top.files \subseteq In(File, Top.dir)
    PROVE  /\ WithFlipped(Top.dir) \subseteq In(File, Top.dir)
           /\ Flipped(Top.files, Enables) \subseteq File
<1>1. Enables \in BOOLEAN
  BY DEF Enables
<1>2. Flipped(Top.files, Enables) \subseteq In(File, Top.dir)
  BY <1>1, FlippedGood
<1> QED
  BY <1>2 DEF WithFlipped, DaemonInv, ListsOK, In

LEMMA ToggleUserStep ==
    ASSUME DaemonInv, ToggleUser
    PROVE  StepOK
<1>1. /\ stack # <<>> /\ process \in {"running", "exiting"} /\ Top.dir = "user" /\ "user" \in Dir
      /\ Top.files \subseteq In(File, Top.dir) /\ At("body")
  BY AtGood DEF ToggleUser, Dir
<1>2. UNCHANGED Unchecked /\ UNCHANGED <<cfg, helper>>
  BY DEF ToggleUser
<1> DEFINE flips == ToFlip(Top.files, Enables)
<1>3. CASE /\ disk' = (disk \ flips) \cup Flipped(Top.files, Enables)
           /\ Changed(IF flips = {} THEN {} ELSE {"user"})
           /\ Toggled(WithFlipped("user"))
  <2>1. WithFlipped("user") \subseteq In(File, Top.dir) /\ Flipped(Top.files, Enables) \subseteq File
    BY <1>1, WithFlippedGood
  <2>2. ListsOK' /\ RestOK' /\ StackOK' /\ Steady /\ Kept
    BY <2>1, <1>1, <1>2, <1>3, ToggledGood
  <2>3. FilesOK'
    BY <2>1, <1>1, <1>2, <1>3 DEF DaemonInv, FilesOK, Changed
  <2> QED
    BY <2>2, <2>3 DEF StepOK, DaemonInv
<1>4. CASE ReturnsAndRestarts /\ UNCHANGED <<disk, unconfigured, fonts, dirty, modified, heard>>
  <2>1. RestOK' /\ StackOK' /\ Steady /\ Kept /\ UNCHANGED <<cache, lost>>
    BY <1>1, <1>2, <1>4, RestartStep
  <2>2. FilesOK' /\ ListsOK'
    BY <2>1, <1>2, <1>4 DEF DaemonInv, FilesOK, ListsOK
  <2> QED
    BY <2>1, <2>2 DEF StepOK, DaemonInv
<1> QED
  BY <1>3, <1>4 DEF ToggleUser

LEMMA ToggleSystemStep ==
    ASSUME DaemonInv, ToggleSystem
    PROVE  StepOK
<1>1. Top.dir = "sys" /\ At("body") /\ UNCHANGED Unchecked
      /\ PerformAction([Top EXCEPT !.at = "after"], "toggle")
  BY DEF ToggleSystem
<1>2. RestOK' /\ StackOK' /\ Steady /\ Kept /\ UNCHANGED <<cache, lost>>
  BY <1>1, AskStep DEF Steps, Methods_
<1>3. FilesOK' /\ ListsOK'
  BY <1>2 DEF ToggleSystem, DaemonInv, FilesOK, ListsOK, helperVars
<1> QED
  BY <1>2, <1>3 DEF StepOK, DaemonInv

LEMMA ToggleAfterStep ==
    ASSUME DaemonInv, ToggleAfter
    PROVE  StepOK
<1>1. At("after") /\ Top.op \in Toggles /\ UNCHANGED Unchecked
      /\ Toggled(IF Top.valid THEN WithFlipped("sys") ELSE fonts["sys"])
  BY DEF ToggleAfter
<1>2. Top \in GoodFrames /\ Top.at = "after" /\ Top.dir \in Dir /\ Top.files \subseteq In(File, Top.dir)
  BY <1>1, AtGood
<1>3. Top.dir = "sys"
  BY <1>1, <1>2 DEF GoodFrames
<1>4. WithFlipped("sys") \subseteq In(File, Top.dir) /\ fonts["sys"] \subseteq In(File, Top.dir)
  BY <1>2, <1>3, WithFlippedGood DEF DaemonInv, ListsOK
<1>5. (IF Top.valid THEN WithFlipped("sys") ELSE fonts["sys"]) \subseteq In(File, Top.dir)
  BY <1>4
<1>6. ListsOK' /\ RestOK' /\ StackOK' /\ Steady /\ Kept
  BY <1>1, <1>5, ToggledGood
<1>7. FilesOK'
  BY DEF ToggleAfter, DaemonInv, FilesOK, helperVars
<1> QED
  BY <1>6, <1>7 DEF StepOK, DaemonInv

LEMMA RemoveFileStep ==
    ASSUME DaemonInv, RemoveFile
    PROVE  StepOK
<1>1. /\ stack # <<>> /\ process \in {"running", "exiting"} /\ At("body") /\ Top.op = "removeFile"
      /\ timers \subseteq AllTimers
  BY AtGood DEF RemoveFile, DaemonInv, RestOK
<1>2. UNCHANGED Unchecked /\ UNCHANGED <<fonts, dirty, heard, cfg, helper>>
  BY DEF RemoveFile
<1>3. CASE /\ \E f \in In(disk, "user") : disk' = disk \ {f}
           /\ Changed({"user"}) /\ modified' = modified \cup {"user"} /\ Returns /\ UNCHANGED timers
  <2>1. RestOK' /\ StackOK' /\ Steady /\ Kept /\ UNCHANGED <<cache, lost>>
    BY <1>1, <1>2, <1>3, ReturnStep
  <2>2. FilesOK' /\ ListsOK'
    BY <2>1, <1>2, <1>3 DEF DaemonInv, FilesOK, ListsOK, Changed, Dir
  <2> QED
    BY <2>1, <2>2 DEF StepOK, DaemonInv
<1>4. CASE Returns /\ UNCHANGED <<disk, unconfigured, modified, timers>>
  <2>1. RestOK' /\ StackOK' /\ Steady /\ Kept /\ UNCHANGED <<cache, lost>>
    BY <1>1, <1>2, <1>4, ReturnStep
  <2>2. FilesOK' /\ ListsOK'
    BY <2>1, <1>2, <1>4 DEF DaemonInv, FilesOK, ListsOK
  <2> QED
    BY <2>1, <2>2 DEF StepOK, DaemonInv
<1>5. CASE /\ PerformAction([Top EXCEPT !.at = "after"], "removeFile")
           /\ UNCHANGED <<disk, unconfigured, modified>>
  <2>1. Top.op \notin Toggles
    BY <1>1 DEF Toggles
  <2>2. RestOK' /\ StackOK' /\ Steady /\ Kept /\ UNCHANGED <<cache, lost>>
    BY <2>1, <1>1, <1>2, <1>5, AskStep DEF Steps, Methods_
  <2>3. FilesOK' /\ ListsOK'
    BY <2>2, <1>2, <1>5 DEF DaemonInv, FilesOK, ListsOK
  <2> QED
    BY <2>2, <2>3 DEF StepOK, DaemonInv
<1> QED
  BY <1>3, <1>4, <1>5 DEF RemoveFile

LEMMA RemoveFileAfterStep ==
    ASSUME DaemonInv, RemoveFileAfter
    PROVE  StepOK
<1>1. stack # <<>> /\ process \in {"running", "exiting"} /\ timers' \subseteq AllTimers
  BY AtGood DEF RemoveFileAfter, DaemonInv, RestOK
<1>2. RestOK' /\ StackOK' /\ Steady /\ Kept /\ UNCHANGED <<cache, lost>>
  BY <1>1, ReturnStep DEF RemoveFileAfter
<1>3. FilesOK' /\ ListsOK'
  BY <1>2 DEF RemoveFileAfter, DaemonInv, FilesOK, ListsOK, helperVars, Dir
<1> QED
  BY <1>2, <1>3 DEF StepOK, DaemonInv

\* The list of the user's disabled fonts is written.
LEMMA UserSavedGood ==
    ASSUME DaemonInv, cfg' = [cfg EXCEPT !["user"] = UserSaved], UNCHANGED <<disk, helper, unconfigured>>
    PROVE  FilesOK'
<1>1. UserSaved \subseteq In(Hidden(File), "user") /\ "user" \in Dir
  BY SavedGood DEF DaemonInv, Dir
<1>2. cfg' \in [Dir -> SUBSET File] /\ \A d \in Dir : cfg'[d] \subseteq In(Hidden(File), d)
  BY <1>1, CfgSet DEF DaemonInv
<1> QED
  BY <1>2 DEF DaemonInv, FilesOK

LEMMA UnmovedStack == ASSUME UNCHANGED stack PROVE Kept
BY DEF Kept

LEMMA UsesFreedStep ==
    ASSUME DaemonInv, UsesFreed
    PROVE  StepOK
<1>1. FilesOK'
  BY UserSavedGood DEF UsesFreed
<1>2. ListsOK'
  BY DEF UsesFreed, DaemonInv, ListsOK
<1>3. RestOK' /\ StackOK' /\ Steady
  BY DEF UsesFreed, DaemonInv, RestOK, StackOK, Steady, environment
<1>4. Kept
  BY UnmovedStack DEF UsesFreed
<1> QED
  BY <1>1, <1>2, <1>3, <1>4 DEF StepOK, DaemonInv

LEMMA GoToGood ==
    ASSUME DaemonInv, NEW step, At(step), NEW next \in Steps, next # "after",
           next = "configure" => Top.op \notin Toggles, GoTo(next)
    PROVE  stack' \in Seq(GoodFrames) /\ Kept
<1> DEFINE m == [Top EXCEPT !.at = next]
<1>1. stack # <<>> /\ Top \in GoodFrames /\ Becomes(m)
  BY AtGood DEF GoTo
<1>2. m \in GoodFrames /\ m.pid = Top.pid /\ m.op = Top.op
  BY <1>1, FrameAt
<1> HIDE DEF m
<1> QED
  BY <1>1, <1>2, BecomesGood DEF DaemonInv

LEMMA StoreStep ==
    ASSUME DaemonInv, StoreDisabled
    PROVE  StepOK
<1>1. stack # <<>> /\ process \in {"running", "exiting"} /\ At("store") /\ UNCHANGED Unchecked
  BY AtGood DEF StoreDisabled
<1>2. RestOK' /\ StackOK' /\ Steady /\ Kept /\ UNCHANGED <<cache, lost>>
  <2>1. CASE "sys" \in dirty
    <3>1. PerformAction([Top EXCEPT !.at = "stored"], "saveDisabled")
      BY <2>1 DEF StoreDisabled
    <3> QED
      BY <3>1, <1>1, AskStep DEF Steps, Methods_
  <2>2. CASE "sys" \notin dirty
    <3>1. GoTo("stored") /\ timers' \subseteq AllTimers
      BY <2>2 DEF StoreDisabled, DaemonInv, RestOK
    <3>2. stack' \in Seq(GoodFrames) /\ Kept
      BY <3>1, <1>1, GoToGood DEF Steps
    <3> QED
      BY <3>1, <3>2, <1>1, UncheckedGood
  <2> QED
    BY <2>1, <2>2
<1>3. FilesOK' /\ ListsOK'
  BY <1>2 DEF StoreDisabled, DaemonInv, FilesOK, ListsOK, helperVars
<1> QED
  BY <1>2, <1>3 DEF StepOK, DaemonInv

LEMMA StoredStep ==
    ASSUME DaemonInv, StoredDisabled
    PROVE  StepOK
<1>1. /\ stack # <<>> /\ process \in {"running", "exiting"} /\ At("stored") /\ UNCHANGED Unchecked
      /\ timers' \subseteq AllTimers
  BY AtGood DEF StoredDisabled, DaemonInv, RestOK
<1>2. stack' \in Seq(GoodFrames) /\ Kept
  <2>1. CASE GoTo("configure") /\ Top.op = "reconfigure"
    <3>1. Top.op \notin Toggles
      BY <2>1 DEF Toggles
    <3> QED
      BY <2>1, <3>1, <1>1, GoToGood DEF Steps
  <2>2. CASE Returns
    BY <2>2, <1>1, ReturnsGood DEF DaemonInv
  <2> QED
    BY <2>1, <2>2 DEF StoredDisabled
<1>3. RestOK' /\ StackOK' /\ Steady /\ UNCHANGED <<cache, lost>>
  BY <1>1, <1>2, UncheckedGood
<1>4. FilesOK'
  BY UserSavedGood DEF StoredDisabled
<1>5. ListsOK'
  BY <1>3 DEF StoredDisabled, DaemonInv, ListsOK
<1> QED
  BY <1>2, <1>3, <1>4, <1>5 DEF StepOK, DaemonInv

LEMMA ConfigureStep ==
    ASSUME DaemonInv, Configure
    PROVE  StepOK
<1>1. stack # <<>> /\ process \in {"running", "exiting"} /\ At("configure") /\ Top \in GoodFrames
      /\ Top.at = "configure"
  BY AtGood DEF Configure
<1>2. UNCHANGED <<disk, cfg, helper, fonts, dirty, cache, connections, process, heard, behind,
                  environment>>
  BY DEF Configure
<1>3. modified' \subseteq Dir /\ unconfigured' \subseteq Dir /\ lost' \subseteq Dir
  BY DEF Configure, DaemonInv, ListsOK, FilesOK
<1>4. stack' \in Seq(GoodFrames) /\ Kept /\ timers' \subseteq AllTimers
  <2>1. CASE PerformAction([Top EXCEPT !.at = "after"], "reconfigure")
    <3> DEFINE m == [Top EXCEPT !.at = "after"]
    <3>1. Top.op \notin Toggles
      BY <1>1 DEF GoodFrames
    <3>2. m \in GoodFrames /\ m.pid = Top.pid /\ m.op = Top.op
      BY <3>1, <1>1, FrameAt DEF Steps
    <3>3. PerformAction(m, "reconfigure")
      BY <2>1
    <3> HIDE DEF m
    <3> QED
      BY <3>2, <3>3, <1>1, PerformGood DEF DaemonInv, Methods_
  <2>2. CASE Refresh("reply") /\ timers' = AllTimers
    BY <2>2, <1>1, RefreshStack
  <2> QED
    BY <2>1, <2>2 DEF Configure
<1>5. FilesOK' /\ ListsOK'
  BY <1>2, <1>3 DEF DaemonInv, FilesOK, ListsOK
<1>6. RestOK' /\ StackOK' /\ Steady
  BY <1>1, <1>2, <1>4 DEF DaemonInv, RestOK, StackOK, Steady, environment
<1> QED
  BY <1>4, <1>5, <1>6 DEF StepOK, DaemonInv

LEMMA ConfigureAfterStep ==
    ASSUME DaemonInv, ConfigureAfter
    PROVE  StepOK
<1>1. stack # <<>> /\ process \in {"running", "exiting"} /\ At("after")
  BY AtGood DEF ConfigureAfter
<1>2. stack' \in Seq(GoodFrames) /\ Kept
  BY <1>1, RefreshStack DEF ConfigureAfter
<1>3. FilesOK' /\ ListsOK'
  BY DEF ConfigureAfter, DaemonInv, FilesOK, ListsOK, helperVars, Dir
<1>4. RestOK' /\ StackOK' /\ Steady
  BY <1>1, <1>2 DEF ConfigureAfter, DaemonInv, RestOK, StackOK, Steady, environment
<1> QED
  BY <1>2, <1>3, <1>4 DEF StepOK, DaemonInv

LEMMA ReplyStep ==
    ASSUME DaemonInv, Reply
    PROVE  StepOK
<1>1. stack # <<>> /\ process \in {"running", "exiting"}
  BY AtGood DEF Reply
<1>2. stack' \in Seq(GoodFrames) /\ Kept
  BY <1>1, ReturnsGood DEF Reply, DaemonInv
<1>3. UNCHANGED <<helperVars, fonts, dirty, modified, cache, connections, process, lost, environment>>
  BY DEF Reply, lists
<1>4. timers' \subseteq AllTimers
  BY DEF Reply, DaemonInv, RestOK, AllTimers
<1>5. heard' \subseteq File /\ behind' \in BOOLEAN
  <2>1. All(fonts) \subseteq File /\ heard \subseteq File /\ behind \in BOOLEAN
    BY DEF All, DaemonInv, ListsOK, RestOK, Dir
  <2>2. \/ heard' = heard \cup All(fonts) /\ behind' = FALSE
        \/ UNCHANGED <<heard, behind>>
    BY DEF Reply
  <2> QED
    BY <2>1, <2>2
<1>6. FilesOK' /\ ListsOK'
  BY <1>3, <1>5 DEF DaemonInv, FilesOK, ListsOK, helperVars
<1>7. RestOK' /\ StackOK' /\ Steady
  BY <1>1, <1>2, <1>3, <1>4, <1>5 DEF DaemonInv, RestOK, StackOK, Steady, environment
<1> QED
  BY <1>2, <1>6, <1>7 DEF StepOK, DaemonInv

-----------------------------------------------------------------------------
(* The helper.                                                             *)

LEMMA AnsweredGood ==
    ASSUME DaemonInv, NEW i \in DOMAIN stack, Answered(i)
    PROVE  stack' \in Seq(GoodFrames) /\ Kept
<1> DEFINE n == [stack[i] EXCEPT !.answered = TRUE]
<1>1. stack[i] \in GoodFrames
  BY DEF DaemonInv, StackOK
<1>2. n \in GoodFrames /\ n.pid = stack[i].pid /\ n.op = stack[i].op
  BY <1>1 DEF GoodFrames, Frames
<1>3. stack' = [stack EXCEPT ![i] = n]
  BY DEF Answered
<1> HIDE DEF n
<1>4. stack' \in Seq(GoodFrames) /\ DOMAIN stack' = DOMAIN stack
  BY <1>2, <1>3 DEF DaemonInv, StackOK
<1>5. \A j \in DOMAIN stack : stack'[j] = IF j = i THEN n ELSE stack[j]
  BY <1>3 DEF DaemonInv, StackOK
<1> QED
  BY <1>2, <1>4, <1>5 DEF Kept

LEMMA ServesFiles ==
    ASSUME DaemonInv, NEW i, HelperServes(i)
    PROVE  FilesOK'
<1> DEFINE m == stack[i]
<1>1. m \in GoodFrames /\ m \in Frames /\ m.name \in Names /\ m.dir \in Dir /\ m.files \subseteq File
  <2>1. i \in DOMAIN stack
    BY DEF HelperServes, Request
  <2>2. m \in GoodFrames /\ m \in Frames
    BY <2>1 DEF DaemonInv, StackOK, GoodFrames
  <2> HIDE DEF m
  <2> QED
    BY <2>2 DEF Frames
<1>2. SavedByHelper \subseteq In(Hidden(File), "sys") /\ LoadedByHelper \subseteq In(File, "sys")
      /\ ResavedByHelper \subseteq In(Hidden(File), "sys") /\ "sys" \in Dir /\ "user" \in Dir
  BY SavedGood DEF DaemonInv, Dir
<1>3. FilesOK
  BY DEF DaemonInv
<1> DEFINE to == IF m.dir = "sys" THEN "user" ELSE "sys"
<1>4. CASE HelperInstall(m.name)
  <2>1. FileAt(m.name, "sys", FALSE) \in File
    BY <1>1, <1>2 DEF FileAt, File
  <2> QED
    BY <2>1, <1>2, <1>3, <1>4 DEF FilesOK, HelperInstall, Changed
<1>5. CASE HelperUninstall(m.files)
  BY <1>2, <1>3, <1>5 DEF FilesOK, HelperUninstall, Changed
<1>6. CASE HelperMove(m.files, to)
  <2>1. Moved(m.files, to) \subseteq File
    BY <1>1, <1>2, MovedGood
  <2>2. disk' \subseteq File
    BY <2>1, <1>3, <1>6 DEF FilesOK, HelperMove
  <2>3. unconfigured' \subseteq Dir /\ cfg' = cfg
    BY <1>3, <1>6 DEF FilesOK, HelperMove, Changed
  <2>4. helper' \in [up : BOOLEAN, fonts : SUBSET File, dirty : BOOLEAN, modified : BOOLEAN]
        /\ helper'.fonts = helper.fonts
    BY <1>3, <1>6 DEF FilesOK, HelperMove
  <2> QED
    BY <2>2, <2>3, <2>4, <1>3 DEF FilesOK
<1>7. CASE m.asked = "toggle" /\ HelperToggle(m.files, StyleOf[m.name], m.op = "enable")
  <2> DEFINE on == m.op = "enable"
  <2>0. on \in BOOLEAN
    OBVIOUS
  <2> HIDE DEF on
  <2>1. m.files \subseteq In(File, "sys")
    BY <1>1, <1>7 DEF GoodFrames
  <2>2. Flipped(m.files, on) \subseteq In(File, "sys") /\ Flipped(m.files, on) \subseteq File
    BY <2>0, <2>1, <1>2, FlippedGood DEF In
  <2>3. HelperToggle(m.files, StyleOf[m.name], on)
    BY <1>7 DEF on
  <2>4. disk' \subseteq File /\ unconfigured' \subseteq Dir /\ cfg' = cfg
    BY <2>2, <2>3, <1>2, <1>3 DEF HelperToggle, FilesOK, Changed
  <2> DEFINE F == (helper.fonts \ OfStyle(helper.fonts, StyleOf[m.name]))
                  \cup (IF on THEN {} ELSE Flipped(m.files, on))
             M == helper.modified \/ ToFlip(m.files, on) # {}
  <2>5. F \subseteq In(File, "sys") /\ F \in SUBSET File /\ M \in BOOLEAN
    BY <2>2, <1>3 DEF FilesOK, In
  <2>6. helper' = [helper EXCEPT !.fonts = F, !.dirty = TRUE, !.modified = M]
    BY <2>3 DEF HelperToggle
  <2> HIDE DEF F, M
  <2>7. helper' \in [up : BOOLEAN, fonts : SUBSET File, dirty : BOOLEAN, modified : BOOLEAN]
        /\ helper'.fonts = F
    BY <2>5, <2>6, <1>3 DEF FilesOK
  <2> QED
    BY <2>4, <2>5, <2>7, <1>3 DEF FilesOK
<1>8. CASE HelperUndoes
  BY <1>3, <1>8 DEF FilesOK, HelperUndoes
<1>9. CASE \E f \in In(disk, "sys") : HelperRemoveFile(f)
  <2>1. PICK f : HelperRemoveFile(f)
    BY <1>9
  <2> QED
    BY <2>1, <1>2, <1>3 DEF FilesOK, HelperRemoveFile, Changed
<1>10. CASE HelperSaveDisabled \/ HelperReconfigure
  <2>1. cfg' = [cfg EXCEPT !["sys"] = ResavedByHelper] /\ disk' = disk /\ unconfigured' \subseteq Dir
    BY <1>3, <1>10 DEF HelperSaveDisabled, HelperReconfigure, FilesOK
  <2>2. cfg' \in [Dir -> SUBSET File] /\ \A d \in Dir : cfg'[d] \subseteq In(Hidden(File), d)
    BY <2>1, <1>2, <1>3, CfgSet
  <2>3. \/ helper' = [helper EXCEPT !.fonts = LoadedByHelper, !.dirty = FALSE]
        \/ helper' = [helper EXCEPT !.fonts = LoadedByHelper, !.dirty = FALSE, !.modified = FALSE]
    BY <1>10 DEF HelperSaveDisabled, HelperReconfigure
  <2>4. LoadedByHelper \in SUBSET File
    BY <1>2 DEF In
  <2>5. helper' \in [up : BOOLEAN, fonts : SUBSET File, dirty : BOOLEAN, modified : BOOLEAN]
        /\ helper'.fonts = LoadedByHelper
    BY <2>3, <2>4, <1>3 DEF FilesOK
  <2> QED
    BY <2>1, <2>2, <2>5, <1>2, <1>3 DEF FilesOK
<1> QED
  <2>1. \/ HelperInstall(m.name) \/ HelperUninstall(m.files) \/ HelperMove(m.files, to)
        \/ m.asked = "toggle" /\ HelperToggle(m.files, StyleOf[m.name], m.op = "enable")
        \/ HelperUndoes \/ (\E f \in In(disk, "sys") : HelperRemoveFile(f))
        \/ HelperSaveDisabled \/ HelperReconfigure
    BY DEF HelperServes, HelperMoveFails, HelperToggleFails
  <2> QED
    BY <2>1, <1>4, <1>5, <1>6, <1>7, <1>8, <1>9, <1>10

\* A step of the helper, or of its life, that answers or not.
LEMMA HelperSide ==
    ASSUME DaemonInv, FilesOK', lost' \subseteq Dir, UNCHANGED daemonVars,
           stack' \in Seq(GoodFrames), stack = <<>> => stack' = <<>>, Kept
    PROVE  StepOK
<1>1. ListsOK'
  BY DEF DaemonInv, ListsOK, daemonVars
<1>2. RestOK' /\ StackOK' /\ Steady
  BY DEF DaemonInv, RestOK, StackOK, Steady, daemonVars, environment
<1> QED
  BY <1>1, <1>2 DEF StepOK, DaemonInv

LEMMA HelperStep ==
    ASSUME DaemonInv, HelperSteps
    PROVE  StepOK
<1>1. ASSUME NEW i \in DOMAIN stack, HelperServes(i) PROVE StepOK
  <2>1. FilesOK'
    BY <1>1, ServesFiles
  <2>2. stack' \in Seq(GoodFrames) /\ Kept
    BY <1>1, AnsweredGood DEF HelperServes
  <2>3. lost' \subseteq Dir
    BY <1>1 DEF HelperServes, DaemonInv, ListsOK
  <2>4. stack # <<>>
    BY <1>1
  <2> QED
    BY <2>1, <2>2, <2>3, <2>4, <1>1, HelperSide DEF HelperServes
<1>2. ASSUME NEW i \in DOMAIN stack, HelperRefuses(i) PROVE StepOK
  <2>1. stack' \in Seq(GoodFrames) /\ Kept
    BY <1>2, AnsweredGood DEF HelperRefuses
  <2>2. FilesOK' /\ lost' \subseteq Dir
    BY <1>2 DEF HelperRefuses, DaemonInv, FilesOK, ListsOK, helperVars
  <2>3. stack # <<>>
    BY <1>2
  <2> QED
    BY <2>1, <2>2, <2>3, <1>2, HelperSide DEF HelperRefuses
<1>3. SavedByHelper \subseteq In(Hidden(File), "sys") /\ LoadedByHelper \subseteq In(File, "sys")
      /\ ResavedByHelper \subseteq In(Hidden(File), "sys") /\ "sys" \in Dir /\ FilesOK
  BY SavedGood DEF DaemonInv, Dir
<1>4. CASE StartHelper
  <2>1. cfg' = [cfg EXCEPT !["sys"] = ResavedByHelper] /\ UNCHANGED <<disk, unconfigured>>
        /\ helper' = [NoHelper EXCEPT !.up = TRUE, !.fonts = LoadedByHelper]
    BY <1>4 DEF StartHelper, HelperStarts
  <2>2. cfg' \in [Dir -> SUBSET File] /\ \A d \in Dir : cfg'[d] \subseteq In(Hidden(File), d)
    BY <2>1, <1>3, CfgSet
  <2>3. LoadedByHelper \in SUBSET File
    BY <1>3 DEF In
  <2>4. helper' \in [up : BOOLEAN, fonts : SUBSET File, dirty : BOOLEAN, modified : BOOLEAN]
        /\ helper'.fonts = LoadedByHelper
    BY <2>1, <2>3 DEF NoHelper
  <2>5. FilesOK'
    BY <2>1, <2>2, <2>4, <1>3 DEF FilesOK
  <2> QED
    BY <2>5, <1>4, HelperSide, UnmovedStack DEF StartHelper, DaemonInv, ListsOK, StackOK
<1>5. CASE ExitHelper
  <2>1. cfg' = [cfg EXCEPT !["sys"] = SavedByHelper] /\ UNCHANGED <<disk, unconfigured>>
        /\ helper' = NoHelper
    BY <1>5 DEF ExitHelper, HelperExits
  <2>2. cfg' \in [Dir -> SUBSET File] /\ \A d \in Dir : cfg'[d] \subseteq In(Hidden(File), d)
    BY <2>1, <1>3, CfgSet
  <2>3. FilesOK'
    BY <2>1, <2>2, <1>3 DEF FilesOK, NoHelper
  <2>4. lost' \subseteq Dir
    BY <1>5, <1>3 DEF ExitHelper, DaemonInv, ListsOK
  <2> QED
    BY <2>3, <2>4, <1>5, HelperSide, UnmovedStack DEF ExitHelper, DaemonInv, StackOK
<1> QED
  BY <1>1, <1>2, <1>4, <1>5 DEF HelperSteps

-----------------------------------------------------------------------------
(* Calls.                                                                  *)

LEMMA NewMethodGood ==
    ASSUME NEW op \in FontMethods \cup {"list", "reconfigure", "saveDisabled", "fontListTimeout"},
           NEW p \in Clients, NEW n \in Names, NEW d \in Dir, NEW k \in BOOLEAN,
           NEW step \in Steps \ {"after", "configure"}, NEW next \in Steps \ {"after", "configure"}
    PROVE  /\ NewMethod(op, p, n, d, k, step, next) \in GoodFrames
           /\ NewMethod(op, p, n, d, k, step, next).pid = p
           /\ NewMethod(op, p, n, d, k, step, next).op = op
<1> DEFINE m == NewMethod(op, p, n, d, k, step, next)
           s == "sys" \in modified
<1>1. Empty \in [Dir -> SUBSET File]
  BY DEF Empty
<1>2. s \in BOOLEAN
  OBVIOUS
<1> HIDE DEF s
<1>3. m = [op |-> op, pid |-> p, name |-> n, dir |-> d, check |-> k, at |-> step, then |-> next,
           asked |-> "", answered |-> FALSE, old |-> Empty, files |-> {}, valid |-> FALSE,
           sysModified |-> s]
  BY DEF NewMethod, s
<1> HIDE DEF m
<1>4. m \in Frames
  BY <1>1, <1>2, <1>3 DEF Frames
<1>5. m.files = {} /\ m.asked = "" /\ m.at = step /\ m.then = next /\ m.pid = p /\ m.op = op
  BY <1>3
<1>6. m \in GoodFrames
  BY <1>4, <1>5 DEF GoodFrames
<1> QED
  BY <1>5, <1>6 DEF m

\* The methods that are not about a font.
LEMMA PlainMethodGood ==
    ASSUME NEW op \in {"list", "reconfigure", "saveDisabled", "fontListTimeout"},
           NEW p \in Clients, NEW k \in BOOLEAN, NEW step \in {"update", "store"}
    PROVE  /\ NewMethod(op, p, NoName, "user", k, step, "reply") \in GoodFrames
           /\ NewMethod(op, p, NoName, "user", k, step, "reply").pid = p
           /\ NewMethod(op, p, NoName, "user", k, step, "reply").op = op
<1>1. NoName \in Names
  BY FontDaemonAssumption DEF NoName
<1>2. "user" \in Dir
  BY DEF Dir
<1>3. step \in Steps \ {"after", "configure"}
  BY DEF Steps
<1> DEFINE next == "reply"
<1>4. next \in Steps \ {"after", "configure"}
  BY DEF Steps
<1>5. op \in FontMethods \cup {"list", "reconfigure", "saveDisabled", "fontListTimeout"}
  OBVIOUS
<1> HIDE DEF next
<1>6. /\ NewMethod(op, p, NoName, "user", k, step, next) \in GoodFrames
      /\ NewMethod(op, p, NoName, "user", k, step, next).pid = p
      /\ NewMethod(op, p, NoName, "user", k, step, next).op = op
  BY <1>1, <1>2, <1>3, <1>4, <1>5, NewMethodGood
<1> QED
  BY <1>6 DEF next

\* A method on top of what there was.
Pushed(m) ==
    /\ stack' \in Seq(GoodFrames)
    /\ \A j \in DOMAIN stack' :
          \/ stack'[j].pid = m.pid /\ stack'[j].op = m.op
          \/ \E i \in DOMAIN stack : stack'[j].pid = stack[i].pid /\ stack'[j].op = stack[i].op

LEMMA PushGood ==
    ASSUME StackOK, NEW m \in GoodFrames, stack' = <<m>> \o stack
    PROVE  Pushed(m)
<1>1. stack \in Seq(GoodFrames) /\ Len(stack) \in Nat
  BY DEF StackOK
<1>2. stack' \in Seq(GoodFrames) /\ Len(stack') = Len(stack) + 1
  BY <1>1
<1>3. stack'[1] = m /\ \A j \in 2 .. Len(stack) + 1 : stack'[j] = stack[j - 1]
  BY <1>1, <1>2
<1>4. ASSUME NEW j \in DOMAIN stack'
      PROVE  stack'[j] = m \/ \E i \in DOMAIN stack : stack'[j] = stack[i]
  <2>1. j \in 1 .. Len(stack) + 1
    BY <1>1, <1>2
  <2>2. CASE j = 1
    BY <2>2, <1>3
  <2>3. CASE j # 1
    <3>1. j - 1 \in DOMAIN stack /\ j \in 2 .. Len(stack) + 1
      BY <2>1, <2>3, <1>1
    <3> QED
      BY <3>1, <1>3
  <2> QED
    BY <2>2, <2>3
<1> QED
  BY <1>2, <1>4 DEF Pushed

\* A call: its frame, and its client registered or not.
LEMMA CallGood ==
    ASSUME DaemonInv, NEW m \in GoodFrames, m.pid \in Clients, Dispatched(m),
           connections \subseteq connections', connections' \subseteq connections \cup {m.pid},
           heard' \subseteq File, behind' \in BOOLEAN
    PROVE  DaemonInv' /\ Pushed(m) /\ Steady /\ alive' = alive
<1>1. stack' = <<m>> \o stack /\ process = "running" /\ Spend("calls")
      /\ UNCHANGED <<helperVars, lists, timers, process, lost, alive>>
  BY DEF Dispatched, LoopRuns
<1>2. Pushed(m)
  BY <1>1, PushGood DEF DaemonInv
<1>3. FilesOK' /\ ListsOK'
  BY <1>1 DEF DaemonInv, FilesOK, ListsOK, helperVars, lists
<1>4. used' \in [{"calls", "outside", "kills"} -> Nat]
  BY <1>1 DEF Spend, DaemonInv, RestOK
<1>5. RestOK' /\ StackOK' /\ Steady
  BY <1>1, <1>2, <1>4 DEF DaemonInv, RestOK, StackOK, Steady, Pushed
<1> QED
  BY <1>1, <1>2, <1>3, <1>5 DEF DaemonInv

LEMMA CallStep ==
    ASSUME DaemonInv, Calls
    PROVE  /\ DaemonInv' /\ Steady /\ alive' = alive
           /\ \E m \in GoodFrames : Pushed(m) /\ (m.pid \in connections' \/ m.op \in Unregistered)
<1>1. heard \subseteq File /\ behind \in BOOLEAN
  BY DEF DaemonInv, ListsOK, RestOK
<1>2. NoName \in Names
  BY FontDaemonAssumption DEF NoName
<1>3. PICK p \in Clients :
        \/ \E op \in FontMethods, n \in Names, d \in CallDirs, k \in BOOLEAN :
                CallFontMethod(op, p, n, d, k)
        \/ CallList(p)
        \/ \E force \in BOOLEAN : CallReconfigure(p, force)
        \/ CallSaveDisabled(p)
  BY DEF Calls
<1> DEFINE Goal == /\ DaemonInv' /\ Steady /\ alive' = alive
                   /\ \E m \in GoodFrames : Pushed(m) /\ (m.pid \in connections' \/ m.op \in Unregistered)
<1>0. ASSUME NEW m \in GoodFrames, m.pid = p, Dispatched(m), connections' = connections \cup {p},
             heard' \subseteq File, behind' \in BOOLEAN
      PROVE  Goal
  <2>1. DaemonInv' /\ Pushed(m) /\ Steady /\ alive' = alive
    BY <1>0, CallGood
  <2> QED
    BY <2>1, <1>0
<1>4. ASSUME NEW m \in GoodFrames, m.pid = p, Dispatched(m), connections' = connections,
             m.op \in Unregistered, heard' \subseteq File, behind' \in BOOLEAN
      PROVE  Goal
  <2>1. DaemonInv' /\ Pushed(m) /\ Steady /\ alive' = alive
    BY <1>4, CallGood
  <2> QED
    BY <2>1, <1>4
<1> HIDE DEF Goal
<1>5. ASSUME NEW op \in FontMethods, NEW n \in Names, NEW d \in CallDirs, NEW k \in BOOLEAN,
             CallFontMethod(op, p, n, d, k)
      PROVE  Goal
  <2>1. d \in Dir
    BY FontDaemonAssumption
  <2>2. PICK step \in {"find", "update", "body"}, next \in {"find", "body"} :
          Dispatched(NewMethod(op, p, n, d, k, step, next))
    BY <1>5 DEF CallFontMethod
  <2> DEFINE m == NewMethod(op, p, n, d, k, step, next)
  <2>3. m \in GoodFrames /\ m.pid = p /\ m.op = op
    BY <2>1, NewMethodGood DEF Steps
  <2> HIDE DEF m
  <2>4. heard' \subseteq File /\ behind' \in BOOLEAN
    BY <1>1, <1>5 DEF CallFontMethod
  <2>5. Dispatched(m)
    BY <2>2 DEF m
  <2>6. CASE op = "uninstallByName"
    <3>1. connections' = connections /\ m.op \in Unregistered
      BY <2>3, <2>6, <1>5 DEF CallFontMethod, Registered, Unregistered
    <3> QED
      BY <3>1, <2>3, <2>4, <2>5, <1>4
  <2>7. CASE op # "uninstallByName"
    <3>1. connections' = connections \cup {p}
      BY <2>7, <1>5 DEF CallFontMethod, Registered
    <3> QED
      BY <3>1, <2>3, <2>4, <2>5, <1>0
  <2> QED
    BY <2>6, <2>7
<1>6. ASSUME CallList(p) PROVE Goal
  <2> DEFINE m == NewMethod("list", p, NoName, "user", FALSE, "update", "reply")
  <2>1. m \in GoodFrames /\ m.pid = p
    <3> DEFINE op == "list"
               k == FALSE
               step == "update"
    <3>1. op \in {"list", "reconfigure", "saveDisabled", "fontListTimeout"} /\ k \in BOOLEAN
          /\ step \in {"update", "store"}
      OBVIOUS
    <3> HIDE DEF op, k, step
    <3>2. /\ NewMethod(op, p, NoName, "user", k, step, "reply") \in GoodFrames
          /\ NewMethod(op, p, NoName, "user", k, step, "reply").pid = p
      BY <3>1, PlainMethodGood
    <3> QED
      BY <3>2 DEF op, k, step
  <2>2. Dispatched(m) /\ connections' = connections \cup {p} /\ heard' \subseteq File /\ behind' \in BOOLEAN
    BY <1>1, <1>6 DEF CallList
  <2> HIDE DEF m
  <2> QED
    BY <2>1, <2>2, <1>0
<1>7. ASSUME NEW force \in BOOLEAN, CallReconfigure(p, force) PROVE Goal
  <2> DEFINE m == NewMethod("reconfigure", p, NoName, "user", force, "store", "reply")
  <2>1. m \in GoodFrames /\ m.pid = p /\ m.op \in Unregistered
    BY PlainMethodGood DEF Unregistered
  <2>2. Dispatched(m) /\ connections' = connections /\ heard' \subseteq File /\ behind' \in BOOLEAN
    BY <1>1, <1>7 DEF CallReconfigure
  <2> HIDE DEF m
  <2> QED
    BY <2>1, <2>2, <1>4
<1>8. ASSUME CallSaveDisabled(p) PROVE Goal
  <2> DEFINE m == NewMethod("saveDisabled", p, NoName, "user", FALSE, "store", "reply")
  <2>1. m \in GoodFrames /\ m.pid = p /\ m.op \in Unregistered
    BY PlainMethodGood DEF Unregistered
  <2>2. Dispatched(m) /\ connections' = connections /\ heard' \subseteq File /\ behind' \in BOOLEAN
    BY <1>1, <1>8 DEF CallSaveDisabled
  <2> HIDE DEF m
  <2> QED
    BY <2>1, <2>2, <1>4
<1> QED
  BY <1>3, <1>5, <1>6, <1>7, <1>8 DEF Goal

-----------------------------------------------------------------------------
(* Timers, life and death.                                                 *)

LEMMA ConnectionsStep ==
    ASSUME DaemonInv, ConnectionsTimeout
    PROVE  DaemonInv'
<1>1. FilesOK'
  BY UserSavedGood DEF ConnectionsTimeout
<1>2. ListsOK'
  BY DEF ConnectionsTimeout, DaemonInv, ListsOK
<1>3. RestOK' /\ StackOK'
  BY DEF ConnectionsTimeout, CheckConnections, LoopRuns, DaemonInv, RestOK, StackOK, environment
<1> QED
  BY <1>1, <1>2, <1>3 DEF DaemonInv

LEMMA FontListStep ==
    ASSUME DaemonInv, FontListTimeout
    PROVE  /\ DaemonInv' /\ Steady /\ alive' = alive
           /\ \E m \in GoodFrames : Pushed(m) /\ m.op \in Unregistered
<1> DEFINE m == NewMethod("fontListTimeout", Watcher, NoName, "user", FALSE, "update", "reply")
<1>1. Watcher \in Clients /\ NoName \in Names
  BY FontDaemonAssumption DEF NoName
<1>2. m \in GoodFrames /\ m.op \in Unregistered
  BY <1>1, PlainMethodGood DEF Unregistered
<1>3. stack' = <<m>> \o stack /\ process = "running"
      /\ UNCHANGED <<helperVars, lists, connections, timers, process, heard, behind, lost, environment>>
  BY DEF FontListTimeout, LoopRuns
<1> HIDE DEF m
<1>4. Pushed(m)
  BY <1>2, <1>3, PushGood DEF DaemonInv
<1>5. FilesOK' /\ ListsOK'
  BY <1>3 DEF DaemonInv, FilesOK, ListsOK, helperVars, lists
<1>6. RestOK' /\ StackOK' /\ Steady /\ alive' = alive
  BY <1>3, <1>4 DEF DaemonInv, RestOK, StackOK, Steady, Pushed, environment
<1> QED
  BY <1>2, <1>4, <1>5, <1>6 DEF DaemonInv

LEMMA EndedGood ==
    ASSUME DaemonInv, Ended, FilesOK', used' \in [{"calls", "outside", "kills"} -> Nat]
    PROVE  DaemonInv' /\ process' = "gone"
<1>1. Empty \in [Dir -> SUBSET File] /\ \A d \in Dir : Empty[d] = {}
  BY DEF Empty
<1>2. fonts' = Empty /\ dirty' = {} /\ modified' = {} /\ cache' = {} /\ lost' = lost \cup unconfigured
      /\ heard' = heard
  BY DEF Ended
<1>3. ListsOK'
  BY <1>1, <1>2 DEF DaemonInv, ListsOK, FilesOK
<1>4. RestOK'
  BY DEF Ended, DaemonInv, RestOK
<1>5. stack' \in Seq(GoodFrames) /\ stack' = <<>> /\ process' = "gone"
  BY DEF Ended
<1> QED
  BY <1>3, <1>4, <1>5 DEF DaemonInv, StackOK

LEMMA EndStep ==
    ASSUME DaemonInv, Exit \/ Killed
    PROVE  DaemonInv' /\ process' = "gone"
<1>1. Ended
  BY DEF Exit, Killed
<1>2. CASE Exit
  <2>1. FilesOK'
    BY <1>1, <1>2, UserSavedGood DEF Exit, Ended
  <2> QED
    BY <2>1, <1>1, <1>2, EndedGood DEF Exit, DaemonInv, RestOK
<1>3. CASE Killed
  <2>1. FilesOK'
    BY <1>1, <1>3 DEF Killed, Ended, DaemonInv, FilesOK
  <2>2. used' \in [{"calls", "outside", "kills"} -> Nat]
    BY <1>3 DEF Killed, Spend, DaemonInv, RestOK
  <2> QED
    BY <2>1, <2>2, <1>1, EndedGood
<1> QED
  BY <1>2, <1>3

LEMMA StartStep ==
    ASSUME DaemonInv, Start
    PROVE  DaemonInv' /\ stack' = <<>>
<1>1. stack = <<>> /\ stack' = stack
  BY DEF Start, DaemonInv, StackOK
<1>2. FilesOK'
  <2> DEFINE S == cfg["user"] \cap disk
  <2>1. "user" \in Dir /\ S \subseteq In(Hidden(File), "user")
    BY DEF Dir, DaemonInv, FilesOK
  <2>2. cfg' = [cfg EXCEPT !["user"] = S] /\ UNCHANGED <<disk, helper, unconfigured>>
    BY DEF Start
  <2> HIDE DEF S
  <2>3. cfg' \in [Dir -> SUBSET File] /\ \A d \in Dir : cfg'[d] \subseteq In(Hidden(File), d)
    BY <2>1, <2>2, CfgSet DEF DaemonInv
  <2> QED
    BY <2>2, <2>3 DEF DaemonInv, FilesOK
<1>3. fonts' \in [Dir -> SUBSET File] /\ \A d \in Dir : fonts'[d] \subseteq In(File, d)
  <2>1. \A d \in Dir : In(Visible(disk), d) \cup (cfg[d] \cap disk) \subseteq In(File, d)
    BY DEF DaemonInv, FilesOK, In, Visible, Hidden
  <2>2. \A d \in Dir : In(File, d) \subseteq File
    BY DEF In
  <2>3. fonts' = [d \in Dir |-> In(Visible(disk), d) \cup (cfg[d] \cap disk)]
    BY DEF Start
  <2> QED
    BY <2>1, <2>2, <2>3
<1>4. ListsOK'
  BY <1>3 DEF Start, DaemonInv, ListsOK, FilesOK, Visible
<1>5. RestOK' /\ StackOK'
  BY <1>1 DEF Start, DaemonInv, RestOK, StackOK, environment
<1> QED
  BY <1>1, <1>2, <1>4, <1>5 DEF DaemonInv

LEMMA OutsideStep ==
    ASSUME DaemonInv, (\E p \in Clients : ClientDies(p)) \/ (\E f \in File : OutsideChange(f))
    PROVE  StepOK
<1>1. CASE \E p \in Clients : ClientDies(p)
  <2>1. PICK p \in Clients : ClientDies(p)
    BY <1>1
  <2>2. FilesOK' /\ ListsOK'
    BY <2>1 DEF ClientDies, DaemonInv, FilesOK, ListsOK, helperVars, lists
  <2>3. RestOK' /\ StackOK' /\ Steady
    BY <2>1 DEF ClientDies, DaemonInv, RestOK, StackOK, Steady
  <2> QED
    BY <2>1, <2>2, <2>3, UnmovedStack DEF ClientDies, StepOK, DaemonInv
<1>2. CASE \E f \in File : OutsideChange(f)
  <2>1. PICK f \in File : OutsideChange(f)
    BY <1>2
  <2>2. FilesOK'
    BY <2>1 DEF OutsideChange, DaemonInv, FilesOK
  <2>3. ListsOK'
    BY <2>1 DEF OutsideChange, DaemonInv, ListsOK, lists
  <2>4. used' \in [{"calls", "outside", "kills"} -> Nat]
    BY <2>1 DEF OutsideChange, Spend, DaemonInv, RestOK
  <2>5. RestOK' /\ StackOK' /\ Steady
    BY <2>1, <2>4 DEF OutsideChange, DaemonInv, RestOK, StackOK, Steady
  <2> QED
    BY <2>1, <2>2, <2>3, <2>5, UnmovedStack DEF OutsideChange, StepOK, DaemonInv
<1> QED
  BY <1>1, <1>2

LEMMA UnchangedStep ==
    ASSUME DaemonInv, UNCHANGED vars
    PROVE  StepOK
<1>1. FilesOK' /\ ListsOK'
  BY DEF DaemonInv, FilesOK, ListsOK, vars, helperVars, lists
<1>2. RestOK' /\ StackOK' /\ Steady
  BY DEF DaemonInv, RestOK, StackOK, Steady, vars, environment
<1> QED
  BY <1>1, <1>2, UnmovedStack DEF StepOK, DaemonInv, vars

LEMMA MethodStep ==
    ASSUME DaemonInv, MethodSteps
    PROVE  StepOK \/ FindFont
BY UpdateStep, RebuildStep, InstallStep, InstallAfterStep, UninstallUserStep, UninstallSystemStep,
   UninstallAfterStep, MoveStep, MoveAfterStep, ToggleUserStep, ToggleSystemStep, ToggleAfterStep,
   RemoveFileStep, RemoveFileAfterStep, UsesFreedStep, StoreStep, StoredStep, ConfigureStep,
   ConfigureAfterStep, ReplyStep
   DEF MethodSteps

-----------------------------------------------------------------------------
(* The theorems.                                                           *)

LEMMA InvInit == Init => DaemonInv
<1> SUFFICES ASSUME NEW files \in Initial, InitWith(files) PROVE DaemonInv
  BY DEF Init
<1>1. files \subseteq File /\ Watcher \in Clients
  BY FontDaemonAssumption
<1>2. FilesOK
  <2>1. \A d \in Dir : In(Hidden(files), d) \subseteq In(Hidden(File), d) /\ In(Hidden(files), d) \subseteq File
    BY <1>1 DEF In, Hidden
  <2>2. cfg = [d \in Dir |-> In(Hidden(files), d)]
    BY DEF InitWith
  <2>3. cfg \in [Dir -> SUBSET File] /\ \A d \in Dir : cfg[d] \subseteq In(Hidden(File), d)
    BY <2>1, <2>2
  <2> QED
    BY <2>3, <1>1 DEF InitWith, FilesOK, NoHelper
<1>3. ListsOK
  <2>1. \A d \in Dir : In(files, d) \subseteq In(File, d) /\ In(files, d) \subseteq File
    BY <1>1 DEF In
  <2>2. fonts = [d \in Dir |-> In(files, d)]
    BY DEF InitWith
  <2>3. fonts \in [Dir -> SUBSET File] /\ \A d \in Dir : fonts[d] \subseteq In(File, d)
    BY <2>1, <2>2
  <2> QED
    BY <2>3, <1>1 DEF InitWith, ListsOK, Visible
<1>4. used \in [{"calls", "outside", "kills"} -> Nat]
  BY DEF InitWith
<1>5. RestOK
  <2>1. behind \in BOOLEAN
    BY DEF InitWith
  <2> QED
    BY <2>1, <1>1, <1>4 DEF InitWith, RestOK
<1>6. StackOK
  BY DEF InitWith, StackOK
<1> QED
  BY <1>2, <1>3, <1>5, <1>6 DEF DaemonInv

LEMMA InvNext == DaemonInv /\ [Next]_vars => DaemonInv'
<1> SUFFICES ASSUME DaemonInv, [Next]_vars PROVE DaemonInv'
  OBVIOUS
<1>1. CASE Calls
  BY <1>1, CallStep
<1>2. CASE MethodSteps
  BY <1>2, MethodStep, FindStep DEF StepOK
<1>3. CASE HelperSteps
  BY <1>3, HelperStep DEF StepOK
<1>4. CASE Environment
  BY <1>4, ConnectionsStep, FontListStep, EndStep, StartStep, OutsideStep DEF Environment, StepOK
<1>5. CASE UNCHANGED vars
  BY <1>5, UnchangedStep DEF StepOK
<1> QED
  BY <1>1, <1>2, <1>3, <1>4, <1>5 DEF Next

\* The daemon's lists have the files of their folder, disabledfonts.xml hidden ones, and
\* every method on the stack is one the daemon has, whatever is nested in what.
THEOREM DaemonTypeCorrect == Spec => []TypeOK
<1>1. Spec => []DaemonInv
  BY InvInit, InvNext, PTL DEF Spec
<1> QED
  BY <1>1, InvTypes, PTL

\* A client that waits for a method that registers it is in itsConnections, however
\* often the timer has thrown out those that died.
RegisteredInv ==
    process = "running" =>
        \A i \in DOMAIN stack :
            stack[i].pid \in alive => stack[i].pid \in connections \/ stack[i].op \in Unregistered

LEMMA KeptRegistered ==
    ASSUME RegisteredInv, Kept, Steady
    PROVE  RegisteredInv'
BY DEF RegisteredInv, Kept, Steady

LEMMA RegisteredNext ==
    ASSUME DaemonInv, RegisteredInv, [Next]_vars
    PROVE  RegisteredInv'
<1>0. ASSUME NEW m \in GoodFrames, Pushed(m), Steady, m.pid \in connections' \/ m.op \in Unregistered
      PROVE  RegisteredInv'
  BY <1>0 DEF RegisteredInv, Pushed, Steady
<1>1. CASE Calls
  BY <1>0, <1>1, CallStep
<1>2. CASE MethodSteps
  <2>1. CASE StepOK
    BY <2>1, KeptRegistered DEF StepOK
  <2>2. CASE FindFont
    <3>1. CASE Kept
      BY <3>1, <2>2, FindStep, KeptRegistered
    <3>2. CASE ~Kept
      <4>1. Steady /\ connections' = connections \cup {Top.pid}
            /\ \A j \in DOMAIN stack' :
                  \/ stack'[j].pid = Top.pid
                  \/ j \in DOMAIN stack /\ stack'[j].pid = stack[j].pid /\ stack'[j].op = stack[j].op
        BY <3>2, <2>2, FindStep
      <4> QED
        BY <4>1 DEF RegisteredInv, Steady
    <3> QED
      BY <3>1, <3>2
  <2> QED
    BY <2>1, <2>2, <1>2, MethodStep
<1>3. CASE HelperSteps
  BY <1>3, HelperStep, KeptRegistered DEF StepOK
<1>4. CASE ConnectionsTimeout
  BY <1>4 DEF RegisteredInv, ConnectionsTimeout, CheckConnections, LoopRuns, environment
<1>5. CASE FontListTimeout
  BY <1>0, <1>5, FontListStep
<1>6. CASE Exit \/ Killed
  BY <1>6, EndStep DEF RegisteredInv
<1>7. CASE Start
  BY <1>7, StartStep DEF RegisteredInv
<1>8. CASE (\E p \in Clients : ClientDies(p)) \/ (\E f \in File : OutsideChange(f))
  BY <1>8, OutsideStep, KeptRegistered DEF StepOK
<1>9. CASE UNCHANGED vars
  BY <1>9, UnchangedStep, KeptRegistered DEF StepOK
<1> QED
  BY <1>1, <1>2, <1>3, <1>4, <1>5, <1>6, <1>7, <1>8, <1>9 DEF Next, Environment

\* Only the timer makes the daemon quit, and only when nobody is registered.
LEMMA QuitStep ==
    ASSUME DaemonInv, RegisteredInv, [Next]_vars, process = "running", process' = "exiting"
    PROVE  \A i \in DOMAIN stack : stack[i].pid \in alive => stack[i].op \in Unregistered
<1>1. ConnectionsTimeout
  <2>1. ~MethodSteps
    BY DEF MethodSteps, UpdateFontList, RebuildLists, FindFont, Install, InstallAfter, UninstallUser,
         UninstallSystem, UninstallAfter, Move, MoveAfter, ToggleUser, ToggleSystem, ToggleAfter,
         RemoveFile, RemoveFileAfter, UsesFreed, StoreDisabled, StoredDisabled, Configure,
         ConfigureAfter, Reply, Unchecked
  <2>2. ~Calls
    BY DEF Calls, CallFontMethod, CallList, CallReconfigure, CallSaveDisabled, Dispatched
  <2>3. ~HelperSteps
    BY DEF HelperSteps, HelperServes, HelperRefuses, StartHelper, ExitHelper, daemonVars
  <2>4. ~FontListTimeout /\ ~Exit /\ ~Killed /\ ~Start
    BY DEF FontListTimeout, Exit, Killed, Ended, Start
  <2>5. ~(\E p \in Clients : ClientDies(p)) /\ ~(\E f \in File : OutsideChange(f))
    BY DEF ClientDies, OutsideChange
  <2> QED
    BY <2>1, <2>2, <2>3, <2>4, <2>5 DEF Next, Environment, vars
<1>2. connections \cap alive = {}
  BY <1>1 DEF ConnectionsTimeout, CheckConnections
<1> QED
  BY <1>2 DEF RegisteredInv

\* The daemon does not decide to quit while a client waits for the answer of a method
\* that registered it, however methods and timers are nested (FontInst.cpp:567).
THEOREM StaysForClients == Spec => NoExitUnderClient
<1>1. Init => RegisteredInv
  BY DEF Init, InitWith, RegisteredInv
<1>2. Spec => [](DaemonInv /\ RegisteredInv)
  <2>1. DaemonInv /\ RegisteredInv /\ [Next]_vars => (DaemonInv /\ RegisteredInv)'
    BY InvNext, RegisteredNext
  <2> QED
    BY <1>1, <2>1, InvInit, PTL DEF Spec
<1>3. DaemonInv /\ RegisteredInv /\ [Next]_vars =>
        [process = "running" /\ process' = "exiting" =>
            \A i \in DOMAIN stack : stack[i].pid \in alive => stack[i].op \in Unregistered]_vars
  BY QuitStep
<1> QED
  BY <1>2, <1>3, PTL DEF Spec, NoExitUnderClient

-----------------------------------------------------------------------------
(* What methods wait for, and what they have seen.                         *)

\* A method waits only where it has asked, and for what it asks there; the methods that
\* change the system folder once the helper has done so are about fonts of it.
FineFor(m, asked) ==
    /\ m.at = "after" => asked # ""
    /\ asked \in {"install", "uninstall", "move", "removeFile"} => m.at = "after" /\ m.op = asked
    /\ asked = "toggle" => m.at = "after" /\ m.op \in Toggles
    /\ asked = "reconfigure" => m.at = "after" /\ m.op = "reconfigure"
    /\ asked = "saveDisabled" => m.at \in {"rebuild", "stored"}
    /\ m.at = "after" /\ m.op \in {"install", "uninstall"} => m.dir = "sys"
    /\ m.at = "configure" => m.op = "reconfigure"
    /\ m.then # "rebuild" /\ (m.then = "body" => m.op \notin Finders)

Fine(m) == FineFor(m, m.asked)

\* Only the method on top may have nothing to wait for.
FineStack == \A i \in DOMAIN stack : Fine(stack[i]) /\ (i # 1 => stack[i].asked # "")

\* What a method that does not wait has seen of the lists is as it was.
Seen(m) ==
    m.asked = "" =>
        /\ m.at = "rebuild" => m.old = fonts
        /\ m.at = "body" /\ m.op \in Finders => m.files = OfStyle(fonts[m.dir], StyleOf[m.name])

WaitInv == FineStack /\ (stack # <<>> => Seen(Top)) /\ (process = "gone" => behind)

\* The same frame, but for its iterators.
SameFrame(a, b) ==
    /\ a.at = b.at /\ a.asked = b.asked /\ a.op = b.op /\ a.dir = b.dir /\ a.then = b.then
    /\ a.files = b.files /\ a.name = b.name /\ a.old = b.old

\* The methods below the one on top, some of whose iterators may have been freed.
Below(rest) ==
    /\ rest \in Seq(GoodFrames) /\ Len(rest) = Len(stack) - 1
    /\ \A j \in 1 .. Len(stack) - 1 : SameFrame(rest[j], stack[j + 1])

LEMMA UnvalidSame ==
    ASSUME NEW m \in GoodFrames
    PROVE  SameFrame([m EXCEPT !.valid = FALSE], m)
BY DEF SameFrame, GoodFrames, Frames

LEMMA TailBelow ==
    ASSUME StackOK, stack # <<>>
    PROVE  Below(Tail(stack))
BY TopGood DEF Below, SameFrame

LEMMA FreedBelow ==
    ASSUME StackOK, stack # <<>>, NEW d, NEW s
    PROVE  Below(Freed(Tail(stack), d, s))
<1> DEFINE t == Tail(stack)
           U(j) == [t[j] EXCEPT !.valid = FALSE]
<1>1. t \in Seq(GoodFrames) /\ Len(t) = Len(stack) - 1 /\ \A j \in 1 .. Len(stack) - 1 : t[j] = stack[j + 1]
  BY TopGood
<1> HIDE DEF t
<1>2. Freed(t, d, s) \in Seq(GoodFrames) /\ Len(Freed(t, d, s)) = Len(t)
  BY <1>1, FreedGood
<1>3. \A j \in 1 .. Len(t) : SameFrame(U(j), t[j]) /\ SameFrame(t[j], t[j])
  BY <1>1, UnvalidSame DEF SameFrame
<1>4. DOMAIN t = 1 .. Len(t)
  BY <1>1
<1>5. Freed(t, d, s) = [j \in 1 .. Len(t) |-> IF t[j].dir = d /\ StyleOf[t[j].name] = s THEN U(j) ELSE t[j]]
  BY <1>4 DEF Freed
<1> HIDE DEF U
<1>6. \A j \in 1 .. Len(t) : SameFrame(Freed(t, d, s)[j], t[j])
  BY <1>3, <1>5
<1>7. \A j \in 1 .. Len(stack) - 1 : SameFrame(Freed(t, d, s)[j], stack[j + 1])
  BY <1>1, <1>6
<1> QED
  BY <1>1, <1>2, <1>7 DEF Below, t

LEMMA AllFreedBelow ==
    ASSUME StackOK, stack # <<>>
    PROVE  Below(AllFreed(Tail(stack)))
<1> DEFINE t == Tail(stack)
           U(j) == [t[j] EXCEPT !.valid = FALSE]
<1>1. t \in Seq(GoodFrames) /\ Len(t) = Len(stack) - 1 /\ \A j \in 1 .. Len(stack) - 1 : t[j] = stack[j + 1]
  BY TopGood
<1> HIDE DEF t
<1>2. AllFreed(t) \in Seq(GoodFrames) /\ Len(AllFreed(t)) = Len(t)
  BY <1>1, AllFreedGood
<1>3. \A j \in 1 .. Len(t) : SameFrame(U(j), t[j])
  BY <1>1, UnvalidSame
<1>4. DOMAIN t = 1 .. Len(t)
  BY <1>1
<1>5. AllFreed(t) = [j \in 1 .. Len(t) |-> U(j)]
  BY <1>4 DEF AllFreed
<1> HIDE DEF U
<1>6. \A j \in 1 .. Len(t) : SameFrame(AllFreed(t)[j], t[j])
  BY <1>3, <1>5
<1>7. \A j \in 1 .. Len(stack) - 1 : SameFrame(AllFreed(t)[j], stack[j + 1])
  BY <1>1, <1>6
<1> QED
  BY <1>1, <1>2, <1>7 DEF Below, t

LEMMA SameFine ==
    ASSUME NEW a, NEW b, SameFrame(a, b), Fine(b)
    PROVE  Fine(a)
BY DEF SameFrame, Fine, FineFor

\* A method goes on: another frame is on top.
LEMMA OnTopFine ==
    ASSUME StackOK, FineStack, stack # <<>>, NEW n \in GoodFrames, Fine(n),
           NEW rest, Below(rest), stack' = <<n>> \o rest
    PROVE  FineStack' /\ stack' # <<>> /\ Top' = n /\ Len(stack') = Len(stack)
<1>1. /\ Len(stack) \in Nat /\ Len(stack) > 0 /\ rest \in Seq(GoodFrames) /\ Len(rest) = Len(stack) - 1
      /\ DOMAIN stack = 1 .. Len(stack)
  BY TopGood DEF StackOK, Below
<1>2. /\ stack' \in Seq(GoodFrames) /\ Len(stack') = Len(stack)
      /\ stack'[1] = n /\ \A j \in 1 .. Len(stack) - 1 : stack'[j + 1] = rest[j]
  BY <1>1
<1>3. \A j \in 1 .. Len(stack) - 1 : Fine(rest[j]) /\ rest[j].asked # ""
  <2> SUFFICES ASSUME NEW j \in 1 .. Len(stack) - 1 PROVE Fine(rest[j]) /\ rest[j].asked # ""
    OBVIOUS
  <2>1. j + 1 \in DOMAIN stack /\ j + 1 # 1
    BY <1>1
  <2>2. SameFrame(rest[j], stack[j + 1])
    BY DEF Below
  <2> QED
    BY <2>1, <2>2, SameFine DEF FineStack, SameFrame
<1>4. ASSUME NEW i \in DOMAIN stack'
      PROVE  Fine(stack'[i]) /\ (i # 1 => stack'[i].asked # "")
  <2>1. i \in 1 .. Len(stack)
    BY <1>1, <1>2
  <2>2. CASE i = 1
    BY <2>2, <1>2
  <2>3. CASE i # 1
    <3>1. i - 1 \in 1 .. Len(stack) - 1 /\ (i - 1) + 1 = i
      BY <2>1, <2>3, <1>1
    <3>2. stack'[i] = rest[i - 1]
      BY <3>1, <1>2
    <3> QED
      BY <3>1, <3>2, <1>3
  <2> QED
    BY <2>2, <2>3
<1>5. stack' # <<>> /\ Top' = n
  BY <1>1, <1>2 DEF Top
<1> QED
  BY <1>2, <1>4, <1>5 DEF FineStack

\* A method returns.
LEMMA RestFine ==
    ASSUME StackOK, FineStack, stack # <<>>, NEW rest, Below(rest), stack' = rest
    PROVE  FineStack' /\ (stack' # <<>> => Top'.asked # "") /\ Len(stack') = Len(stack) - 1
<1>1. /\ Len(stack) \in Nat /\ Len(stack) > 0 /\ rest \in Seq(GoodFrames) /\ Len(rest) = Len(stack) - 1
      /\ DOMAIN stack = 1 .. Len(stack)
  BY TopGood DEF StackOK, Below
<1>3. \A j \in 1 .. Len(stack) - 1 : Fine(rest[j]) /\ rest[j].asked # ""
  <2> SUFFICES ASSUME NEW j \in 1 .. Len(stack) - 1 PROVE Fine(rest[j]) /\ rest[j].asked # ""
    OBVIOUS
  <2>1. j + 1 \in DOMAIN stack /\ j + 1 # 1
    BY <1>1
  <2>2. SameFrame(rest[j], stack[j + 1])
    BY DEF Below
  <2> QED
    BY <2>1, <2>2, SameFine DEF FineStack, SameFrame
<1>4. FineStack'
  <2>1. DOMAIN stack' = 1 .. Len(stack) - 1
    BY <1>1
  <2> QED
    BY <2>1, <1>3 DEF FineStack
<1>5. ASSUME stack' # <<>> PROVE Top'.asked # ""
  <2>1. stack' \in Seq(GoodFrames) /\ Len(stack') = Len(stack) - 1
    BY <1>1
  <2>2. 1 \in 1 .. Len(stack) - 1 /\ Top' = rest[1]
    BY <1>5, <2>1, <1>1 DEF Top
  <2> QED
    BY <2>2, <1>3
<1> QED
  BY <1>1, <1>4, <1>5

\* The method on top goes on at a step, waiting for what it has asked if anything.
Onward(step, asked) ==
    /\ FineStack' /\ stack' # <<>> /\ Len(stack') = Len(stack)
    /\ Top'.at = step /\ Top'.asked = asked

\* It is the same method, about the same files.
Agree(n, m) ==
    /\ n.op = m.op /\ n.dir = m.dir /\ n.name = m.name /\ n.files = m.files /\ n.valid = m.valid
    /\ n.at = m.at /\ n.then = m.then /\ n.old = m.old

Carries == Top'.op = Top.op /\ Top'.dir = Top.dir /\ Top'.name = Top.name
           /\ Top'.files = Top.files /\ Top'.valid = Top.valid

\* It has returned.
Done ==
    /\ FineStack' /\ Len(stack') = Len(stack) - 1
    /\ stack' # <<>> => Top'.asked # ""

LEMMA AskedFrame ==
    ASSUME NEW m \in GoodFrames, NEW v \in Methods_, v = "toggle" => m.dir = "sys"
    PROVE  /\ [m EXCEPT !.asked = v, !.answered = FALSE] \in GoodFrames
           /\ [m EXCEPT !.asked = v, !.answered = FALSE].asked = v
           /\ Agree([m EXCEPT !.asked = v, !.answered = FALSE], m)
<1> DEFINE n == [m EXCEPT !.asked = v, !.answered = FALSE]
<1>1. n \in GoodFrames
  BY AskedGood
<1>2. m \in Frames
  BY DEF GoodFrames
<1>3. n.asked = v /\ Agree(n, m)
  BY <1>2 DEF Frames, Agree
<1> QED
  BY <1>1, <1>3

LEMMA AskedOnward ==
    ASSUME StackOK, FineStack, stack # <<>>, NEW m \in GoodFrames, NEW v \in Methods_,
           v = "toggle" => m.dir = "sys", FineFor(m, v), NEW rest, Below(rest),
           stack' = <<[m EXCEPT !.asked = v, !.answered = FALSE]>> \o rest
    PROVE  Onward(m.at, v) /\ Agree(Top', m)
<1> DEFINE n == [m EXCEPT !.asked = v, !.answered = FALSE]
<1>1. n \in GoodFrames /\ n.asked = v /\ Agree(n, m) /\ stack' = <<n>> \o rest
  BY AskedFrame
<1> HIDE DEF n
<1>2. Fine(n)
  BY <1>1 DEF Fine, FineFor, Agree
<1>3. FineStack' /\ stack' # <<>> /\ Top' = n /\ Len(stack') = Len(stack)
  BY <1>1, <1>2, OnTopFine
<1> QED
  BY <1>1, <1>3 DEF Onward, Agree

LEMMA BecomesOnward ==
    ASSUME StackOK, FineStack, stack # <<>>, NEW m \in GoodFrames, FineFor(m, ""), Becomes(m)
    PROVE  Onward(m.at, "") /\ Agree(Top', m)
BY TailBelow, AskedOnward DEF Becomes, BecomesAnd, Methods_

LEMMA PerformOnward ==
    ASSUME StackOK, FineStack, stack # <<>>, NEW m \in GoodFrames, NEW v \in Methods_,
           v = "toggle" => m.dir = "sys", FineFor(m, v), PerformAction(m, v)
    PROVE  Onward(m.at, v) /\ Agree(Top', m) /\ timers' = {}
BY TailBelow, AskedOnward DEF PerformAction

LEMMA ReturnsDone ==
    ASSUME StackOK, FineStack, stack # <<>>, Returns
    PROVE  Done
BY TailBelow, RestFine DEF Returns, Done

LEMMA FreedDone ==
    ASSUME StackOK, FineStack, stack # <<>>, NEW d, NEW s, stack' = Freed(Tail(stack), d, s)
    PROVE  Done
BY FreedBelow, RestFine DEF Done

\* The method on top, at one of its steps.
LEMMA TopFine ==
    ASSUME DaemonInv, WaitInv, NEW step, At(step)
    PROVE  /\ stack # <<>> /\ StackOK /\ FineStack /\ Top \in GoodFrames /\ Top \in Frames
           /\ Top.at = step /\ process \in {"running", "exiting"} /\ Seen(Top)
           /\ FineFor(Top, Top.asked) /\ Top.asked \in Methods_ /\ Top.dir \in Dir
           /\ Top.then \in Steps /\ Top.then \notin {"after", "configure"}
           /\ step \notin {"after", "rebuild", "stored"} => Top.asked = ""
           /\ Len(stack) \in Nat /\ Len(stack) > 0
<1>1. /\ stack # <<>> /\ Top \in GoodFrames /\ Top \in Frames /\ Top.at = step
      /\ process \in {"running", "exiting"}
  BY AtGood
<1>2. StackOK /\ FineStack /\ Seen(Top)
  BY <1>1 DEF DaemonInv, WaitInv
<1>3. Top = stack[1] /\ 1 \in DOMAIN stack /\ Len(stack) \in Nat /\ Len(stack) > 0
  BY <1>1, <1>2, TopGood DEF StackOK
<1>4. FineFor(Top, Top.asked)
  BY <1>2, <1>3 DEF FineStack, Fine
<1>5. Top.asked \in Methods_ /\ Top.dir \in Dir /\ Top.then \in Steps
  BY <1>1 DEF Frames, Methods_
<1>6. Top.then \notin {"after", "configure"}
  BY <1>1 DEF GoodFrames
<1>7. step \notin {"after", "rebuild", "stored"} => Top.asked = ""
  BY <1>1, <1>4, <1>5 DEF FineFor, Methods_
<1> QED
  BY <1>1, <1>2, <1>3, <1>4, <1>5, <1>6, <1>7

LEMMA FineTop ==
    ASSUME StackOK, FineStack, stack # <<>>
    PROVE  Fine(Top)
<1>1. Top = stack[1] /\ Len(stack) \in Nat /\ Len(stack) > 0 /\ DOMAIN stack = 1 .. Len(stack)
  BY TopGood DEF StackOK
<1>2. 1 \in DOMAIN stack
  BY <1>1
<1> QED
  BY <1>1, <1>2 DEF FineStack

LEMMA BodyTop ==
    ASSUME DaemonInv, WaitInv, At("body")
    PROVE  Top.at = "body" /\ Top.asked = "" /\ Seen(Top)
<1> DEFINE step == "body"
<1>1. At(step) /\ step \notin {"after", "rebuild", "stored"}
  OBVIOUS
<1> HIDE DEF step
<1>2. Top.at = step /\ Top.asked = "" /\ Seen(Top)
  BY <1>1, TopFine
<1> QED
  BY <1>2 DEF step

\* A step of the same method at another place.
LEMMA GoToOnward ==
    ASSUME StackOK, FineStack, stack # <<>>, Top \in GoodFrames, NEW step \in Steps, GoTo(step),
           step # "after" /\ (step = "configure" => Top.op = "reconfigure")
    PROVE  Onward(step, "") /\ Carries
<1> DEFINE n == [Top EXCEPT !.at = step]
<1>1. Fine(Top)
  BY FineTop
<1>2. /\ n.at = step /\ n.op = Top.op /\ n.dir = Top.dir /\ n.name = Top.name
      /\ n.files = Top.files /\ n.valid = Top.valid /\ n.then = Top.then
  BY DEF GoodFrames, Frames
<1>3. n \in GoodFrames
  BY FrameAt DEF Toggles
<1>4. Becomes(n)
  BY DEF GoTo
<1> HIDE DEF n
<1>5. FineFor(n, "")
  BY <1>1, <1>2 DEF Fine, FineFor
<1> QED
  BY <1>2, <1>3, <1>4, <1>5, BecomesOnward DEF Agree, Carries

LEMMA RefreshOnward ==
    ASSUME StackOK, FineStack, stack # <<>>, Top \in GoodFrames,
           NEW step \in {"find", "refind", "reply"}, Refresh(step)
    PROVE  Onward("update", "") /\ Carries
<1> DEFINE n == [Top EXCEPT !.at = "update", !.then = step]
<1>0. step \in Steps /\ step \notin {"after", "configure", "rebuild", "body"}
  BY DEF Steps
<1>2. /\ n.at = "update" /\ n.op = Top.op /\ n.dir = Top.dir /\ n.name = Top.name
      /\ n.files = Top.files /\ n.valid = Top.valid /\ n.then = step
  BY <1>0 DEF GoodFrames, Frames
<1>3. n \in GoodFrames
  BY <1>0, FrameRefresh
<1>4. Becomes(n)
  BY DEF Refresh
<1> HIDE DEF n
<1>5. FineFor(n, "")
  BY <1>0, <1>2 DEF FineFor
<1> QED
  BY <1>2, <1>3, <1>4, <1>5, BecomesOnward DEF Agree, Carries

\* It waits for the helper; what it does afterwards comes next.
LEMMA AskOnward ==
    ASSUME StackOK, FineStack, stack # <<>>, Top \in GoodFrames,
           NEW v \in Methods_, v # "", NEW step \in {"after", "stored"},
           PerformAction([Top EXCEPT !.at = step], v),
           step = "stored" <=> v = "saveDisabled",
           v \in {"install", "uninstall", "move", "removeFile", "reconfigure"} => Top.op = v,
           v = "toggle" => Top.op \in Toggles,
           v \in {"install", "uninstall", "toggle"} => Top.dir = "sys"
    PROVE  Onward(step, v) /\ Carries /\ timers' = {}
<1> DEFINE n == [Top EXCEPT !.at = step]
<1>0. step \in Steps
  BY DEF Steps
<1>1. Fine(Top)
  BY FineTop
<1>2. /\ n.at = step /\ n.op = Top.op /\ n.dir = Top.dir /\ n.name = Top.name
      /\ n.files = Top.files /\ n.valid = Top.valid /\ n.then = Top.then
  BY <1>0 DEF GoodFrames, Frames
<1>6. step = "after" /\ Top.op \in Toggles => v = "toggle"
  BY DEF Methods_, Toggles
<1>7. step = "after" /\ Top.op \in {"install", "uninstall"} => v = Top.op
  BY DEF Methods_, Toggles
<1>3. n \in GoodFrames
  BY <1>0, <1>6, FrameAt
<1>4. PerformAction(n, v)
  OBVIOUS
<1> HIDE DEF n
<1>5. FineFor(n, v)
  BY <1>1, <1>2, <1>7 DEF Fine, FineFor, Methods_
<1>8. v = "toggle" => n.dir = "sys"
  BY <1>2
<1> QED
  BY <1>2, <1>3, <1>4, <1>5, <1>8, PerformOnward DEF Agree, Carries

-----------------------------------------------------------------------------
(* The method on top after each of its steps.                              *)

LEMMA UpdateShape ==
    ASSUME DaemonInv, WaitInv, UpdateFontList
    PROVE  /\ Carries
           /\ \/ Onward(Top.then, "") /\ timers' = timers
              \/ Onward("rebuild", "") /\ Top'.old = fonts /\ timers' = timers
              \/ Onward("rebuild", "saveDisabled") /\ Top'.old = fonts /\ timers' = {}
<1>1. /\ stack # <<>> /\ StackOK /\ FineStack /\ Top \in GoodFrames /\ Top \in Frames
      /\ FineFor(Top, Top.asked) /\ Top.then \in Steps /\ Top.then \notin {"after", "configure"}
  BY TopFine DEF UpdateFontList
<1> DEFINE m == [Top EXCEPT !.at = "rebuild", !.old = fonts]
<1>2. fonts \in [Dir -> SUBSET File] /\ "rebuild" \in Steps
  BY DEF DaemonInv, ListsOK, Steps
<1>3. m \in GoodFrames
  BY <1>1, <1>2, FrameOld
<1>4. /\ m.at = "rebuild" /\ m.op = Top.op /\ m.dir = Top.dir /\ m.name = Top.name
      /\ m.files = Top.files /\ m.valid = Top.valid /\ m.then = Top.then /\ m.old = fonts
  BY <1>1, <1>2 DEF Frames
<1>5. \/ GoTo(Top.then) /\ timers' = timers
      \/ PerformAction(m, "saveDisabled")
      \/ Becomes(m) /\ timers' = timers
  BY Zenon DEF UpdateFontList
<1> HIDE DEF m
<1>6. FineFor(m, "") /\ FineFor(m, "saveDisabled") /\ "saveDisabled" \in Methods_
  BY <1>1, <1>4 DEF FineFor, Methods_
<1>7. CASE GoTo(Top.then) /\ timers' = timers
  BY <1>1, <1>7, GoToOnward
<1>8. CASE PerformAction(m, "saveDisabled")
  BY <1>1, <1>3, <1>4, <1>6, <1>8, PerformOnward DEF Agree, Carries
<1>9. CASE Becomes(m) /\ timers' = timers
  BY <1>1, <1>3, <1>4, <1>6, <1>9, BecomesOnward DEF Agree, Carries
<1> QED
  BY <1>5, <1>7, <1>8, <1>9

LEMMA RebuildShape ==
    ASSUME DaemonInv, WaitInv, RebuildLists
    PROVE  Carries /\ Onward(Top.then, "")
<1>1. /\ stack # <<>> /\ StackOK /\ FineStack /\ Top \in GoodFrames /\ Top \in Frames
      /\ FineFor(Top, Top.asked) /\ Top.then \in Steps /\ Top.then \notin {"after", "configure"}
  BY TopFine DEF RebuildLists
<1> DEFINE m == [Top EXCEPT !.at = Top.then, !.old = Empty]
<1>2. Empty \in [Dir -> SUBSET File]
  BY DEF Empty
<1>3. m \in GoodFrames
  BY <1>1, <1>2, FrameOld
<1>4. /\ m.at = Top.then /\ m.op = Top.op /\ m.dir = Top.dir /\ m.name = Top.name
      /\ m.files = Top.files /\ m.valid = Top.valid /\ m.then = Top.then
  BY <1>1, <1>2 DEF Frames
<1>5. stack' = <<[m EXCEPT !.asked = "", !.answered = FALSE]>> \o AllFreed(Tail(stack))
  BY DEF RebuildLists, BecomesAnd
<1> HIDE DEF m
<1>6. FineFor(m, "") /\ "" \in Methods_
  BY <1>1, <1>4 DEF FineFor, Methods_
<1>7. Below(AllFreed(Tail(stack)))
  BY <1>1, AllFreedBelow
<1>8. Onward(m.at, "") /\ Agree(Top', m)
  BY <1>1, <1>3, <1>5, <1>6, <1>7, AskedOnward
<1> QED
  BY <1>4, <1>8 DEF Agree, Carries

LEMMA FindShape ==
    ASSUME DaemonInv, WaitInv, FindFont
    PROVE  \/ /\ Onward("body", "") /\ timers' = timers
              /\ Top'.dir = Top.dir /\ Top'.name = Top.name /\ Top'.files = Found /\ Top'.valid
           \/ Onward("update", "") /\ timers' = timers
           \/ Onward("find", "") /\ timers' = timers
           \/ Done
<1>1. /\ stack # <<>> /\ StackOK /\ FineStack /\ Top \in GoodFrames /\ Top \in Frames
      /\ FineFor(Top, Top.asked) /\ Top.dir \in Dir
  BY TopFine DEF FindFont
<1> DEFINE m1 == [Top EXCEPT !.at = "body", !.files = Found, !.valid = TRUE]
           m2 == [Top EXCEPT !.op = "uninstall", !.at = IF Top.check THEN "update" ELSE "find",
                             !.then = "find"]
<1>2. CASE Becomes(m1) /\ UNCHANGED <<timers, connections>>
  <2>1. Found \subseteq In(File, Top.dir) /\ Found \in SUBSET File
    BY <1>1 DEF Found, OfStyle, DaemonInv, ListsOK, In
  <2>2. m1 \in GoodFrames
    BY <2>1, <1>1, FrameFound
  <2>3. /\ m1.at = "body" /\ m1.op = Top.op /\ m1.dir = Top.dir /\ m1.name = Top.name
        /\ m1.files = Found /\ m1.valid = TRUE /\ m1.then = Top.then
    BY <1>1, <2>1 DEF Frames
  <2> HIDE DEF m1
  <2>4. FineFor(m1, "")
    BY <2>3, <1>1 DEF FineFor
  <2> QED
    BY <1>1, <1>2, <2>2, <2>3, <2>4, BecomesOnward DEF Agree
<1>3. CASE Becomes(m2) /\ connections' = connections \cup {Top.pid} /\ UNCHANGED timers
  <2>1. m2 \in GoodFrames
    BY <1>1, FrameNamed
  <2>2. m2.at \in {"update", "find"} /\ m2.op = "uninstall" /\ m2.then = "find"
    BY <1>1 DEF Frames
  <2> HIDE DEF m2
  <2>3. FineFor(m2, "")
    BY <2>2 DEF FineFor
  <2> QED
    BY <1>1, <1>3, <2>1, <2>2, <2>3, BecomesOnward
<1>4. CASE Retry /\ UNCHANGED <<timers, connections>>
  BY <1>1, <1>4, RefreshOnward DEF Retry
<1>5. CASE (Returns /\ UNCHANGED timers) \/ ReturnsAndRestarts
  BY <1>1, <1>5, ReturnsDone DEF ReturnsAndRestarts
<1> QED
  BY <1>2, <1>3, <1>4, <1>5 DEF FindFont

LEMMA InstallShape ==
    ASSUME DaemonInv, WaitInv, Install
    PROVE  Done \/ (Onward("after", "install") /\ Carries /\ timers' = {})
<1>1. stack # <<>> /\ StackOK /\ FineStack /\ Top \in GoodFrames /\ Top.op = "install"
  BY TopFine DEF Install
<1>2. \/ Returns
      \/ Top.dir = "sys" /\ PerformAction([Top EXCEPT !.at = "after"], "install")
  BY Zenon DEF Install, ReturnsAndRestarts
<1>3. CASE Returns
  BY <1>1, <1>3, ReturnsDone
<1>4. CASE Top.dir = "sys" /\ PerformAction([Top EXCEPT !.at = "after"], "install")
  <2>1. "install" \in Methods_
    BY DEF Methods_
  <2> QED
    BY <1>1, <1>4, <2>1, AskOnward
<1> QED
  BY <1>2, <1>3, <1>4

LEMMA UninstallSystemShape ==
    ASSUME DaemonInv, WaitInv, UninstallSystem
    PROVE  Onward("after", "uninstall") /\ Carries /\ timers' = {}
<1>1. /\ stack # <<>> /\ StackOK /\ FineStack /\ Top \in GoodFrames /\ Top.op = "uninstall"
      /\ Top.dir = "sys" /\ PerformAction([Top EXCEPT !.at = "after"], "uninstall")
  BY TopFine DEF UninstallSystem
<1>2. "uninstall" \in Methods_
  BY DEF Methods_
<1> QED
  BY <1>1, <1>2, AskOnward

LEMMA MoveShape ==
    ASSUME DaemonInv, WaitInv, Move
    PROVE  Onward("after", "move") /\ Carries /\ timers' = {}
<1>1. /\ stack # <<>> /\ StackOK /\ FineStack /\ Top \in GoodFrames /\ Top.op = "move"
      /\ PerformAction([Top EXCEPT !.at = "after"], "move")
  BY TopFine DEF Move
<1>2. "move" \in Methods_
  BY DEF Methods_
<1> QED
  BY <1>1, <1>2, AskOnward

LEMMA ToggleSystemShape ==
    ASSUME DaemonInv, WaitInv, ToggleSystem
    PROVE  Onward("after", "toggle") /\ Carries /\ timers' = {}
<1>1. /\ stack # <<>> /\ StackOK /\ FineStack /\ Top \in GoodFrames /\ Top.op \in Toggles
      /\ Top.dir = "sys" /\ PerformAction([Top EXCEPT !.at = "after"], "toggle")
  BY TopFine DEF ToggleSystem
<1>2. "toggle" \in Methods_
  BY DEF Methods_
<1> QED
  BY <1>1, <1>2, AskOnward

LEMMA RemoveFileShape ==
    ASSUME DaemonInv, WaitInv, RemoveFile
    PROVE  Done \/ (Onward("after", "removeFile") /\ Carries /\ timers' = {})
<1>1. stack # <<>> /\ StackOK /\ FineStack /\ Top \in GoodFrames /\ Top.op = "removeFile"
  BY TopFine DEF RemoveFile
<1>2. Returns \/ PerformAction([Top EXCEPT !.at = "after"], "removeFile")
  BY Zenon DEF RemoveFile
<1>3. CASE Returns
  BY <1>1, <1>3, ReturnsDone
<1>4. CASE PerformAction([Top EXCEPT !.at = "after"], "removeFile")
  <2>1. "removeFile" \in Methods_
    BY DEF Methods_
  <2> QED
    BY <1>1, <1>4, <2>1, AskOnward
<1> QED
  BY <1>2, <1>3, <1>4

\* The methods that end.
LEMMA EndShape ==
    ASSUME DaemonInv, WaitInv,
           InstallAfter \/ UninstallUser \/ UninstallAfter \/ ToggleUser \/ ToggleAfter
           \/ RemoveFileAfter \/ Reply
    PROVE  Done
<1>1. PICK step \in {"body", "after", "reply"} : At(step)
  BY DEF InstallAfter, UninstallUser, UninstallAfter, ToggleUser, ToggleAfter, RemoveFileAfter,
         Reply
<1>2. stack # <<>> /\ StackOK /\ FineStack
  BY <1>1, TopFine
<1>3. \/ Returns
      \/ \E d : stack' = Freed(Tail(stack), d, StyleOf[Top.name])
  <2>1. InstallAfter \/ ToggleUser \/ ToggleAfter \/ RemoveFileAfter \/ Reply => Returns
    BY DEF InstallAfter, ToggleUser, ToggleAfter, RemoveFileAfter, Reply, Toggled,
           ReturnsAndRestarts
  <2>2. UninstallUser => Returns \/ stack' = Freed(Tail(stack), "user", StyleOf[Top.name])
    BY DEF UninstallUser, Returns
  <2>3. UninstallAfter => stack' = Freed(Tail(stack), "sys", StyleOf[Top.name])
    BY DEF UninstallAfter
  <2> QED
    BY <2>1, <2>2, <2>3
<1> QED
  BY <1>2, <1>3, ReturnsDone, FreedDone

LEMMA AgainShape ==
    ASSUME DaemonInv, WaitInv, MoveAfter \/ ConfigureAfter
    PROVE  Onward("update", "") /\ Carries
<1>1. At("after") /\ Refresh("reply")
  BY DEF MoveAfter, ConfigureAfter
<1> QED
  BY <1>1, TopFine, RefreshOnward

LEMMA StoreShape ==
    ASSUME DaemonInv, WaitInv, StoreDisabled
    PROVE  /\ Carries
           /\ \/ Onward("stored", "") /\ timers' = timers
              \/ Onward("stored", "saveDisabled") /\ timers' = {}
<1>1. stack # <<>> /\ StackOK /\ FineStack /\ Top \in GoodFrames
  BY TopFine DEF StoreDisabled
<1>2. \/ PerformAction([Top EXCEPT !.at = "stored"], "saveDisabled")
      \/ GoTo("stored") /\ timers' = timers
  BY DEF StoreDisabled
<1>3. "saveDisabled" \in Methods_ /\ "stored" \in Steps
  BY DEF Methods_, Steps
<1> QED
  BY <1>1, <1>2, <1>3, AskOnward, GoToOnward

LEMMA StoredShape ==
    ASSUME DaemonInv, WaitInv, StoredDisabled
    PROVE  Done \/ (Onward("configure", "") /\ Carries)
<1>1. stack # <<>> /\ StackOK /\ FineStack /\ Top \in GoodFrames
  BY TopFine DEF StoredDisabled
<1>2. Returns \/ (Top.op = "reconfigure" /\ GoTo("configure"))
  BY Zenon DEF StoredDisabled
<1>3. "configure" \in Steps
  BY DEF Steps
<1> QED
  BY <1>1, <1>2, <1>3, ReturnsDone, GoToOnward

LEMMA ConfigureShape ==
    ASSUME DaemonInv, WaitInv, Configure
    PROVE  /\ Carries
           /\ \/ Onward("after", "reconfigure") /\ timers' = {}
              \/ Onward("update", "")
<1>1. /\ stack # <<>> /\ StackOK /\ FineStack /\ Top \in GoodFrames
      /\ FineFor(Top, Top.asked) /\ Top.at = "configure"
  BY TopFine DEF Configure
<1>2. Top.op = "reconfigure"
  BY <1>1 DEF FineFor
<1>3. PerformAction([Top EXCEPT !.at = "after"], "reconfigure") \/ Refresh("reply")
  BY DEF Configure
<1>4. "reconfigure" \in Methods_
  BY DEF Methods_
<1> QED
  BY <1>1, <1>2, <1>3, <1>4, AskOnward, RefreshOnward

-----------------------------------------------------------------------------
(* No method waits but where it has asked, and none has seen what changed.  *)

LEMMA WaitOnward ==
    ASSUME NEW step, NEW asked, Onward(step, asked), process' # "gone",
           asked = "" /\ step = "rebuild" => Top'.old = fonts',
           asked = "" /\ step = "body" /\ Top'.op \in Finders =>
                Top'.files = OfStyle(fonts'[Top'.dir], StyleOf[Top'.name])
    PROVE  WaitInv'
BY DEF Onward, WaitInv, Seen

LEMMA WaitDone ==
    ASSUME Done, process' # "gone"
    PROVE  WaitInv'
BY DEF Done, WaitInv, Seen

LEMMA WaitUnmoved ==
    ASSUME WaitInv, UNCHANGED <<stack, fonts>>, process' = "gone" => behind'
    PROVE  WaitInv'
<1>1. Top' = Top
  BY DEF Top
<1>2. FineStack' /\ (stack' # <<>> => Seen(Top)')
  BY <1>1 DEF WaitInv, FineStack, Seen
<1> QED
  BY <1>2 DEF WaitInv

LEMMA MethodRuns ==
    ASSUME DaemonInv, MethodSteps
    PROVE  process' # "gone"
<1>1. process \in {"running", "exiting"}
  BY DEF MethodSteps, UpdateFontList, RebuildLists, FindFont, Install, InstallAfter, UninstallUser,
         UninstallSystem, UninstallAfter, Move, MoveAfter, ToggleUser, ToggleSystem, ToggleAfter,
         RemoveFile, RemoveFileAfter, UsesFreed, StoreDisabled, StoredDisabled, Configure,
         ConfigureAfter, Reply, At
<1>2. process' = process \/ process' = "hung"
  BY DEF MethodSteps, UpdateFontList, RebuildLists, FindFont, Install, InstallAfter, UninstallUser,
         UninstallSystem, UninstallAfter, Move, MoveAfter, ToggleUser, ToggleSystem, ToggleAfter,
         RemoveFile, RemoveFileAfter, UsesFreed, StoreDisabled, StoredDisabled, Configure,
         ConfigureAfter, Reply, Unchecked
<1> QED
  BY <1>1, <1>2

LEMMA MethodWait ==
    ASSUME DaemonInv, WaitInv, MethodSteps
    PROVE  WaitInv'
<1>0. process' # "gone"
  BY MethodRuns
<1>1. CASE UpdateFontList
  <2>1. FineFor(Top, Top.asked) /\ fonts' = fonts
    BY <1>1, TopFine DEF UpdateFontList
  <2>2. Top.then # "rebuild" /\ (Top.then = "body" => Top.op \notin Finders)
    BY <2>1 DEF FineFor
  <2>3. \/ Onward(Top.then, "") /\ Top'.op = Top.op
        \/ \E a : Onward("rebuild", a) /\ Top'.old = fonts
    BY <1>1, UpdateShape DEF Carries
  <2> QED
    BY <1>0, <2>1, <2>2, <2>3, WaitOnward
<1>2. CASE RebuildLists
  <2>1. FineFor(Top, Top.asked)
    BY <1>2, TopFine DEF RebuildLists
  <2>2. Top.then # "rebuild" /\ (Top.then = "body" => Top.op \notin Finders)
    BY <2>1 DEF FineFor
  <2> QED
    BY <1>0, <1>2, <2>2, RebuildShape, WaitOnward DEF Carries
<1>3. CASE FindFont
  <2>1. fonts' = fonts
    BY <1>3 DEF FindFont, lists
  <2>2. CASE Onward("body", "") /\ Top'.dir = Top.dir /\ Top'.name = Top.name /\ Top'.files = Found
    BY <1>0, <2>1, <2>2, WaitOnward DEF Found
  <2>3. CASE Onward("update", "") \/ Onward("find", "") \/ Done
    BY <1>0, <2>3, WaitOnward, WaitDone
  <2> QED
    BY <1>3, <2>2, <2>3, FindShape
<1>4. CASE Install
  BY <1>0, <1>4, InstallShape, WaitOnward, WaitDone
<1>5. CASE UninstallSystem
  BY <1>0, <1>5, UninstallSystemShape, WaitOnward
<1>6. CASE Move
  BY <1>0, <1>6, MoveShape, WaitOnward
<1>7. CASE ToggleSystem
  BY <1>0, <1>7, ToggleSystemShape, WaitOnward
<1>8. CASE RemoveFile
  BY <1>0, <1>8, RemoveFileShape, WaitOnward, WaitDone
<1>9. CASE InstallAfter \/ UninstallUser \/ UninstallAfter \/ ToggleUser \/ ToggleAfter
           \/ RemoveFileAfter \/ Reply
  BY <1>0, <1>9, EndShape, WaitDone
<1>10. CASE MoveAfter \/ ConfigureAfter
  BY <1>0, <1>10, AgainShape, WaitOnward
<1>11. CASE UsesFreed
  BY <1>0, <1>11, WaitUnmoved DEF UsesFreed
<1>12. CASE StoreDisabled
  BY <1>0, <1>12, StoreShape, WaitOnward
<1>13. CASE StoredDisabled
  BY <1>0, <1>13, StoredShape, WaitOnward, WaitDone
<1>14. CASE Configure
  BY <1>0, <1>14, ConfigureShape, WaitOnward
<1> QED
  BY <1>1, <1>2, <1>3, <1>4, <1>5, <1>6, <1>7, <1>8, <1>9, <1>10, <1>11, <1>12, <1>13, <1>14
     DEF MethodSteps

LEMMA AnsweredWait ==
    ASSUME DaemonInv, WaitInv, NEW i \in DOMAIN stack, Answered(i), UNCHANGED <<fonts, process, behind>>
    PROVE  /\ WaitInv' /\ Len(stack') = Len(stack) /\ stack' # <<>>
           /\ \A j \in DOMAIN stack : SameFrame(stack'[j], stack[j]) /\ stack'[j].valid = stack[j].valid
<1> DEFINE n == [stack[i] EXCEPT !.answered = TRUE]
<1>1. stack \in Seq(GoodFrames) /\ stack[i] \in GoodFrames /\ Len(stack) \in Nat
      /\ DOMAIN stack = 1 .. Len(stack) /\ i \in 1 .. Len(stack)
  BY DEF DaemonInv, StackOK
<1>2. SameFrame(n, stack[i]) /\ n.valid = stack[i].valid
  BY <1>1 DEF SameFrame, GoodFrames, Frames
<1>3. stack' = [stack EXCEPT ![i] = n]
  BY DEF Answered
<1> HIDE DEF n
<1>4. DOMAIN stack' = DOMAIN stack /\ \A j \in DOMAIN stack : stack'[j] = IF j = i THEN n ELSE stack[j]
  BY <1>1, <1>3
<1>5. \A j \in DOMAIN stack : SameFrame(stack'[j], stack[j]) /\ stack'[j].valid = stack[j].valid
  BY <1>2, <1>4 DEF SameFrame
<1>6. stack' \in Seq(GoodFrames)
  BY AnsweredGood
<1>7. /\ Len(stack') = Len(stack) /\ stack # <<>> /\ stack' # <<>> /\ Top' = stack'[1]
      /\ Top = stack[1] /\ 1 \in DOMAIN stack
  <2>1. Len(stack') \in Nat /\ DOMAIN stack' = 1 .. Len(stack')
    BY <1>6
  <2>2. 1 .. Len(stack') = 1 .. Len(stack)
    BY <2>1, <1>1, <1>4, Zenon
  <2>5. Len(stack) > 0
    BY <1>1
  <2> DEFINE a == Len(stack)
             b == Len(stack')
  <2>6. a \in Nat /\ b \in Nat /\ a > 0 /\ 1 .. b = 1 .. a
    BY <2>1, <2>2, <2>5, <1>1
  <2> HIDE DEF a, b
  <2>7. a \in 1 .. b /\ b \in 1 .. a
    <3>1. a \in 1 .. a /\ 1 \in 1 .. a
      BY <2>6
    <3>2. a \in 1 .. b
      BY <3>1, <2>6
    <3>3. b \in 1 .. b
      BY <3>2, <2>6
    <3> QED
      BY <3>2, <3>3, <2>6
  <2>3. Len(stack') = Len(stack) /\ Len(stack) > 0
    BY <2>6, <2>7 DEF a, b
  <2>4. stack # <<>> /\ stack' # <<>>
    BY <2>3
  <2> QED
    BY <2>3, <2>4, <1>1, <1>6 DEF Top
<1>8. FineStack'
  <2> SUFFICES ASSUME NEW j \in DOMAIN stack PROVE Fine(stack'[j]) /\ (j # 1 => stack'[j].asked # "")
    BY <1>4 DEF FineStack
  <2>1. Fine(stack[j]) /\ (j # 1 => stack[j].asked # "")
    BY DEF WaitInv, FineStack
  <2>2. SameFrame(stack'[j], stack[j])
    BY <1>5
  <2> QED
    BY <2>1, <2>2, SameFine DEF SameFrame
<1>9. Seen(Top)'
  BY <1>5, <1>7 DEF WaitInv, Seen, SameFrame
<1> QED
  BY <1>5, <1>7, <1>8, <1>9 DEF WaitInv

\* What a method that has just been called is like.
Fresh(m) ==
    /\ m.asked = "" /\ m.at \in {"find", "update", "body", "store"}
    /\ m.at = "body" => m.op = "install"
    /\ m.then \in {"find", "body", "reply"} /\ (m.then = "body" => m.op = "install")

LEMMA PushedWait ==
    ASSUME DaemonInv, WaitInv, NEW m \in GoodFrames, Fresh(m), stack' = <<m>> \o stack,
           LoopRuns, process' = process
    PROVE  WaitInv' /\ Top' = m /\ Len(stack') = Len(stack) + 1 /\ stack' # <<>>
<1>1. stack \in Seq(GoodFrames) /\ Len(stack) \in Nat /\ DOMAIN stack = 1 .. Len(stack)
  BY DEF DaemonInv, StackOK
<1>2. /\ stack' \in Seq(GoodFrames) /\ Len(stack') = Len(stack) + 1 /\ DOMAIN stack' = 1 .. Len(stack) + 1
      /\ stack'[1] = m /\ \A j \in 2 .. Len(stack) + 1 : stack'[j] = stack[j - 1]
  BY <1>1
<1>3. stack' # <<>> /\ Top' = m
  BY <1>1, <1>2 DEF Top
<1>4. Fine(m)
  BY DEF Fine, FineFor, Fresh, Finders, Toggles
<1>5. stack # <<>> => stack[1].asked # ""
  BY <1>1, TopGood DEF LoopRuns, Waits, DaemonInv
<1>6. ASSUME NEW j \in DOMAIN stack' PROVE Fine(stack'[j]) /\ (j # 1 => stack'[j].asked # "")
  <2>1. CASE j = 1
    BY <2>1, <1>2, <1>4
  <2>2. CASE j # 1
    <3>1. j - 1 \in DOMAIN stack /\ j \in 2 .. Len(stack) + 1 /\ stack # <<>>
      BY <2>2, <1>1, <1>2
    <3>2. stack'[j] = stack[j - 1]
      BY <3>1, <1>2
    <3> QED
      BY <3>1, <3>2, <1>5 DEF WaitInv, FineStack
  <2> QED
    BY <2>1, <2>2
<1>7. Seen(Top)'
  BY <1>3 DEF Seen, Fresh, Finders, Toggles
<1> QED
  BY <1>2, <1>3, <1>6, <1>7 DEF WaitInv, FineStack, LoopRuns

LEMMA NewMethodFresh ==
    ASSUME NEW op, NEW p, NEW n, NEW d, NEW k, NEW step \in {"find", "update", "body", "store"},
           NEW next \in {"find", "body", "reply"}, step = "body" \/ next = "body" => op = "install"
    PROVE  Fresh(NewMethod(op, p, n, d, k, step, next))
BY DEF Fresh, NewMethod

\* A call or the timer puts a new method on the stack.
LEMMA NewShape ==
    ASSUME DaemonInv, WaitInv, Calls \/ FontListTimeout
    PROVE  /\ \E m \in GoodFrames : Fresh(m) /\ stack' = <<m>> \o stack
           /\ LoopRuns /\ Len(stack) < MaxDepth
           /\ UNCHANGED <<helperVars, lists, timers, process, lost>>
<1> DEFINE Goal == \E m \in GoodFrames : Fresh(m) /\ stack' = <<m>> \o stack
           Rest == /\ LoopRuns /\ Len(stack) < MaxDepth
                   /\ UNCHANGED <<helperVars, lists, timers, process, lost>>
<1>1. NoName \in Names /\ Watcher \in Clients /\ "user" \in Dir
  BY FontDaemonAssumption DEF NoName, Dir
<1>2. ASSUME NEW op \in {"list", "reconfigure", "saveDisabled", "fontListTimeout"},
             NEW p \in Clients, NEW k \in BOOLEAN, NEW step \in {"update", "store"},
             stack' = <<NewMethod(op, p, NoName, "user", k, step, "reply")>> \o stack
      PROVE  Goal
  BY <1>2, PlainMethodGood, NewMethodFresh
<1>3. ASSUME NEW p \in Clients, NEW op \in FontMethods, NEW n \in Names, NEW d \in CallDirs,
             NEW k \in BOOLEAN, CallFontMethod(op, p, n, d, k)
      PROVE  Goal /\ Rest
  <2>1. d \in Dir
    BY FontDaemonAssumption
  <2>2. PICK step \in {"find", "update", "body"}, next \in {"find", "body"} :
          /\ step = "body" \/ next = "body" => op = "install"
          /\ Dispatched(NewMethod(op, p, n, d, k, step, next))
    BY <1>3 DEF CallFontMethod
  <2> DEFINE m == NewMethod(op, p, n, d, k, step, next)
  <2>3. m \in GoodFrames
    BY <2>1, NewMethodGood DEF Steps
  <2>4. Fresh(m)
    BY <2>2, NewMethodFresh
  <2>5. Dispatched(m)
    BY <2>2
  <2> HIDE DEF m
  <2> QED
    BY <2>3, <2>4, <2>5 DEF Dispatched
<1>4. ASSUME NEW p \in Clients, CallList(p) PROVE Goal /\ Rest
  BY <1>2, <1>4 DEF CallList, Dispatched
<1>5. ASSUME NEW p \in Clients, NEW force \in BOOLEAN, CallReconfigure(p, force) PROVE Goal /\ Rest
  BY <1>2, <1>5 DEF CallReconfigure, Dispatched
<1>6. ASSUME NEW p \in Clients, CallSaveDisabled(p) PROVE Goal /\ Rest
  BY <1>2, <1>6 DEF CallSaveDisabled, Dispatched
<1>7. CASE FontListTimeout
  BY <1>1, <1>2, <1>7 DEF FontListTimeout
<1> QED
  BY <1>3, <1>4, <1>5, <1>6, <1>7 DEF Calls

LEMMA WaitInit == Init => WaitInv
BY DEF Init, InitWith, WaitInv, FineStack

LEMMA WaitNext ==
    ASSUME DaemonInv, WaitInv, [Next]_vars
    PROVE  WaitInv'
<1>1. CASE Calls \/ FontListTimeout
  BY <1>1, NewShape, PushedWait
<1>2. CASE MethodSteps
  BY <1>2, MethodWait
<1>3. CASE HelperSteps
  <2>1. ASSUME NEW i \in DOMAIN stack, HelperServes(i) \/ HelperRefuses(i) PROVE WaitInv'
    BY <2>1, AnsweredWait DEF HelperServes, HelperRefuses, daemonVars
  <2>2. CASE StartHelper \/ ExitHelper
    BY <2>2, WaitUnmoved DEF StartHelper, ExitHelper, daemonVars, WaitInv
  <2> QED
    BY <1>3, <2>1, <2>2 DEF HelperSteps
<1>4. CASE ConnectionsTimeout
  <2>1. UNCHANGED <<stack, fonts>> /\ (process' = "gone" => behind')
    BY <1>4 DEF ConnectionsTimeout
  <2> QED
    BY <2>1, WaitUnmoved
<1>5. CASE Exit \/ Killed
  <2>1. stack' = <<>> /\ behind'
    BY <1>5 DEF Exit, Killed, Ended
  <2>2. DOMAIN stack' = {}
    BY <2>1
  <2> QED
    BY <2>1, <2>2, Zenon DEF WaitInv, FineStack
<1>6. CASE Start
  <2>1. stack = <<>>
    BY <1>6 DEF Start, DaemonInv, StackOK
  <2>2. stack' = stack /\ process' = "running"
    BY <1>6 DEF Start
  <2> QED
    BY <2>1, <2>2 DEF WaitInv, FineStack
<1>7. CASE (\E p \in Clients : ClientDies(p)) \/ (\E f \in File : OutsideChange(f)) \/ UNCHANGED vars
  BY <1>7, WaitUnmoved DEF ClientDies, OutsideChange, vars, lists, WaitInv
<1> QED
  BY <1>1, <1>2, <1>3, <1>4, <1>5, <1>6, <1>7 DEF Next, Environment

-----------------------------------------------------------------------------
(* The copy of a client in the folder of the user.                         *)

Follows == In(heard, "user") = fonts["user"]

LEMMA FollowsTold ==
    ASSUME Follows, NEW A, NEW R, Broadcast(A, R),
           fonts'["user"] = (fonts["user"] \cup In(A, "user")) \ In(R, "user")
    PROVE  Follows'
BY DEF Follows, Broadcast, In

\* What is told of the folder of the system does not matter.
LEMMA FollowsSystem ==
    ASSUME Follows, NEW A, NEW R, Broadcast(A, R), In(A, "user") = {}, In(R, "user") = {},
           fonts'["user"] = fonts["user"]
    PROVE  Follows'
BY FollowsTold

LEMMA FollowsUnmoved ==
    ASSUME Follows, UNCHANGED <<fonts, heard>>
    PROVE  Follows'
BY DEF Follows

LEMMA OtherFolder ==
    ASSUME NEW S, S \subseteq In(File, "sys")
    PROVE  In(S, "user") = {}
BY DEF In

LEMMA AllIn ==
    ASSUME NEW lst, \A d \in Dir : lst[d] \subseteq In(File, d)
    PROVE  In(All(lst), "user") = lst["user"] /\ In(All(lst), "sys") = lst["sys"]
BY DEF All, In, Dir

LEMMA FollowsAdded ==
    ASSUME DaemonInv, Follows, Added({Installed}), Top.dir \in Dir, Top.name \in Names
    PROVE  Follows'
<1>1. Installed.dir = Top.dir
  BY DEF Installed, FileAt
<1>2. fonts' = [fonts EXCEPT ![Top.dir] = @ \cup {Installed}] /\ Broadcast({Installed}, {})
  BY DEF Added
<1>3. fonts \in [Dir -> SUBSET File] /\ "user" \in Dir
  BY DEF DaemonInv, ListsOK, Dir
<1>4. fonts'["user"] = (fonts["user"] \cup In({Installed}, "user")) \ In({}, "user")
  BY <1>1, <1>2, <1>3 DEF In
<1> QED
  BY <1>2, <1>4, FollowsTold

LEMMA FollowsRebuilt ==
    ASSUME DaemonInv, WaitInv, Follows, ~behind, RebuildLists, Top.asked = ""
    PROVE  Follows' \/ behind'
<1>1. Top.at = "rebuild" /\ Seen(Top)
  BY TopFine DEF RebuildLists
<1>2. Top.old = fonts
  BY <1>1 DEF Seen
<1>3. DaemonInv'
  BY RebuildStep DEF StepOK
<1>4. In(All(fonts), "user") = fonts["user"]
  BY AllIn DEF DaemonInv, ListsOK
<1>5. In(All(fonts'), "user") = fonts'["user"]
  <2>1. \A d \in Dir : fonts'[d] \subseteq In(File, d)
    BY <1>3 DEF DaemonInv, ListsOK
  <2> QED
    BY <2>1, AllIn
<1>6. CASE Top.op = "list"
  BY <1>2, <1>6, FollowsUnmoved DEF RebuildLists
<1>7. CASE Top.op # "list"
  <2> DEFINE A == All(fonts')
             B == All(fonts)
  <2>1. Broadcast(A \ B, B \ A)
    BY <1>2, <1>7 DEF RebuildLists
  <2>2. In(A, "user") = fonts'["user"] /\ In(B, "user") = fonts["user"]
    BY <1>4, <1>5
  <2> HIDE DEF A, B
  <2>3. fonts'["user"] = (fonts["user"] \cup In(A \ B, "user")) \ In(B \ A, "user")
    BY <2>2 DEF In
  <2> QED
    BY <2>1, <2>3, FollowsTold
<1> QED
  BY <1>6, <1>7

LEMMA FollowsUninstalled ==
    ASSUME DaemonInv, Follows, UninstallUser
    PROVE  Follows'
<1>1. At("body") /\ Top.dir = "user"
  BY DEF UninstallUser
<1>2. Top.files \subseteq In(File, "user")
  BY <1>1, AtGood
<1>3. PICK gone \in SUBSET Top.files :
        fonts' = [fonts EXCEPT !["user"] = @ \ gone] /\ Broadcast({}, gone)
  BY Zenon DEF UninstallUser
<1>4. fonts \in [Dir -> SUBSET File] /\ "user" \in Dir
  BY DEF DaemonInv, ListsOK, Dir
<1>5. In(gone, "user") = gone /\ In({}, "user") = {}
  BY <1>2 DEF In
<1>6. fonts'["user"] = (fonts["user"] \cup In({}, "user")) \ In(gone, "user")
  BY <1>3, <1>4, <1>5
<1> QED
  BY <1>3, <1>6, FollowsTold

\* What toggle() does of the folder of the user, of which it had the whole style.
LEMMA FollowsToggled ==
    ASSUME DaemonInv, WaitInv, Follows, ToggleUser
    PROVE  Follows' \/ KeptRemoved
<1>1. At("body") /\ Top.op \in Toggles /\ Top.dir = "user"
  BY DEF ToggleUser
<1>2. Top.at = "body" /\ Top.asked = "" /\ Seen(Top)
  BY <1>1, BodyTop
<1>3. Top.files = OfStyle(fonts["user"], StyleOf[Top.name])
  BY <1>1, <1>2 DEF Seen, Finders
<1>4. CASE ReturnsAndRestarts /\ UNCHANGED <<disk, unconfigured, fonts, dirty, modified, heard>>
  BY <1>4, FollowsUnmoved
<1> DEFINE flips == ToFlip(Top.files, Enables)
<1>5. CASE /\ disk' = (disk \ flips) \cup Flipped(Top.files, Enables)
           /\ Changed(IF flips = {} THEN {} ELSE {"user"})
           /\ Toggled(WithFlipped("user"))
  <2> DEFINE files == Top.files
             flipped == Flipped(files, Enables)
  <2>1. fonts' = [fonts EXCEPT !["user"] = WithFlipped("user")] /\ Broadcast(flipped, files)
    BY <1>1, <1>5 DEF Toggled
  <2>2. fonts \in [Dir -> SUBSET File] /\ "user" \in Dir
    BY DEF DaemonInv, ListsOK, Dir
  <2>3. fonts'["user"] = (fonts["user"] \ files) \cup flipped
    BY <2>1, <2>2, <1>3 DEF WithFlipped
  <2>4. files \subseteq In(File, "user") /\ flipped \subseteq In(File, "user")
    <3>1. files \subseteq In(File, "user") /\ Enables \in BOOLEAN
      BY <1>1, AtGood DEF Enables
    <3> QED
      BY <3>1, <2>2, FlippedGood
  <2>5. flipped \cap files = {} \/ KeptRemoved
    BY <1>1 DEF KeptRemoved
  <2> HIDE DEF files, flipped
  <2>6. In(files, "user") = files /\ In(flipped, "user") = flipped
    BY <2>4 DEF In
  <2>7. ASSUME flipped \cap files = {}
        PROVE  fonts'["user"] = (fonts["user"] \cup In(flipped, "user")) \ In(files, "user")
    BY <2>3, <2>6, <2>7
  <2> QED
    BY <2>1, <2>5, <2>7, FollowsTold
<1> QED
  BY <1>4, <1>5 DEF ToggleUser

\* The methods that have changed the folder of the system.
LEMMA FollowsAfter ==
    ASSUME DaemonInv, WaitInv, Follows, UninstallAfter \/ ToggleAfter
    PROVE  Follows'
<1>1. At("after")
  BY DEF UninstallAfter, ToggleAfter
<1>2. /\ Top \in GoodFrames /\ Top.at = "after" /\ Top.files \subseteq In(File, Top.dir)
      /\ FineFor(Top, Top.asked)
  BY <1>1, AtGood, TopFine
<1>3. Top.dir = "sys"
  BY <1>2 DEF UninstallAfter, ToggleAfter, FineFor, GoodFrames
<1>4. fonts \in [Dir -> SUBSET File] /\ "user" \in Dir /\ "sys" \in Dir
  BY DEF DaemonInv, ListsOK, Dir
<1>5. Flipped(Top.files, Enables) \subseteq In(File, "sys")
  BY <1>2, <1>3, <1>4, FlippedGood DEF Enables
<1>6. In(Top.files, "user") = {} /\ In(Flipped(Top.files, Enables), "user") = {} /\ In({}, "user") = {}
  BY <1>2, <1>3, <1>5, OtherFolder
<1>7. CASE UninstallAfter
  <2>1. Broadcast({}, Top.files) /\ fonts'["user"] = fonts["user"]
    BY <1>4, <1>7 DEF UninstallAfter
  <2> QED
    BY <2>1, <1>6, FollowsSystem
<1>8. CASE ToggleAfter
  <2>1. Broadcast(Flipped(Top.files, Enables), Top.files)
    BY <1>8 DEF ToggleAfter, Toggled
  <2>2. \E kept : fonts' = [fonts EXCEPT !["sys"] = kept]
    BY <1>3, <1>8 DEF ToggleAfter, Toggled
  <2>3. fonts'["user"] = fonts["user"]
    BY <2>2, <1>4
  <2> QED
    BY <2>1, <2>3, <1>6, FollowsSystem
<1> QED
  BY <1>7, <1>8

LEMMA FollowsReply ==
    ASSUME DaemonInv, Follows, Reply
    PROVE  Follows'
<1>1. In(All(fonts), "user") = fonts["user"]
  BY AllIn DEF DaemonInv, ListsOK
<1>2. heard' = heard \/ heard' = heard \cup All(fonts)
  BY DEF Reply
<1>3. fonts' = fonts
  BY DEF Reply, lists
<1> QED
  BY <1>1, <1>2, <1>3 DEF Follows, In

LEMMA UserHeardStep ==
    ASSUME DaemonInv, WaitInv, [Next]_vars, ~behind, Follows
    PROVE  Follows' \/ behind' \/ KeptRemoved \/ (Top.at = "rebuild" /\ Top.asked # "")
<1>1. CASE Calls \/ FontListTimeout
  <2>1. fonts' = fonts
    BY <1>1, NewShape DEF lists
  <2>2. heard' = heard \/ behind'
    BY <1>1 DEF Calls, CallFontMethod, CallList, CallReconfigure, CallSaveDisabled, FontListTimeout
  <2> QED
    BY <2>1, <2>2, FollowsUnmoved
<1>2. CASE MethodSteps
  <2>1. CASE RebuildLists
    <3>1. Top.at = "rebuild"
      BY <2>1, TopFine DEF RebuildLists
    <3> QED
      BY <2>1, <3>1, FollowsRebuilt
  <2>2. CASE Install
    <3>1. Added({Installed}) \/ UNCHANGED <<fonts, heard>>
      BY <2>2, Zenon DEF Install
    <3>2. Top.dir \in Dir /\ Top.name \in Names
      BY <2>2, AtGood DEF Install
    <3> QED
      BY <3>1, <3>2, FollowsAdded, FollowsUnmoved
  <2>3. CASE InstallAfter
    BY <2>3, AtGood, FollowsAdded DEF InstallAfter
  <2>4. CASE UninstallUser
    BY <2>4, FollowsUninstalled
  <2>5. CASE ToggleUser
    BY <2>5, FollowsToggled
  <2>6. CASE UninstallAfter \/ ToggleAfter
    BY <2>6, FollowsAfter
  <2>7. CASE Reply
    BY <2>7, FollowsReply
  <2>8. CASE UpdateFontList \/ FindFont \/ UninstallSystem \/ Move \/ MoveAfter \/ ToggleSystem
             \/ RemoveFile \/ RemoveFileAfter \/ UsesFreed \/ StoreDisabled \/ StoredDisabled
             \/ Configure \/ ConfigureAfter
    <3>1. UNCHANGED <<fonts, heard>>
      BY <2>8 DEF UpdateFontList, FindFont, UninstallSystem, Move, MoveAfter, ToggleSystem,
                  RemoveFile, RemoveFileAfter, UsesFreed, StoreDisabled, StoredDisabled, Configure,
                  ConfigureAfter, lists
    <3> QED
      BY <3>1, FollowsUnmoved
  <2> QED
    BY <1>2, <2>1, <2>2, <2>3, <2>4, <2>5, <2>6, <2>7, <2>8 DEF MethodSteps
<1>3. CASE HelperSteps
  BY <1>3, FollowsUnmoved DEF HelperSteps, HelperServes, HelperRefuses, StartHelper, ExitHelper, daemonVars
<1>4. CASE Exit \/ Killed
  BY <1>4 DEF Exit, Killed, Ended
<1>5. CASE Start
  BY <1>5 DEF Start, WaitInv
<1>6. CASE ConnectionsTimeout \/ (\E p \in Clients : ClientDies(p)) \/ (\E f \in File : OutsideChange(f))
           \/ UNCHANGED vars
  <2>1. UNCHANGED <<fonts, heard>>
    BY <1>6 DEF ConnectionsTimeout, ClientDies, OutsideChange, vars, lists
  <2> QED
    BY <2>1, FollowsUnmoved
<1> QED
  BY <1>1, <1>2, <1>3, <1>4, <1>5, <1>6 DEF Next, Environment

LEMMA WaitHolds == Spec => [](DaemonInv /\ WaitInv)
<1>1. DaemonInv /\ WaitInv /\ [Next]_vars => (DaemonInv /\ WaitInv)'
  BY InvNext, WaitNext
<1> QED
  BY <1>1, InvInit, WaitInit, PTL DEF Spec

\* In the folder of the user the broadcasts keep a client's copy equal to the daemon's
\* list, however methods and timers are nested, but for a refresh that itself waited for
\* the helper (FontInst.cpp:625) and for a style that had both files of a name.
THEOREM ClientFollowsUserFolder == Spec => UserHeardFollows
<1>1. DaemonInv /\ WaitInv /\ [Next]_vars =>
        [~behind /\ In(heard, "user") = fonts["user"] =>
            \/ In(heard', "user") = fonts'["user"] \/ behind' \/ KeptRemoved
            \/ Top.at = "rebuild" /\ Top.asked # ""]_vars
  BY UserHeardStep DEF Follows
<1> QED
  BY <1>1, WaitHolds, PTL DEF Spec, UserHeardFollows

-----------------------------------------------------------------------------
(* The disabled fonts of the user.                                         *)

\* Unless it is to be written again, the user's disabledfonts.xml has the disabled fonts
\* of the list, for fontconfig has none.
KnownUser ==
    /\ Hidden(cache) = {}
    /\ process # "gone" /\ "user" \notin dirty => Hidden(fonts["user"]) = cfg["user"]
    /\ process = "gone" => dirty = {}

LEMMA UserSavedKnown ==
    ASSUME KnownUser, process # "gone"
    PROVE  UserSaved = Hidden(fonts["user"])
BY DEF KnownUser, UserSaved

\* What a step that concerns the user's list shows of it.
UserStepOK == KnownUser' /\ UserDisabledKept

\* The fonts of the user and what is recorded of them stay.
LEMMA UserListStays ==
    ASSUME KnownUser, fonts'["user"] = fonts["user"], Hidden(cache') = {},
           "user" \in dirty' <=> "user" \in dirty, cfg'["user"] = cfg["user"],
           process # "gone" /\ process' # "gone"
    PROVE  UserStepOK
BY DEF KnownUser, UserStepOK, UserDisabledKept, UserSaved, In, Hidden

LEMMA UserUnmoved ==
    ASSUME KnownUser, UNCHANGED <<fonts, cache, dirty, process>>, cfg'["user"] = cfg["user"]
    PROVE  UserStepOK
BY DEF KnownUser, UserStepOK, UserDisabledKept, UserSaved, In, Hidden

\* The file is written.
LEMMA UserWritten ==
    ASSUME KnownUser, FilesOK, process # "gone", process' # "gone", UNCHANGED <<fonts, cache>>,
           "user" \notin dirty', cfg' = [cfg EXCEPT !["user"] = UserSaved]
    PROVE  UserStepOK
<1>1. cfg'["user"] = UserSaved
  BY DEF FilesOK, Dir
<1>2. UserSaved' = UserSaved
  BY <1>1 DEF UserSaved
<1>3. KnownUser'
  BY <1>1, UserSavedKnown DEF KnownUser
<1> QED
  BY <1>2, <1>3 DEF UserStepOK, UserDisabledKept, In

LEMMA UserUpdated ==
    ASSUME DaemonInv, KnownUser, UpdateFontList
    PROVE  UserStepOK
<1>1. cache' = cache \/ cache' = Visible(disk)
  BY DEF UpdateFontList
<1>2. Hidden(cache') = {}
  BY <1>1 DEF KnownUser, Hidden, Visible
<1>3. process # "gone" /\ process' = process /\ UNCHANGED <<fonts, dirty, cfg>>
  BY DEF UpdateFontList, helperVars, At
<1> QED
  BY <1>2, <1>3, UserListStays

LEMMA UserRebuilt ==
    ASSUME DaemonInv, KnownUser, RebuildLists
    PROVE  UserStepOK
<1>1. process # "gone" /\ process' = process /\ dirty' = {} /\ UNCHANGED <<cache, disk>>
  BY DEF RebuildLists, At
<1>2. "user" \in Dir /\ UserSaved \subseteq In(Hidden(File), "user")
  BY SavedGood DEF DaemonInv, Dir
<1>3. cfg'["user"] = UserSaved \cap disk
  BY <1>2 DEF RebuildLists, Rewritten, DaemonInv, FilesOK
<1>4. fonts'["user"] = (In(cache, "user") \cap disk) \cup (UserSaved \cap disk)
  BY <1>2 DEF RebuildLists, Listed
<1>5. Hidden(fonts'["user"]) = UserSaved \cap disk
  BY <1>2, <1>4 DEF KnownUser, Hidden, In
<1>6. KnownUser'
  BY <1>1, <1>3, <1>5 DEF KnownUser
<1>7. UserSaved' = UserSaved \cap disk
  BY <1>1, <1>3 DEF UserSaved
<1> QED
  BY <1>1, <1>6, <1>7 DEF UserStepOK, UserDisabledKept, In, Hidden

LEMMA UserAdded ==
    ASSUME DaemonInv, KnownUser, Added({Installed}), process # "gone",
           UNCHANGED <<cache, dirty, cfg, process>>
    PROVE  UserStepOK
<1>1. fonts \in [Dir -> SUBSET File] /\ "user" \in Dir
  BY DEF DaemonInv, ListsOK, Dir
<1>2. fonts'["user"] = fonts["user"] \/ fonts'["user"] = fonts["user"] \cup {Installed}
  BY <1>1 DEF Added
<1>3. Installed.hidden = FALSE
  BY DEF Installed, FileAt
<1>4. Hidden(fonts'["user"]) = Hidden(fonts["user"])
  BY <1>2, <1>3 DEF Hidden
<1> QED
  BY <1>4 DEF UserStepOK, KnownUser, UserDisabledKept, UserSaved, In

LEMMA UserUninstalled ==
    ASSUME DaemonInv, KnownUser, UninstallUser
    PROVE  UserStepOK
<1>1. process # "gone" /\ process' = process /\ UNCHANGED <<cache, cfg>>
  BY DEF UninstallUser, At, Unchecked
<1>2. PICK gone \in SUBSET Top.files :
        /\ disk' = disk \ gone
        /\ fonts' = [fonts EXCEPT !["user"] = @ \ gone]
        /\ dirty' = IF Hidden(gone) = {} THEN dirty ELSE dirty \cup {"user"}
  BY Zenon DEF UninstallUser
<1>3. fonts'["user"] = fonts["user"] \ gone
  BY <1>2 DEF DaemonInv, ListsOK, Dir
<1>4. UserSaved = Hidden(fonts["user"])
  BY <1>1, UserSavedKnown
<1>5. KnownUser'
  BY <1>1, <1>2, <1>3 DEF KnownUser, Hidden
<1>6. UserSaved' = Hidden(fonts["user"]) \ gone
  <2>1. UserSaved' = Hidden(fonts'["user"])
    BY <1>1, <1>5, UserSavedKnown DEF KnownUser, UserSaved
  <2> QED
    BY <2>1, <1>3 DEF Hidden
<1> QED
  BY <1>2, <1>4, <1>5, <1>6 DEF UserStepOK, UserDisabledKept, In, Hidden

LEMMA UserToggled ==
    ASSUME DaemonInv, KnownUser, ToggleUser
    PROVE  UserStepOK
<1>1. process # "gone" /\ UNCHANGED <<process, cache, cfg>> /\ stack # <<>>
  BY DEF ToggleUser, At, Unchecked
<1>2. Top.op \in Toggles /\ Top.dir = "user"
  BY DEF ToggleUser
<1> DEFINE flips == ToFlip(Top.files, Enables)
<1>3. CASE /\ disk' = (disk \ flips) \cup Flipped(Top.files, Enables)
           /\ Changed(IF flips = {} THEN {} ELSE {"user"})
           /\ Toggled(WithFlipped("user"))
  <2>1. fonts' = [fonts EXCEPT !["user"] = WithFlipped("user")] /\ "user" \in dirty'
    BY <1>2, <1>3 DEF Toggled
  <2>2. fonts'["user"] = WithFlipped("user")
    BY <2>1 DEF DaemonInv, ListsOK, Dir
  <2>3. UserSaved = Hidden(fonts["user"])
    BY <1>1, UserSavedKnown
  <2>4. UserSaved' = Hidden(fonts'["user"])
    BY <2>1 DEF UserSaved
  <2>5. ASSUME NEW f \in Hidden(fonts["user"])
        PROVE  f \in Hidden(fonts'["user"]) \/ StyleOf[Top.name] = StyleOf[f.name]
    BY <2>2 DEF WithFlipped, OfStyle, Hidden
  <2>6. UserDisabledKept
    BY <1>1, <1>2, <2>3, <2>4, <2>5 DEF UserDisabledKept, TogglesStyleOf
  <2>7. KnownUser'
    BY <1>1, <2>1 DEF KnownUser
  <2> QED
    BY <2>6, <2>7 DEF UserStepOK
<1>4. CASE ReturnsAndRestarts /\ UNCHANGED <<disk, unconfigured, fonts, dirty, modified, heard>>
  BY <1>1, <1>4, UserUnmoved
<1> QED
  BY <1>3, <1>4 DEF ToggleUser

LEMMA UserAfter ==
    ASSUME DaemonInv, WaitInv, KnownUser, UninstallAfter \/ ToggleAfter
    PROVE  UserStepOK
<1>1. At("after") /\ UNCHANGED <<cache, process, cfg>>
  BY DEF UninstallAfter, ToggleAfter, Unchecked, helperVars
<1>2. Top \in GoodFrames /\ Top.at = "after" /\ FineFor(Top, Top.asked) /\ process # "gone"
  BY <1>1, TopFine
<1>3. Top.dir = "sys"
  BY <1>2 DEF UninstallAfter, ToggleAfter, FineFor, GoodFrames
<1>4. fonts \in [Dir -> SUBSET File] /\ "user" \in Dir /\ "sys" \in Dir
  BY DEF DaemonInv, ListsOK, Dir
<1>5. \E kept : fonts' = [fonts EXCEPT !["sys"] = kept]
  <2>1. CASE UninstallAfter
    BY <2>1 DEF UninstallAfter
  <2>2. CASE ToggleAfter
    BY <1>3, <2>2 DEF ToggleAfter, Toggled
  <2> QED
    BY <2>1, <2>2
<1>6. dirty' = dirty \/ dirty' = dirty \cup {"sys"}
  BY <1>3 DEF UninstallAfter, ToggleAfter, Toggled
<1>7. fonts'["user"] = fonts["user"]
  BY <1>4, <1>5
<1> QED
  BY <1>1, <1>2, <1>6, <1>7, UserListStays DEF KnownUser

LEMMA UserMethod ==
    ASSUME DaemonInv, WaitInv, KnownUser, MethodSteps
    PROVE  UserStepOK
<1>1. CASE UpdateFontList
  BY <1>1, UserUpdated
<1>2. CASE RebuildLists
  BY <1>2, UserRebuilt
<1>3. CASE Install
  <2>1. Added({Installed}) \/ UNCHANGED <<fonts, heard>>
    BY <1>3, Zenon DEF Install
  <2>2. process # "gone" /\ UNCHANGED <<cache, dirty, cfg, process>>
    BY <1>3 DEF Install, At, Unchecked
  <2> QED
    BY <2>1, <2>2, UserAdded, UserUnmoved
<1>4. CASE InstallAfter
  <2>1. Added({Installed}) /\ process # "gone" /\ UNCHANGED <<cache, dirty, cfg, process>>
    BY <1>4 DEF InstallAfter, At, Unchecked, helperVars
  <2> QED
    BY <2>1, UserAdded
<1>5. CASE UninstallUser
  BY <1>5, UserUninstalled
<1>6. CASE ToggleUser
  BY <1>6, UserToggled
<1>7. CASE UninstallAfter \/ ToggleAfter
  BY <1>7, UserAfter
<1>8. CASE UsesFreed \/ StoredDisabled
  <2>1. /\ process # "gone" /\ process' # "gone" /\ UNCHANGED <<fonts, cache>>
        /\ "user" \notin dirty' /\ cfg' = [cfg EXCEPT !["user"] = UserSaved]
    BY <1>8 DEF UsesFreed, StoredDisabled, At, Unchecked, Dir
  <2> QED
    BY <2>1, UserWritten DEF DaemonInv
<1>9. CASE FindFont \/ UninstallSystem \/ Move \/ MoveAfter \/ ToggleSystem \/ RemoveFile
           \/ RemoveFileAfter \/ StoreDisabled \/ Configure \/ ConfigureAfter \/ Reply
  <2>1. UNCHANGED <<fonts, cache, dirty, process, cfg>>
    BY <1>9 DEF FindFont, UninstallSystem, Move, MoveAfter, ToggleSystem, RemoveFile,
                RemoveFileAfter, StoreDisabled, Configure, ConfigureAfter, Reply, Unchecked, lists,
                helperVars
  <2> QED
    BY <2>1, UserUnmoved
<1> QED
  BY <1>1, <1>2, <1>3, <1>4, <1>5, <1>6, <1>7, <1>8, <1>9 DEF MethodSteps

\* The daemon that quits has nothing left to write.
LEMMA UserNext ==
    ASSUME DaemonInv, WaitInv, KnownUser, process = "exiting" => dirty = {}, [Next]_vars
    PROVE  UserStepOK
<1>1. CASE Calls \/ FontListTimeout
  <2>1. UNCHANGED <<fonts, cache, dirty, process, cfg>>
    BY <1>1, NewShape DEF lists, helperVars
  <2> QED
    BY <2>1, UserUnmoved
<1>2. CASE MethodSteps
  BY <1>2, UserMethod
<1>3. CASE HelperSteps
  <2>1. UNCHANGED <<fonts, cache, dirty, process>>
    BY <1>3 DEF HelperSteps, HelperServes, HelperRefuses, StartHelper, ExitHelper, daemonVars
  <2>2. \/ cfg' = cfg
        \/ \E c : cfg' = [cfg EXCEPT !["sys"] = c]
    BY <1>3 DEF HelperSteps, HelperServes, HelperRefuses, StartHelper, ExitHelper, HelperStarts,
       HelperExits, HelperInstall, HelperUninstall, HelperMove, HelperToggle, HelperMoveFails,
       HelperToggleFails, HelperUndoes, HelperRemoveFile, HelperSaveDisabled, HelperReconfigure,
       helperVars
  <2>3. cfg'["user"] = cfg["user"]
    BY <2>2 DEF DaemonInv, FilesOK, Dir
  <2> QED
    BY <2>1, <2>3, UserUnmoved
<1>4. CASE ConnectionsTimeout
  <2>1. /\ process # "gone" /\ process' # "gone" /\ UNCHANGED <<fonts, cache>>
        /\ "user" \notin dirty' /\ cfg' = [cfg EXCEPT !["user"] = UserSaved]
    BY <1>4 DEF ConnectionsTimeout, LoopRuns
  <2> QED
    BY <2>1, UserWritten DEF DaemonInv
<1>5. CASE Exit \/ Killed
  <2>1. Ended /\ process # "gone"
    BY <1>5 DEF Exit, Killed
  <2>2. dirty' = {} /\ process' = "gone" /\ cache' = {}
    BY <2>1 DEF Ended
  <2>3. KnownUser'
    BY <2>2 DEF KnownUser, Hidden
  <2>4. UserSaved' = cfg'["user"]
    BY <2>2 DEF UserSaved
  <2>5. process = "exiting" => cfg'["user"] = UserSaved
    BY <1>5 DEF Exit, Killed, UserSaved, DaemonInv, FilesOK, Dir
  <2> QED
    BY <2>2, <2>3, <2>4, <2>5 DEF UserStepOK, UserDisabledKept
<1>6. CASE Start
  <2>1. /\ process = "gone" /\ process' = "running" /\ dirty' = dirty /\ disk' = disk
        /\ cache' = Visible(disk)
    BY <1>6 DEF Start
  <2>2. cfg'["user"] = cfg["user"] \cap disk /\ cfg["user"] \subseteq In(Hidden(File), "user")
    BY <1>6 DEF Start, DaemonInv, FilesOK, Dir
  <2>3. fonts'["user"] = In(Visible(disk), "user") \cup (cfg["user"] \cap disk)
    BY <1>6 DEF Start, Dir
  <2>4. Hidden(fonts'["user"]) = cfg'["user"] /\ Hidden(cache') = {}
    BY <2>1, <2>2, <2>3 DEF Hidden, In, Visible
  <2>5. dirty = {} /\ UserSaved = cfg["user"] /\ UserSaved' = cfg'["user"]
    BY <2>1 DEF KnownUser, UserSaved
  <2>6. KnownUser'
    BY <2>1, <2>4, <2>5 DEF KnownUser
  <2> QED
    BY <2>1, <2>2, <2>5, <2>6 DEF UserStepOK, UserDisabledKept, In, Hidden
<1>7. CASE (\E p \in Clients : ClientDies(p)) \/ (\E f \in File : OutsideChange(f)) \/ UNCHANGED vars
  <2>1. UNCHANGED <<fonts, cache, dirty, process, cfg>>
    BY <1>7 DEF ClientDies, OutsideChange, vars, lists, helperVars
  <2> QED
    BY <2>1, UserUnmoved
<1> QED
  BY <1>1, <1>2, <1>3, <1>4, <1>5, <1>6, <1>7 DEF Next, Environment

-----------------------------------------------------------------------------
(* The disabled fonts of the system.                                       *)

\* The helper that has nothing to write has all the file lists.
KnownSys ==
    /\ helper.up /\ ~helper.dirty => cfg["sys"] \subseteq helper.fonts
    /\ ~helper.up => ~helper.dirty

SysStepOK == KnownSys' /\ SysDisabledKept

LEMMA SysUnmoved ==
    ASSUME KnownSys, helper' = helper, cfg'["sys"] = cfg["sys"]
    PROVE  SysStepOK
BY DEF KnownSys, SysStepOK, SysDisabledKept, SavedByHelper, In

\* What is on disk stays listed when the helper loads the file.
LEMMA Resaved ==
    ASSUME FilesOK
    PROVE  /\ ResavedByHelper \subseteq LoadedByHelper
           /\ \A f \in SavedByHelper : f \in disk => f \in ResavedByHelper
<1>1. \A f \in SavedByHelper : f.hidden
  BY DEF FilesOK, SavedByHelper, In, Hidden, Dir
<1>2. ResavedByHelper \subseteq LoadedByHelper
  BY DEF ResavedByHelper, LoadedByHelper, Hidden
<1>3. \A f \in SavedByHelper : f \in disk => f \in ResavedByHelper
  BY <1>1 DEF ResavedByHelper, LoadedByHelper, Hidden
<1> QED
  BY <1>2, <1>3

LEMMA SysLoaded ==
    ASSUME FilesOK, KnownSys, cfg' = [cfg EXCEPT !["sys"] = ResavedByHelper], disk' = disk,
           helper'.up, ~helper'.dirty, helper'.fonts = LoadedByHelper
    PROVE  SysStepOK
<1>1. cfg'["sys"] = ResavedByHelper
  BY DEF FilesOK, Dir
<1>2. SavedByHelper' = ResavedByHelper
  BY <1>1 DEF SavedByHelper
<1>3. SysDisabledKept
  BY <1>2, Resaved DEF SysDisabledKept, In, Hidden
<1> QED
  BY <1>1, <1>3, Resaved DEF SysStepOK, KnownSys

\* Only a toggle that somebody waits for takes a font from the list.
LEMMA SysToggled ==
    ASSUME FilesOK, KnownSys, NEW S, NEW s, NEW on, HelperToggle(S, s, on), helper.up,
           NEW i \in DOMAIN stack, stack[i].asked = "toggle", stack[i].op \in Toggles,
           s = StyleOf[stack[i].name]
    PROVE  SysStepOK
<1> DEFINE loaded == (helper.fonts \ OfStyle(helper.fonts, s)) \cup (IF on THEN {} ELSE Flipped(S, on))
<1>1. /\ helper' = [helper EXCEPT !.fonts = loaded, !.dirty = TRUE,
                                  !.modified = @ \/ ToFlip(S, on) # {}]
      /\ cfg' = cfg
  BY DEF HelperToggle
<1>2. helper'.fonts = loaded /\ helper'.dirty = TRUE /\ helper'.up
  BY <1>1 DEF FilesOK
<1>3. SavedByHelper' = Hidden(loaded)
  BY <1>2 DEF SavedByHelper
<1>4. \A f \in SavedByHelper : f \in helper.fonts
  BY DEF SavedByHelper, KnownSys, Hidden
<1>5. \A f \in helper.fonts : f.hidden /\ StyleOf[f.name] # s => f \in Hidden(loaded)
  BY DEF OfStyle, Hidden
<1>6. \A f \in In(Hidden(disk \cap disk'), "sys") : f.hidden
  BY DEF In, Hidden
<1>7. \A f \in In(Hidden(disk \cap disk'), "sys") \cap SavedByHelper :
         f \in SavedByHelper' \/ StyleOf[stack[i].name] = StyleOf[f.name]
  BY <1>3, <1>4, <1>5, <1>6
<1>8. SysDisabledKept
  BY <1>7 DEF SysDisabledKept, TogglesStyleOf
<1>9. KnownSys'
  BY <1>2 DEF KnownSys
<1> QED
  BY <1>8, <1>9 DEF SysStepOK

LEMMA SysServed ==
    ASSUME DaemonInv, WaitInv, KnownSys, NEW i \in DOMAIN stack, HelperServes(i)
    PROVE  SysStepOK
<1>1. FilesOK /\ helper.up
  BY DEF DaemonInv, HelperServes
<1>2. Fine(stack[i])
  BY DEF WaitInv, FineStack
<1>3. CASE HelperSaveDisabled \/ HelperReconfigure
  <2>1. cfg' = [cfg EXCEPT !["sys"] = ResavedByHelper] /\ disk' = disk
    BY <1>3 DEF HelperSaveDisabled, HelperReconfigure
  <2>2. helper'.up /\ ~helper'.dirty /\ helper'.fonts = LoadedByHelper
    BY <1>1, <1>3 DEF HelperSaveDisabled, HelperReconfigure, FilesOK
  <2> QED
    BY <1>1, <2>1, <2>2, SysLoaded
<1>4. CASE stack[i].asked = "toggle"
           /\ HelperToggle(stack[i].files, StyleOf[stack[i].name], stack[i].op = "enable")
  <2>1. stack[i].op \in Toggles
    BY <1>2, <1>4 DEF Fine, FineFor
  <2> QED
    BY <1>1, <1>4, <2>1, SysToggled
<1>5. ASSUME cfg' = cfg, helper' = [helper EXCEPT !.modified = TRUE]
                         \/ \E d : helper' = [helper EXCEPT !.modified = @ \/ d = "sys"]
      PROVE  SysStepOK
  <2>1. helper'.up = helper.up /\ helper'.dirty = helper.dirty /\ helper'.fonts = helper.fonts
    BY <1>1, <1>5 DEF FilesOK
  <2> QED
    BY <2>1, <1>5 DEF KnownSys, SysStepOK, SysDisabledKept, SavedByHelper, In
<1>6. CASE \/ HelperInstall(stack[i].name)
           \/ HelperUninstall(stack[i].files)
           \/ HelperMove(stack[i].files, IF stack[i].dir = "sys" THEN "user" ELSE "sys")
           \/ HelperMoveFails(stack[i].files, IF stack[i].dir = "sys" THEN "user" ELSE "sys")
           \/ HelperToggleFails(stack[i].files, stack[i].op = "enable")
           \/ \E f \in In(disk, "sys") : HelperRemoveFile(f)
  BY <1>5, <1>6 DEF HelperInstall, HelperUninstall, HelperMove, HelperMoveFails, HelperToggleFails,
                    HelperUndoes, HelperRemoveFile
<1> QED
  BY <1>3, <1>4, <1>6 DEF HelperServes

LEMMA SysNext ==
    ASSUME DaemonInv, WaitInv, KnownSys, [Next]_vars
    PROVE  SysStepOK
<1>0. ASSUME helper' = helper, cfg' = cfg \/ \E c : cfg' = [cfg EXCEPT !["user"] = c]
      PROVE  SysStepOK
  <2>1. cfg'["sys"] = cfg["sys"]
    BY <1>0 DEF DaemonInv, FilesOK, Dir
  <2> QED
    BY <1>0, <2>1, SysUnmoved
<1>1. CASE Calls \/ FontListTimeout
  BY <1>0, <1>1, NewShape DEF helperVars
<1>2. CASE MethodSteps
  BY <1>0, <1>2 DEF MethodSteps, UpdateFontList, RebuildLists, FindFont, Install, InstallAfter,
         UninstallUser, UninstallSystem, UninstallAfter, Move, MoveAfter, ToggleUser, ToggleSystem,
         ToggleAfter, RemoveFile, RemoveFileAfter, UsesFreed, StoreDisabled, StoredDisabled,
         Configure, ConfigureAfter, Reply, helperVars
<1>3. CASE HelperSteps
  <2>1. ASSUME NEW i \in DOMAIN stack, HelperServes(i) PROVE SysStepOK
    BY <2>1, SysServed
  <2>2. ASSUME NEW i \in DOMAIN stack, HelperRefuses(i) PROVE SysStepOK
    BY <1>0, <2>2 DEF HelperRefuses, helperVars
  <2>3. CASE StartHelper
    <3>1. /\ cfg' = [cfg EXCEPT !["sys"] = ResavedByHelper] /\ disk' = disk
          /\ helper' = [NoHelper EXCEPT !.up = TRUE, !.fonts = LoadedByHelper]
      BY <2>3 DEF StartHelper, HelperStarts
    <3>2. helper'.up /\ ~helper'.dirty /\ helper'.fonts = LoadedByHelper
      BY <3>1 DEF NoHelper
    <3> QED
      BY <3>1, <3>2, SysLoaded DEF DaemonInv
  <2>4. CASE ExitHelper
    <3>1. cfg' = [cfg EXCEPT !["sys"] = SavedByHelper] /\ helper' = NoHelper
      BY <2>4 DEF ExitHelper, HelperExits
    <3>2. cfg'["sys"] = SavedByHelper /\ ~helper'.up /\ ~helper'.dirty
      BY <3>1 DEF DaemonInv, FilesOK, Dir, NoHelper
    <3>3. SavedByHelper' = SavedByHelper
      BY <3>2 DEF SavedByHelper
    <3> QED
      BY <3>2, <3>3 DEF KnownSys, SysStepOK, SysDisabledKept
  <2> QED
    BY <1>3, <2>1, <2>2, <2>3, <2>4 DEF HelperSteps
<1>4. CASE ConnectionsTimeout \/ Exit \/ Killed \/ Start
  BY <1>0, <1>4 DEF ConnectionsTimeout, Exit, Killed, Ended, Start
<1>5. CASE (\E p \in Clients : ClientDies(p)) \/ (\E f \in File : OutsideChange(f)) \/ UNCHANGED vars
  BY <1>0, <1>5 DEF ClientDies, OutsideChange, vars, helperVars
<1> QED
  BY <1>1, <1>2, <1>3, <1>4, <1>5 DEF Next, Environment

-----------------------------------------------------------------------------
(* A daemon that does one thing at a time.                                 *)

\* What a method finds when it goes on is what it left.
AloneTop(m) ==
    /\ m.asked # "" => timers = {}
    /\ m.at = "rebuild" => m.old = fonts
    /\ m.at \in {"body", "after"} /\ m.op \in Finders =>
            m.valid /\ m.files = OfStyle(fonts[m.dir], StyleOf[m.name])
    /\ m.at = "after" /\ m.op = "move" => modified = Dir
    /\ m.at = "after" /\ m.op = "uninstall" => "sys" \in modified

\* It will mark the folder of the system, which the helper may have changed.
Pending(m) ==
    /\ m.at = "after"
    /\ \/ m.op \in {"install", "removeFile"}
       \/ m.op \in Toggles /\ ToFlip(m.files, m.op = "enable") # {}

Quiet ==
    /\ Len(stack) <= 1
    /\ process = "exiting" => stack = <<>> /\ dirty = {}
    /\ stack # <<>> => AloneTop(Top)

SysPending ==
    "sys" \in unconfigured => "sys" \in modified \cup lost \/ (stack # <<>> /\ Pending(Top))

AloneInv == Quiet /\ UserChangesPending /\ SysPending

Alone == DaemonInv /\ WaitInv /\ AloneInv

\* The marks of the folders.
MarksKept ==
    /\ UserChangesPending'
    /\ "sys" \in unconfigured' => "sys" \in modified' \cup lost'

LEMMA AloneAt ==
    ASSUME Alone, NEW step, At(step)
    PROVE  /\ process = "running" /\ stack # <<>> /\ Len(stack) = 1 /\ AloneTop(Top) /\ Top.at = step
           /\ Top.asked # "" => timers = {}
           /\ step # "after" => ("sys" \in unconfigured => "sys" \in modified \cup lost)
<1>1. /\ stack # <<>> /\ process \in {"running", "exiting"} /\ Top.at = step
      /\ Len(stack) \in Nat /\ Len(stack) > 0
  BY TopFine DEF Alone
<1>2. Len(stack) <= 1 /\ AloneTop(Top) /\ process # "exiting" /\ SysPending
  BY <1>1 DEF Alone, AloneInv, Quiet
<1>3. Len(stack) = 1
  <2> DEFINE k == Len(stack)
  <2>1. k \in Nat /\ k > 0 /\ k <= 1
    BY <1>1, <1>2
  <2> HIDE DEF k
  <2>2. k = 1
    BY <2>1
  <2> QED
    BY <2>2 DEF k
<1>4. Top.asked # "" => timers = {}
  BY <1>2 DEF AloneTop
<1>5. step # "after" => ("sys" \in unconfigured => "sys" \in modified \cup lost)
  BY <1>1, <1>2 DEF SysPending, Pending
<1> QED
  BY <1>1, <1>2, <1>3, <1>4, <1>5

LEMMA AloneDone ==
    ASSUME Alone, stack # <<>>, Done, DaemonInv', process' # "exiting", MarksKept
    PROVE  AloneInv'
<1>1. Len(stack) \in Nat /\ Len(stack) > 0 /\ Len(stack) <= 1
  BY TopGood DEF Alone, DaemonInv, AloneInv, Quiet
<1>2. stack' \in Seq(GoodFrames)
  BY DEF DaemonInv, StackOK
<1>5. Len(stack) = 1
  BY <1>1
<1>3. Len(stack') = 0
  BY <1>5 DEF Done
<1>4. stack' = <<>>
  BY <1>2, <1>3
<1> QED
  BY <1>3, <1>4 DEF AloneInv, Quiet, SysPending, MarksKept

LEMMA AloneOnward ==
    ASSUME Alone, NEW step, NEW asked, Onward(step, asked), AloneTop(Top)', process' # "exiting",
           MarksKept
    PROVE  AloneInv'
BY DEF Alone, AloneInv, Quiet, SysPending, MarksKept, Onward

\* It goes on to a step where it has seen nothing yet and waits for nothing.
LEMMA AloneOn ==
    ASSUME Alone, NEW step, Onward(step, ""), process' # "exiting", MarksKept,
           step \notin {"rebuild", "after"}, step = "body" => Top'.op \notin Finders
    PROVE  AloneInv'
<1>1. AloneTop(Top)'
  BY DEF AloneTop, Onward
<1> QED
  BY <1>1, AloneOnward

\* It asks the helper for something.
LEMMA AloneAsks ==
    ASSUME Alone, AloneTop(Top), NEW v, Onward("after", v), Carries, timers' = {}, process' # "exiting",
           MarksKept, fonts' = fonts, Top.op \in Finders => Top.at = "body",
           Top.op = "move" => modified' = Dir, Top.op = "uninstall" => "sys" \in modified'
    PROVE  AloneInv'
<1>1. AloneTop(Top)'
  BY DEF AloneTop, Onward, Carries
<1> QED
  BY <1>1, AloneOnward

LEMMA MarksUnmoved ==
    ASSUME Alone, UNCHANGED <<unconfigured, modified, lost>>,
           "sys" \in unconfigured => "sys" \in modified \cup lost
    PROVE  MarksKept
BY DEF Alone, AloneInv, UserChangesPending, MarksKept

\* What was changed is marked.
LEMMA MarksAdded ==
    ASSUME Alone, NEW S, unconfigured' = unconfigured \cup S, modified' = modified \cup S, lost' = lost,
           "sys" \in unconfigured => "sys" \in modified \cup lost
    PROVE  MarksKept
BY DEF Alone, AloneInv, UserChangesPending, MarksKept

LEMMA AloneRuns ==
    ASSUME Alone, MethodSteps
    PROVE  process' # "exiting" /\ stack # <<>>
<1>1. \E step : At(step)
  BY DEF MethodSteps, UpdateFontList, RebuildLists, FindFont, Install, InstallAfter, UninstallUser,
         UninstallSystem, UninstallAfter, Move, MoveAfter, ToggleUser, ToggleSystem, ToggleAfter,
         RemoveFile, RemoveFileAfter, UsesFreed, StoreDisabled, StoredDisabled, Configure,
         ConfigureAfter, Reply
<1>2. process = "running" /\ stack # <<>>
  BY <1>1, AloneAt
<1>3. process' = process \/ process' = "hung"
  BY DEF MethodSteps, UpdateFontList, RebuildLists, FindFont, Install, InstallAfter, UninstallUser,
         UninstallSystem, UninstallAfter, Move, MoveAfter, ToggleUser, ToggleSystem, ToggleAfter,
         RemoveFile, RemoveFileAfter, UsesFreed, StoreDisabled, StoredDisabled, Configure,
         ConfigureAfter, Reply, Unchecked
<1> QED
  BY <1>2, <1>3

LEMMA AloneUpdated ==
    ASSUME Alone, UpdateFontList
    PROVE  AloneInv'
<1>1. process' # "exiting" /\ FineFor(Top, Top.asked) /\ Top.then \notin {"after", "configure"}
  BY AloneRuns, TopFine DEF UpdateFontList, MethodSteps, Alone
<1>2. Top.then # "rebuild" /\ (Top.then = "body" => Top.op \notin Finders)
  BY <1>1 DEF FineFor
<1>3. UNCHANGED <<fonts, unconfigured, modified, lost>>
  BY DEF UpdateFontList, helperVars
<1>4. MarksKept
  <2> DEFINE step == "update"
  <2>1. At(step) /\ step # "after"
    BY DEF UpdateFontList
  <2> HIDE DEF step
  <2> QED
    BY <2>1, <1>3, AloneAt, MarksUnmoved
<1>5. CASE Onward(Top.then, "") /\ Carries
  BY <1>1, <1>2, <1>4, <1>5, AloneOn DEF Carries
<1>6. ASSUME NEW a, Onward("rebuild", a), Top'.old = fonts, a # "" => timers' = {} PROVE AloneInv'
  <2>1. AloneTop(Top)'
    BY <1>3, <1>6 DEF AloneTop, Onward
  <2> QED
    BY <1>1, <1>4, <1>6, <2>1, AloneOnward
<1> QED
  BY <1>5, <1>6, UpdateShape DEF Alone

LEMMA AloneRebuilt ==
    ASSUME Alone, RebuildLists
    PROVE  AloneInv'
<1>1. process' # "exiting" /\ FineFor(Top, Top.asked) /\ Top.then \notin {"after", "configure"}
  BY AloneRuns, TopFine DEF RebuildLists, MethodSteps, Alone
<1>2. Top.then # "rebuild" /\ (Top.then = "body" => Top.op \notin Finders)
  BY <1>1 DEF FineFor
<1>3. UNCHANGED <<unconfigured, modified, lost>>
  BY DEF RebuildLists
<1>4. MarksKept
  <2> DEFINE step == "rebuild"
  <2>1. At(step) /\ step # "after"
    BY DEF RebuildLists
  <2> HIDE DEF step
  <2> QED
    BY <2>1, <1>3, AloneAt, MarksUnmoved
<1>5. Onward(Top.then, "") /\ Carries
  BY RebuildShape DEF Alone
<1> QED
  BY <1>1, <1>2, <1>4, <1>5, AloneOn DEF Carries

LEMMA AloneFound ==
    ASSUME Alone, DaemonInv', FindFont
    PROVE  AloneInv'
<1>1. process' # "exiting" /\ stack # <<>>
  BY AloneRuns DEF MethodSteps
<1>2. PICK step \in {"find", "refind"} : At(step)
  BY DEF FindFont
<1>3. UNCHANGED <<fonts, unconfigured, modified, lost>>
  BY DEF FindFont, lists, helperVars
<1>4. MarksKept
  BY <1>2, <1>3, AloneAt, MarksUnmoved
<1>5. CASE Onward("body", "") /\ Top'.dir = Top.dir /\ Top'.name = Top.name /\ Top'.files = Found /\ Top'.valid
  <2>1. AloneTop(Top)'
    BY <1>3, <1>5 DEF AloneTop, Onward, Found
  <2> QED
    BY <1>1, <1>4, <1>5, <2>1, AloneOnward
<1>6. CASE Onward("update", "") \/ Onward("find", "")
  BY <1>1, <1>4, <1>6, AloneOn
<1>7. CASE Done
  BY <1>1, <1>4, <1>7, AloneDone
<1> QED
  BY <1>5, <1>6, <1>7, FindShape DEF Alone

\* A method at its body.
LEMMA AloneBody ==
    ASSUME Alone, At("body")
    PROVE  AloneTop(Top) /\ Top.at = "body" /\ ("sys" \in unconfigured => "sys" \in modified \cup lost)
<1> DEFINE step == "body"
<1>1. At(step) /\ step # "after"
  OBVIOUS
<1> HIDE DEF step
<1>2. AloneTop(Top) /\ Top.at = step /\ ("sys" \in unconfigured => "sys" \in modified \cup lost)
  BY <1>1, AloneAt
<1> QED
  BY <1>2 DEF step

LEMMA AloneInstalled ==
    ASSUME Alone, DaemonInv', Install
    PROVE  AloneInv'
<1>1. process' # "exiting" /\ stack # <<>>
  BY AloneRuns DEF MethodSteps
<1>2. At("body") /\ Top.op = "install" /\ lost' = lost
  BY DEF Install, Unchecked
<1>3. \/ UNCHANGED <<unconfigured, fonts, modified>>
      \/ unconfigured' = unconfigured \cup {"user"} /\ modified' = modified \cup {"user"} /\ Returns
  <2>1. CASE UNCHANGED <<disk, unconfigured, fonts, modified, heard>>
    BY <2>1
  <2>2. CASE Top.dir = "user" /\ Changed({"user"}) /\ Added({Installed}) /\ ReturnsAndRestarts
    BY <2>2 DEF Changed, Added, ReturnsAndRestarts
  <2> QED
    BY <2>1, <2>2 DEF Install
<1>4. MarksKept
  BY <1>2, <1>3, AloneBody, MarksUnmoved, MarksAdded
<1>5. CASE Done
  BY <1>1, <1>4, <1>5, AloneDone
<1>6. CASE Onward("after", "install") /\ Carries /\ timers' = {}
  <2>1. AloneTop(Top)'
    BY <1>2, <1>6 DEF AloneTop, Onward, Carries, Finders, Toggles
  <2> QED
    BY <1>1, <1>4, <1>6, <2>1, AloneOnward
<1> QED
  BY <1>5, <1>6, InstallShape DEF Alone

LEMMA AloneAsked ==
    ASSUME Alone, UninstallSystem \/ Move \/ ToggleSystem
    PROVE  AloneInv'
<1>1. process' # "exiting"
  BY AloneRuns DEF MethodSteps
<1>2. At("body") /\ UNCHANGED <<fonts, unconfigured, lost>>
  BY DEF UninstallSystem, Move, ToggleSystem, Unchecked, helperVars
<1>3. AloneTop(Top) /\ Top.at = "body" /\ ("sys" \in unconfigured => "sys" \in modified \cup lost)
  BY <1>2, AloneBody
<1>4. modified \subseteq modified'
  BY DEF UninstallSystem, Move, ToggleSystem, Alone, DaemonInv, ListsOK
<1>5. MarksKept
  BY <1>2, <1>3, <1>4 DEF MarksKept, Alone, AloneInv, UserChangesPending
<1>6. PICK v : Onward("after", v) /\ Carries /\ timers' = {}
  BY UninstallSystemShape, MoveShape, ToggleSystemShape DEF Alone
<1>7. (Top.op = "move" => modified' = Dir) /\ (Top.op = "uninstall" => "sys" \in modified')
  BY DEF UninstallSystem, Move, ToggleSystem, Toggles
<1> QED
  BY <1>1, <1>2, <1>3, <1>5, <1>6, <1>7, AloneAsks

LEMMA AloneRemoved ==
    ASSUME Alone, DaemonInv', RemoveFile
    PROVE  AloneInv'
<1>1. process' # "exiting" /\ stack # <<>>
  BY AloneRuns DEF MethodSteps
<1>2. At("body") /\ Top.op = "removeFile" /\ lost' = lost
  BY DEF RemoveFile, Unchecked
<1>3. \/ UNCHANGED <<unconfigured, modified>>
      \/ unconfigured' = unconfigured \cup {"user"} /\ modified' = modified \cup {"user"}
  BY DEF RemoveFile, Changed
<1>4. MarksKept
  BY <1>2, <1>3, AloneBody, MarksUnmoved, MarksAdded
<1>5. CASE Done
  BY <1>1, <1>4, <1>5, AloneDone
<1>6. CASE Onward("after", "removeFile") /\ Carries /\ timers' = {}
  <2>1. AloneTop(Top) /\ Top.at = "body" /\ fonts' = fonts
    BY <1>2, AloneBody DEF RemoveFile
  <2> QED
    BY <1>1, <1>2, <1>4, <1>6, <2>1, AloneAsks
<1> QED
  BY <1>5, <1>6, RemoveFileShape DEF Alone

\* The methods that end leave marks for all that was changed.
LEMMA AloneEnded ==
    ASSUME Alone, DaemonInv',
           InstallAfter \/ UninstallUser \/ UninstallAfter \/ ToggleUser \/ ToggleAfter
           \/ RemoveFileAfter \/ Reply
    PROVE  AloneInv'
<1>1. process' # "exiting" /\ stack # <<>> /\ Done
  BY AloneRuns, EndShape DEF MethodSteps, Alone
<1>2. UserChangesPending /\ SysPending
  BY DEF Alone, AloneInv
<1>3. CASE Reply
  <2> DEFINE step == "reply"
  <2>1. At(step) /\ step # "after" /\ UNCHANGED <<unconfigured, modified, lost>>
    BY <1>3 DEF Reply, helperVars, lists
  <2> HIDE DEF step
  <2>2. MarksKept
    BY <2>1, AloneAt, MarksUnmoved
  <2> QED
    BY <1>1, <2>2, AloneDone
<1>4. CASE UninstallUser
  <2>1. At("body") /\ lost' = lost
    BY <1>4 DEF UninstallUser, Unchecked
  <2>2. \E touched : Changed(touched) /\ modified' = modified \cup touched
    BY <1>4 DEF UninstallUser
  <2>3. MarksKept
    BY <2>1, <2>2, AloneBody, MarksAdded DEF Changed
  <2> QED
    BY <1>1, <2>3, AloneDone
<1>5. CASE ToggleUser
  <2>1. At("body") /\ lost' = lost /\ Top.dir = "user"
    BY <1>5 DEF ToggleUser, Unchecked
  <2>2. (\E touched : unconfigured' = unconfigured \cup touched /\ modified' = modified \cup touched)
        \/ UNCHANGED <<unconfigured, modified>>
    <3> DEFINE flips == ToFlip(Top.files, Enables)
               touched == IF flips = {} THEN {} ELSE {"user"}
    <3>1. CASE /\ disk' = (disk \ flips) \cup Flipped(Top.files, Enables)
               /\ Changed(IF flips = {} THEN {} ELSE {"user"})
               /\ Toggled(WithFlipped("user"))
      <4>1. unconfigured' = unconfigured \cup touched /\ modified' = modified \cup touched
        BY <2>1, <3>1 DEF Toggled, Changed
      <4> QED
        BY <4>1
    <3>2. CASE ReturnsAndRestarts /\ UNCHANGED <<disk, unconfigured, fonts, dirty, modified, heard>>
      BY <3>2
    <3> QED
      BY <1>5, <3>1, <3>2 DEF ToggleUser
  <2>3. MarksKept
    BY <2>1, <2>2, AloneBody, MarksAdded, MarksUnmoved
  <2> QED
    BY <1>1, <2>3, AloneDone
<1>6. CASE InstallAfter \/ UninstallAfter \/ ToggleAfter \/ RemoveFileAfter
  <2>1. At("after") /\ UNCHANGED <<unconfigured, lost>>
    BY <1>6 DEF InstallAfter, UninstallAfter, ToggleAfter, RemoveFileAfter, Unchecked, helperVars
  <2>2. Top \in GoodFrames /\ Top.at = "after" /\ FineFor(Top, Top.asked)
    BY <2>1, TopFine DEF Alone
  <2>3. modified \subseteq modified'
    BY <1>6 DEF InstallAfter, UninstallAfter, ToggleAfter, RemoveFileAfter, Added, Toggled
  <2>4. Pending(Top) => "sys" \in modified'
    <3>1. CASE InstallAfter
      BY <2>2, <3>1 DEF InstallAfter, Added, FineFor
    <3>2. CASE ToggleAfter
      BY <2>2, <3>2 DEF ToggleAfter, Toggled, Pending, GoodFrames, Enables, Toggles
    <3>3. CASE UninstallAfter
      BY <3>3 DEF UninstallAfter, Pending, Toggles
    <3>4. CASE RemoveFileAfter
      BY <3>4 DEF RemoveFileAfter
    <3> QED
      BY <1>6, <3>1, <3>2, <3>3, <3>4
  <2>5. MarksKept
    BY <1>2, <2>1, <2>3, <2>4 DEF MarksKept, UserChangesPending, SysPending
  <2> QED
    BY <1>1, <2>5, AloneDone
<1> QED
  BY <1>3, <1>4, <1>5, <1>6

LEMMA AloneAgain ==
    ASSUME Alone, MoveAfter \/ ConfigureAfter
    PROVE  AloneInv'
<1>1. process' # "exiting" /\ Onward("update", "")
  BY AloneRuns, AgainShape DEF MethodSteps, Alone
<1>2. UserChangesPending /\ SysPending /\ Top.at = "after"
  BY TopFine DEF Alone, AloneInv, MoveAfter, ConfigureAfter
<1>3. MarksKept
  <2>1. CASE MoveAfter
    BY <1>2, <2>1 DEF MoveAfter, MarksKept, UserChangesPending, SysPending, Pending, Toggles,
                      Unchecked, helperVars
  <2>2. CASE ConfigureAfter
    BY <1>2, <2>2 DEF ConfigureAfter, MarksKept, UserChangesPending, helperVars
  <2> QED
    BY <2>1, <2>2
<1> QED
  BY <1>1, <1>3, AloneOn

LEMMA AloneStored ==
    ASSUME Alone, DaemonInv', StoreDisabled \/ StoredDisabled
    PROVE  AloneInv'
<1>1. process' # "exiting" /\ stack # <<>> /\ UNCHANGED <<unconfigured, modified, lost>>
  BY AloneRuns DEF MethodSteps, StoreDisabled, StoredDisabled, Unchecked, helperVars
<1>2. PICK step \in {"store", "stored"} : At(step)
  BY DEF StoreDisabled, StoredDisabled
<1>3. MarksKept
  BY <1>1, <1>2, AloneAt, MarksUnmoved
<1>4. CASE StoreDisabled
  <2>1. PICK a : Onward("stored", a) /\ (a # "" => timers' = {})
    BY <1>4, StoreShape DEF Alone
  <2>2. AloneTop(Top)'
    BY <2>1 DEF AloneTop, Onward
  <2> QED
    BY <1>1, <1>3, <2>1, <2>2, AloneOnward
<1>5. CASE StoredDisabled
  <2>1. Done \/ Onward("configure", "")
    BY <1>5, StoredShape DEF Alone
  <2> QED
    BY <1>1, <1>3, <2>1, AloneDone, AloneOn
<1> QED
  BY <1>4, <1>5

LEMMA AloneConfigured ==
    ASSUME Alone, Configure
    PROVE  AloneInv'
<1>1. process' # "exiting"
  BY AloneRuns DEF MethodSteps
<1>2. "sys" \in unconfigured => "sys" \in modified \cup lost
  <2> DEFINE step == "configure"
  <2>1. At(step) /\ step # "after"
    BY DEF Configure
  <2> HIDE DEF step
  <2> QED
    BY <2>1, AloneAt
<1>3. MarksKept
  <2>1. \/ UNCHANGED <<modified, unconfigured, lost>>
        \/ /\ modified' = modified \ {"user"} /\ unconfigured' = unconfigured \ {"user"}
           /\ lost' = lost \ {"user"}
    BY DEF Configure
  <2> QED
    BY <1>2, <2>1 DEF MarksKept, UserChangesPending, Alone, AloneInv
<1>4. CASE Onward("after", "reconfigure") /\ Carries /\ timers' = {}
  <2>1. Top'.op = "reconfigure"
    <3>1. At("configure")
      BY DEF Configure
    <3>2. Top.at = "configure" /\ FineFor(Top, Top.asked)
      BY <3>1, TopFine DEF Alone
    <3> QED
      BY <1>4, <3>2 DEF FineFor, Carries
  <2>2. AloneTop(Top)'
    BY <1>4, <2>1 DEF AloneTop, Onward, Finders, Toggles
  <2> QED
    BY <1>1, <1>3, <1>4, <2>2, AloneOnward
<1>5. CASE Onward("update", "")
  BY <1>1, <1>3, <1>5, AloneOn
<1> QED
  BY <1>4, <1>5, ConfigureShape DEF Alone

\* No style is freed under a method.
LEMMA NothingFreed ==
    ASSUME Alone
    PROVE  ~UsesFreed
<1> SUFFICES ASSUME UsesFreed PROVE FALSE
  OBVIOUS
<1>1. At("after") /\ Top.op \in Toggles \cup {"uninstall"} /\ ~Top.valid
  BY DEF UsesFreed
<1>2. AloneTop(Top) /\ Top.at = "after"
  BY <1>1, AloneAt
<1>3. Top.op \in Finders
  BY <1>1 DEF Finders
<1> QED
  BY <1>1, <1>2, <1>3 DEF AloneTop

LEMMA AloneMethod ==
    ASSUME Alone, DaemonInv', MethodSteps
    PROVE  AloneInv'
BY AloneUpdated, AloneRebuilt, AloneFound, AloneInstalled, AloneAsked, AloneRemoved, AloneEnded,
   AloneAgain, AloneStored, AloneConfigured, NothingFreed DEF MethodSteps

\* What the helper changes is marked, or will be by the method that waits.
LEMMA AloneServed ==
    ASSUME Alone, NEW i \in DOMAIN stack, HelperServes(i)
    PROVE  AloneInv'
<1>1. /\ stack \in Seq(GoodFrames) /\ Len(stack) \in Nat /\ Len(stack) <= 1 /\ DOMAIN stack = 1 .. Len(stack)
      /\ i \in 1 .. Len(stack)
  BY DEF Alone, DaemonInv, StackOK, AloneInv, Quiet
<1>2. i = 1 /\ stack # <<>>
  <2> DEFINE k == Len(stack)
  <2>1. k \in Nat /\ k <= 1 /\ i \in 1 .. k
    BY <1>1
  <2> HIDE DEF k
  <2>2. i = 1 /\ k # 0
    BY <2>1
  <2> QED
    BY <2>2, <1>1 DEF k
<1>3. Top = stack[1] /\ Top.dir \in Dir
  BY <1>1, <1>2, TopGood DEF Alone, DaemonInv, GoodFrames, Frames
<1>4. Answered(i) /\ UNCHANGED daemonVars
  BY DEF HelperServes
<1>5. /\ Len(stack') = Len(stack) /\ stack' # <<>> /\ WaitInv'
      /\ \A j \in DOMAIN stack : SameFrame(stack'[j], stack[j]) /\ stack'[j].valid = stack[j].valid
  BY <1>4, AnsweredWait DEF Alone, daemonVars
<1>6. SameFrame(Top', Top) /\ Top'.valid = Top.valid
  <2>1. stack' \in Seq(GoodFrames)
    BY <1>4, AnsweredGood DEF Alone
  <2>2. Top' = stack'[1]
    BY <1>5, <2>1 DEF Top
  <2> QED
    BY <1>2, <1>3, <1>5, <2>2
<1>7. Quiet'
  <2>1. AloneTop(Top) /\ process # "exiting"
    BY <1>2 DEF Alone, AloneInv, Quiet
  <2>2. AloneTop(Top)'
    BY <1>4, <1>6, <2>1 DEF AloneTop, SameFrame, daemonVars
  <2> QED
    BY <1>1, <1>4, <1>5, <2>1, <2>2 DEF Quiet, daemonVars
<1>8. Pending(Top) => stack' # <<>> /\ Pending(Top)'
  BY <1>5, <1>6 DEF Pending, SameFrame
<1>9. Fine(Top) /\ AloneTop(Top)
  BY <1>2, FineTop DEF Alone, DaemonInv, WaitInv, AloneInv, Quiet
<1>10. UserChangesPending /\ SysPending /\ modified' = modified
  BY <1>4 DEF Alone, AloneInv, daemonVars
<1>11. lost' = IF "sys" \in unconfigured' THEN lost ELSE lost \ {"sys"}
  BY DEF HelperServes
<1> DEFINE there == IF Top.dir = "sys" THEN "user" ELSE "sys"
<1>12. CASE Top.asked = "install" /\ HelperInstall(Top.name)
  <2>1. unconfigured' = unconfigured \cup {"sys"} /\ Pending(Top)
    BY <1>9, <1>12 DEF HelperInstall, Changed, Fine, FineFor, Pending
  <2> QED
    BY <2>1, <1>7, <1>8, <1>10, <1>11 DEF AloneInv, UserChangesPending, SysPending
<1>13. CASE Top.asked = "uninstall" /\ HelperUninstall(Top.files)
  <2>1. unconfigured' = unconfigured \cup {"sys"} /\ "sys" \in modified
    BY <1>9, <1>13 DEF HelperUninstall, Changed, Fine, FineFor, AloneTop
  <2> QED
    BY <2>1, <1>7, <1>8, <1>10, <1>11 DEF AloneInv, UserChangesPending, SysPending
<1>14. CASE Top.asked = "move" /\ HelperMove(Top.files, there)
  <2>1. modified = Dir
    BY <1>9, <1>14 DEF Fine, FineFor, AloneTop
  <2> QED
    BY <2>1, <1>7, <1>10 DEF AloneInv, UserChangesPending, SysPending, Dir
<1>15. CASE Top.asked = "toggle" /\ HelperToggle(Top.files, StyleOf[Top.name], Top.op = "enable")
  <2> DEFINE flips == ToFlip(Top.files, Top.op = "enable")
  <2>1. unconfigured' = unconfigured \cup (IF flips = {} THEN {} ELSE {"sys"})
    BY <1>15 DEF HelperToggle, Changed
  <2>2. flips # {} => Pending(Top)
    BY <1>9, <1>15 DEF Fine, FineFor, Pending
  <2> HIDE DEF flips
  <2> QED
    BY <2>1, <2>2, <1>7, <1>8, <1>10, <1>11 DEF AloneInv, UserChangesPending, SysPending
<1>16. CASE Top.asked = "removeFile" /\ \E f \in In(disk, "sys") : HelperRemoveFile(f)
  <2>1. unconfigured' = unconfigured \cup {"sys"} /\ Pending(Top)
    BY <1>9, <1>16 DEF HelperRemoveFile, Changed, Fine, FineFor, Pending
  <2> QED
    BY <2>1, <1>7, <1>8, <1>10, <1>11 DEF AloneInv, UserChangesPending, SysPending
<1>17. CASE \/ HelperMoveFails(Top.files, there) \/ HelperToggleFails(Top.files, Top.op = "enable")
            \/ HelperSaveDisabled \/ HelperReconfigure
  <2>1. unconfigured' = unconfigured \/ unconfigured' = unconfigured \ {"sys"}
    BY <1>17 DEF HelperMoveFails, HelperToggleFails, HelperUndoes, HelperSaveDisabled, HelperReconfigure
  <2> QED
    BY <2>1, <1>7, <1>8, <1>10, <1>11 DEF AloneInv, UserChangesPending, SysPending
<1> QED
  BY <1>2, <1>3, <1>12, <1>13, <1>14, <1>15, <1>16, <1>17 DEF HelperServes

\* Steps that leave the stack.
LEMMA AloneUnmoved ==
    ASSUME Alone, UNCHANGED <<fonts, modified, timers, stack, unconfigured>>, lost \subseteq lost',
           process' = "exiting" => stack = <<>> /\ dirty' = {}
    PROVE  AloneInv'
<1>1. Top' = Top
  BY DEF Top
<1>2. AloneTop(Top) => AloneTop(Top)'
  BY <1>1 DEF AloneTop
<1>3. Pending(Top) => Pending(Top)'
  BY <1>1 DEF Pending
<1>4. Quiet'
  BY <1>2 DEF Alone, AloneInv, Quiet
<1>5. SysPending' /\ UserChangesPending'
  BY <1>3 DEF Alone, AloneInv, SysPending, UserChangesPending
<1> QED
  BY <1>4, <1>5 DEF AloneInv

LEMMA AloneInit == Init => AloneInv
<1> SUFFICES ASSUME Init PROVE AloneInv
  OBVIOUS
<1>1. stack = <<>> /\ process = "running" /\ unconfigured = {}
  BY DEF Init, InitWith
<1>2. Len(stack) = 0
  BY <1>1
<1> QED
  BY <1>1, <1>2 DEF AloneInv, Quiet, UserChangesPending, SysPending

LEMMA AloneNext ==
    ASSUME MaxDepth <= 1, Alone, DaemonInv', [Next]_vars
    PROVE  AloneInv'
<1>0. stack \in Seq(GoodFrames) /\ Len(stack) \in Nat /\ MaxDepth \in Nat
  BY FontDaemonAssumption DEF Alone, DaemonInv, StackOK
<1>1. CASE Calls \/ FontListTimeout
  <2>1. PICK m \in GoodFrames : Fresh(m) /\ stack' = <<m>> \o stack
    BY <1>1, NewShape DEF Alone
  <2>2. /\ LoopRuns /\ Len(stack) < MaxDepth
        /\ UNCHANGED <<helperVars, lists, timers, process, lost>>
    BY <1>1, NewShape DEF Alone
  <2>3. stack = <<>> /\ Len(stack) = 0
    <3> DEFINE k == Len(stack)
    <3>1. k \in Nat /\ k < MaxDepth
      BY <1>0, <2>2
    <3> HIDE DEF k
    <3>2. k = 0
      BY <3>1, <1>0
    <3> QED
      BY <3>2, <1>0 DEF k
  <2>4. Top' = m /\ Len(stack') = Len(stack) + 1 /\ stack' # <<>>
    BY <2>1, <2>2, PushedWait DEF Alone
  <2>5. Len(stack') = 1
    BY <2>3, <2>4
  <2>6. AloneTop(Top)'
    BY <2>1, <2>4 DEF AloneTop, Fresh, Finders, Toggles
  <2>7. process' = "running" /\ UNCHANGED <<unconfigured, modified, lost>>
    BY <2>2 DEF LoopRuns, helperVars, lists
  <2>8. Quiet'
    BY <2>5, <2>6, <2>7 DEF Quiet
  <2> QED
    BY <2>3, <2>7, <2>8 DEF Alone, AloneInv, SysPending, UserChangesPending
<1>2. CASE MethodSteps
  BY <1>2, AloneMethod
<1>3. CASE HelperSteps
  <2>1. ASSUME NEW i \in DOMAIN stack, HelperServes(i) PROVE AloneInv'
    BY <2>1, AloneServed
  <2>2. ASSUME NEW i \in DOMAIN stack, HelperRefuses(i) PROVE AloneInv'
    <3>1. Answered(i) /\ UNCHANGED <<helperVars, daemonVars, lost>>
      BY <2>2 DEF HelperRefuses
    <3>2. /\ Len(stack') = Len(stack) /\ stack' # <<>>
          /\ \A j \in DOMAIN stack : SameFrame(stack'[j], stack[j]) /\ stack'[j].valid = stack[j].valid
      BY <3>1, AnsweredWait DEF Alone, daemonVars
    <3>3. stack # <<>> /\ Top = stack[1] /\ 1 \in DOMAIN stack
      <4>1. stack # <<>>
        BY <2>2
      <4> QED
        BY <4>1, <1>0, TopGood DEF Alone, DaemonInv
    <3>4. stack' \in Seq(GoodFrames)
      BY <3>1, AnsweredGood DEF Alone
    <3>5. Top' = stack'[1]
      BY <3>2, <3>4 DEF Top
    <3>6. SameFrame(Top', Top) /\ Top'.valid = Top.valid
      BY <3>2, <3>3, <3>5
    <3>7. AloneTop(Top) => AloneTop(Top)'
      BY <3>1, <3>6 DEF AloneTop, SameFrame, daemonVars
    <3>8. Pending(Top) => Pending(Top)'
      BY <3>6 DEF Pending, SameFrame
    <3>9. Quiet'
      BY <3>1, <3>2, <3>3, <3>7 DEF Alone, AloneInv, Quiet, daemonVars
    <3> QED
      BY <3>1, <3>2, <3>8, <3>9 DEF Alone, AloneInv, SysPending, UserChangesPending, daemonVars, helperVars
  <2>3. CASE StartHelper \/ ExitHelper
    <3>1. UNCHANGED <<fonts, modified, timers, stack, unconfigured, process, dirty>> /\ lost \subseteq lost'
      BY <2>3 DEF StartHelper, ExitHelper, HelperStarts, HelperExits, daemonVars
    <3>2. process' = "exiting" => stack = <<>> /\ dirty' = {}
      BY <3>1 DEF Alone, AloneInv, Quiet
    <3> QED
      BY <3>1, <3>2, AloneUnmoved
  <2> QED
    BY <1>3, <2>1, <2>2, <2>3 DEF HelperSteps
<1>4. CASE ConnectionsTimeout
  <2>1. LoopRuns /\ timers # {}
    BY <1>4 DEF ConnectionsTimeout
  <2>2. stack = <<>>
    BY <2>1 DEF LoopRuns, Waits, Alone, AloneInv, Quiet, AloneTop
  <2>3. UNCHANGED <<fonts, modified, timers, stack, unconfigured>> /\ lost' = lost /\ dirty' = {}
    BY <1>4 DEF ConnectionsTimeout
  <2> QED
    BY <2>2, <2>3, AloneUnmoved
<1>5. CASE Exit \/ Killed
  <2>1. stack' = <<>> /\ process' = "gone" /\ lost' = lost \cup unconfigured /\ unconfigured' = unconfigured
    BY <1>5 DEF Exit, Killed, Ended
  <2>2. Len(stack') = 0
    BY <2>1
  <2> QED
    BY <2>1, <2>2 DEF AloneInv, Quiet, SysPending, UserChangesPending
<1>6. CASE Start
  <2>1. stack = <<>> /\ stack' = stack /\ process' = "running" /\ UNCHANGED <<unconfigured, modified, lost>>
    BY <1>6 DEF Start, Alone, DaemonInv, StackOK
  <2>2. Len(stack') = 0
    BY <2>1
  <2> QED
    BY <2>1, <2>2 DEF Alone, AloneInv, Quiet, SysPending, UserChangesPending
<1>7. CASE (\E p \in Clients : ClientDies(p)) \/ (\E f \in File : OutsideChange(f)) \/ UNCHANGED vars
  <2>1. UNCHANGED <<fonts, modified, timers, stack, unconfigured, process, dirty, lost>>
    BY <1>7 DEF ClientDies, OutsideChange, vars, lists, helperVars
  <2>2. process' = "exiting" => stack = <<>> /\ dirty' = {}
    BY <2>1 DEF Alone, AloneInv, Quiet
  <2> QED
    BY <2>1, <2>2, AloneUnmoved
<1> QED
  BY <1>1, <1>2, <1>3, <1>4, <1>5, <1>6, <1>7 DEF Next, Environment

LEMMA KnownInit == Init => KnownUser /\ KnownSys
<1> SUFFICES ASSUME NEW files \in Initial, InitWith(files) PROVE KnownUser /\ KnownSys
  BY DEF Init
<1>1. Hidden(cache) = {}
  BY DEF InitWith, Hidden, Visible
<1>2. fonts["user"] = In(files, "user") /\ cfg["user"] = In(Hidden(files), "user")
  BY DEF InitWith, Dir
<1>3. Hidden(fonts["user"]) = cfg["user"]
  BY <1>2 DEF Hidden, In
<1>4. helper = NoHelper /\ process = "running"
  BY DEF InitWith
<1> QED
  BY <1>1, <1>3, <1>4 DEF KnownUser, KnownSys, NoHelper

\* What holds of a daemon that does one thing at a time, and what its steps do.
LEMMA AloneHolds ==
    ASSUME MaxDepth <= 1
    PROVE  Spec => []Alone
<1>1. Init => Alone
  BY InvInit, WaitInit, AloneInit DEF Alone
<1>2. Alone /\ [Next]_vars => Alone'
  <2> SUFFICES ASSUME Alone, [Next]_vars PROVE Alone'
    OBVIOUS
  <2>1. DaemonInv' /\ WaitInv'
    BY InvNext, WaitNext DEF Alone
  <2>2. AloneInv'
    BY <2>1, AloneNext
  <2> QED
    BY <2>1, <2>2 DEF Alone
<1> QED
  BY <1>1, <1>2, PTL DEF Spec

\* While no method runs on top of one that waits, the folder of the user is marked from
\* the first change of a request until fc-cache has run there (Folder.cpp:332).
THEOREM UserChangeStaysMarked ==
    ASSUME MaxDepth <= 1
    PROVE  Spec => []UserChangesPending
<1>1. Alone => UserChangesPending
  BY DEF Alone, AloneInv
<1> QED
  BY <1>1, AloneHolds, PTL

\* While no method runs on top of one that waits, the folder of the system is marked once
\* the helper has changed it, or the method that asked for the change has not ended and will
\* mark it (FontInst.cpp:398).
THEOREM SystemChangeStaysMarked ==
    ASSUME MaxDepth <= 1
    PROVE  Spec => []SysChangesPending
<1>1. Alone => SysChangesPending
  <2> SUFFICES ASSUME Alone PROVE SysChangesPending
    OBVIOUS
  <2>1. SysPending
    BY DEF Alone, AloneInv
  <2>2. ASSUME stack # <<>>, Pending(Top) PROVE \E i \in DOMAIN stack : stack[i].asked # ""
    <3>1. Fine(Top) /\ Top = stack[1] /\ Len(stack) \in Nat /\ Len(stack) > 0
      BY <2>2, FineTop, TopGood DEF Alone, DaemonInv, WaitInv
    <3>2. 1 \in DOMAIN stack
      BY <3>1 DEF Alone, DaemonInv, StackOK
    <3> QED
      BY <2>2, <3>1, <3>2 DEF Pending, Fine, FineFor
  <2> QED
    BY <2>1, <2>2 DEF SysPending, SysChangesPending
<1> QED
  BY <1>1, AloneHolds, PTL

\* While no method runs on top of one that waits, a disabled font that stays on disk stays
\* in disabledfonts.xml, or will be written there, unless its style is enabled or disabled
\* without it, or the daemon is killed first (Folder.cpp:115, Helper.cpp:367).
THEOREM DisabledFontsStayKnown ==
    ASSUME MaxDepth <= 1
    PROVE  Spec => DisabledStaysKnown
<1> DEFINE Known == KnownUser /\ KnownSys
<1>1. Alone /\ Known /\ [Next]_vars => Known' /\ UserDisabledKept /\ SysDisabledKept
  <2> SUFFICES ASSUME Alone, Known, [Next]_vars
               PROVE  Known' /\ UserDisabledKept /\ SysDisabledKept
    OBVIOUS
  <2>1. process = "exiting" => dirty = {}
    BY DEF Alone, AloneInv, Quiet
  <2>2. UserStepOK
    BY <2>1, UserNext DEF Alone
  <2>3. SysStepOK
    BY SysNext DEF Alone
  <2> QED
    BY <2>2, <2>3 DEF UserStepOK, SysStepOK
<1>2. Init => Known
  BY KnownInit
<1>3. Alone /\ Known /\ [Next]_vars => [UserDisabledKept /\ SysDisabledKept]_vars
  BY <1>1
<1>4. Alone /\ Known /\ [Next]_vars => Known'
  BY <1>1
<1> HIDE DEF Known
<1> QED
  BY <1>2, <1>3, <1>4, AloneHolds, PTL DEF Spec, DisabledStaysKnown

\* The disabled fonts of the system, whatever is nested: only a method that enables or
\* disables the style, and has asked the helper to, takes them from the file.
THEOREM SystemFontsStayKnown == Spec => [][SysDisabledKept]_vars
<1>1. DaemonInv /\ WaitInv /\ KnownSys /\ [Next]_vars => KnownSys' /\ SysDisabledKept
  BY SysNext DEF SysStepOK
<1>2. DaemonInv /\ WaitInv /\ KnownSys /\ [Next]_vars => [SysDisabledKept]_vars
  BY <1>1
<1>3. Init => KnownSys
  BY KnownInit
<1> QED
  BY <1>1, <1>2, <1>3, WaitHolds, PTL DEF Spec

-----------------------------------------------------------------------------
(* The copy of a client while nothing is nested.                           *)

Copies == heard = All(fonts)

LEMMA CopyUnmoved ==
    ASSUME Copies, UNCHANGED <<fonts, heard>>
    PROVE  Copies'
BY DEF Copies, All

\* What is told of a folder is what happens to its list.
LEMMA CopyTold ==
    ASSUME DaemonInv, Copies, NEW d \in Dir, NEW kept, NEW A, NEW R,
           fonts' = [fonts EXCEPT ![d] = kept], kept = (fonts[d] \cup A) \ R,
           R \subseteq In(File, d), Broadcast(A, R)
    PROVE  Copies'
<1>1. /\ fonts \in [Dir -> SUBSET File] /\ "user" \in Dir /\ "sys" \in Dir
      /\ \A e \in Dir : fonts[e] \subseteq In(File, e)
  BY DEF DaemonInv, ListsOK, Dir
<1>2. heard' = (All(fonts) \cup A) \ R
  BY DEF Copies, Broadcast
<1>3. \A e \in Dir : fonts'[e] = IF e = d THEN kept ELSE fonts[e]
  BY <1>1
<1>4. \A e \in Dir : e # d => fonts[e] \cap R = {}
  BY <1>1 DEF In
<1>5. CASE d = "user"
  BY <1>1, <1>2, <1>3, <1>4, <1>5 DEF Copies, All
<1>6. CASE d = "sys"
  BY <1>1, <1>2, <1>3, <1>4, <1>6 DEF Copies, All
<1> QED
  BY <1>5, <1>6 DEF Dir

LEMMA CopyRebuilt ==
    ASSUME Alone, Copies, ~behind, RebuildLists
    PROVE  Copies' \/ behind'
<1>1. Top.at = "rebuild" /\ Top.old = fonts
  <2> DEFINE step == "rebuild"
  <2>1. At(step)
    BY DEF RebuildLists
  <2> HIDE DEF step
  <2>2. AloneTop(Top) /\ Top.at = step
    BY <2>1, AloneAt
  <2> QED
    BY <2>2 DEF AloneTop, step
<1>2. CASE Top.op = "list"
  BY <1>1, <1>2, CopyUnmoved DEF RebuildLists
<1>3. CASE Top.op # "list"
  <2> DEFINE A == All(fonts')
             B == All(fonts)
  <2>1. Broadcast(A \ B, B \ A)
    BY <1>1, <1>3 DEF RebuildLists
  <2>2. heard = B
    BY DEF Copies
  <2> HIDE DEF A, B
  <2>3. heard' = A
    BY <2>1, <2>2 DEF Broadcast
  <2> QED
    BY <2>3 DEF A, Copies
<1> QED
  BY <1>2, <1>3

LEMMA CopyAdded ==
    ASSUME DaemonInv, Copies, Added({Installed}), Top.dir \in Dir
    PROVE  Copies'
<1> DEFINE d == Top.dir
           kept == fonts[d] \cup {Installed}
<1>1. fonts' = [fonts EXCEPT ![d] = kept] /\ Broadcast({Installed}, {})
  BY DEF Added
<1>2. kept = (fonts[d] \cup {Installed}) \ {} /\ {} \subseteq In(File, d)
  OBVIOUS
<1> HIDE DEF d, kept
<1> QED
  BY <1>1, <1>2, CopyTold DEF d

LEMMA CopyUninstalled ==
    ASSUME DaemonInv, Copies, UninstallUser
    PROVE  Copies'
<1>1. At("body") /\ Top.dir = "user"
  BY DEF UninstallUser
<1>2. Top.files \subseteq In(File, "user")
  BY <1>1, AtGood
<1>3. PICK gone \in SUBSET Top.files :
        fonts' = [fonts EXCEPT !["user"] = @ \ gone] /\ Broadcast({}, gone)
  BY Zenon DEF UninstallUser
<1> DEFINE d == "user"
           kept == fonts[d] \ gone
<1>4. d \in Dir /\ fonts' = [fonts EXCEPT ![d] = kept] /\ gone \subseteq In(File, d)
  BY <1>2, <1>3 DEF Dir
<1>5. kept = (fonts[d] \cup {}) \ gone
  OBVIOUS
<1> HIDE DEF d, kept
<1> QED
  BY <1>3, <1>4, <1>5, CopyTold

\* toggle() in either folder, with the whole style in its hands.
LEMMA CopyToggled ==
    ASSUME DaemonInv, Copies, Top.op \in Toggles, NEW d \in Dir, Top.dir = d, Toggled(WithFlipped(d)),
           Top.files = OfStyle(fonts[d], StyleOf[Top.name]), Top.files \subseteq In(File, d)
    PROVE  Copies' \/ KeptRemoved
<1> DEFINE files == Top.files
           flipped == Flipped(files, Enables)
           kept == WithFlipped(d)
<1>1. fonts' = [fonts EXCEPT ![d] = kept] /\ Broadcast(flipped, files)
  BY DEF Toggled
<1>2. kept = (fonts[d] \ files) \cup flipped
  BY DEF WithFlipped
<1>3. flipped \cap files = {} \/ KeptRemoved
  BY DEF KeptRemoved
<1>4. files \subseteq In(File, d)
  OBVIOUS
<1> HIDE DEF files, flipped, kept
<1>5. ASSUME flipped \cap files = {} PROVE kept = (fonts[d] \cup flipped) \ files
  BY <1>2, <1>5
<1> QED
  BY <1>1, <1>3, <1>4, <1>5, CopyTold

LEMMA CopyToggledUser ==
    ASSUME Alone, Copies, ToggleUser
    PROVE  Copies' \/ KeptRemoved
<1>1. At("body") /\ Top.op \in Toggles /\ Top.dir = "user"
  BY DEF ToggleUser
<1>2. AloneTop(Top) /\ Top.at = "body" /\ Top.files \subseteq In(File, "user")
  BY <1>1, AloneBody, AtGood DEF Alone
<1>3. Top.files = OfStyle(fonts["user"], StyleOf[Top.name])
  BY <1>1, <1>2 DEF AloneTop, Finders
<1>4. Toggled(WithFlipped("user")) \/ UNCHANGED <<fonts, heard>>
  BY DEF ToggleUser
<1>5. "user" \in Dir /\ DaemonInv
  BY DEF Dir, Alone
<1> DEFINE d == "user"
<1>6. /\ d \in Dir /\ Top.dir = d /\ (Toggled(WithFlipped(d)) \/ UNCHANGED <<fonts, heard>>)
      /\ Top.files = OfStyle(fonts[d], StyleOf[Top.name]) /\ Top.files \subseteq In(File, d)
  BY <1>1, <1>2, <1>3, <1>4, <1>5
<1> HIDE DEF d
<1> QED
  BY <1>1, <1>5, <1>6, CopyToggled, CopyUnmoved

\* After the helper, the method still has the style it found.
LEMMA AloneAfter ==
    ASSUME Alone, At("after"), Top.op \in Finders, Top.op # "move"
    PROVE  /\ Top.at = "after" /\ (Top.op # "removeFile" => Top.dir = "sys") /\ Top.valid
           /\ Top.files = OfStyle(fonts[Top.dir], StyleOf[Top.name])
           /\ Top.files \subseteq In(File, Top.dir)
<1> DEFINE step == "after"
<1>1. At(step)
  OBVIOUS
<1> HIDE DEF step
<1>2. AloneTop(Top) /\ Top.at = step
  BY <1>1, AloneAt
<1>3. Top.at = "after"
  BY <1>2 DEF step
<1>4. Top \in GoodFrames /\ FineFor(Top, Top.asked)
  BY <1>1, TopFine DEF Alone
<1>5. Top.op # "removeFile" => Top.dir = "sys"
  BY <1>3, <1>4 DEF FineFor, GoodFrames, Finders
<1>6. Top.files \subseteq In(File, Top.dir)
  BY <1>4 DEF GoodFrames
<1> QED
  BY <1>2, <1>3, <1>5, <1>6 DEF AloneTop

LEMMA CopyAfter ==
    ASSUME Alone, Copies, UninstallAfter \/ ToggleAfter
    PROVE  Copies' \/ KeptRemoved
<1>1. At("after") /\ Top.op \in Finders /\ Top.op \notin {"move", "removeFile"}
  BY DEF UninstallAfter, ToggleAfter, Finders, Toggles
<1>2. /\ Top.dir = "sys" /\ Top.valid
      /\ Top.files = OfStyle(fonts[Top.dir], StyleOf[Top.name])
      /\ Top.files \subseteq In(File, Top.dir)
  BY <1>1, AloneAfter
<1> DEFINE d == "sys"
<1>3. /\ d \in Dir /\ DaemonInv /\ Top.dir = d
      /\ Top.files = OfStyle(fonts[d], StyleOf[Top.name]) /\ Top.files \subseteq In(File, d)
  BY <1>2 DEF Dir, Alone
<1>4. UninstallAfter => /\ fonts' = [fonts EXCEPT ![d] = @ \ OfStyle(@, StyleOf[Top.name])]
                        /\ Broadcast({}, Top.files)
  BY DEF UninstallAfter
<1>5. ToggleAfter => Top.op \in Toggles /\ Toggled(WithFlipped(d))
  BY <1>2 DEF ToggleAfter
<1> HIDE DEF d
<1>6. CASE UninstallAfter
  <2> DEFINE kept == fonts[d] \ Top.files
  <2>1. fonts' = [fonts EXCEPT ![d] = kept] /\ Broadcast({}, Top.files)
    BY <1>3, <1>4, <1>6
  <2>2. kept = (fonts[d] \cup {}) \ Top.files
    OBVIOUS
  <2> HIDE DEF kept
  <2> QED
    BY <1>3, <2>1, <2>2, CopyTold
<1>7. CASE ToggleAfter
  BY <1>3, <1>5, <1>7, CopyToggled
<1> QED
  BY <1>6, <1>7

LEMMA HeardStep ==
    ASSUME Alone, [Next]_vars, ~behind, Copies
    PROVE  Copies' \/ behind' \/ KeptRemoved
<1>0. DaemonInv /\ WaitInv
  BY DEF Alone
<1>1. CASE Calls \/ FontListTimeout
  <2>1. fonts' = fonts
    BY <1>0, <1>1, NewShape DEF lists
  <2>2. heard' = heard \/ behind'
    BY <1>1 DEF Calls, CallFontMethod, CallList, CallReconfigure, CallSaveDisabled, FontListTimeout
  <2> QED
    BY <2>1, <2>2, CopyUnmoved
<1>2. CASE MethodSteps
  <2>1. CASE RebuildLists
    BY <2>1, CopyRebuilt
  <2>2. CASE Install \/ InstallAfter
    <3>1. Added({Installed}) \/ UNCHANGED <<fonts, heard>>
      BY <2>2, Zenon DEF Install, InstallAfter
    <3>2. Top.dir \in Dir
      BY <1>0, <2>2, AtGood DEF Install, InstallAfter
    <3> QED
      BY <1>0, <3>1, <3>2, CopyAdded, CopyUnmoved
  <2>4. CASE UninstallUser
    BY <1>0, <2>4, CopyUninstalled
  <2>5. CASE ToggleUser
    BY <2>5, CopyToggledUser
  <2>6. CASE UninstallAfter \/ ToggleAfter
    BY <2>6, CopyAfter
  <2>7. CASE Reply
    <3>1. (heard' = heard \/ heard' = heard \cup All(fonts)) /\ fonts' = fonts
      BY <2>7 DEF Reply, lists
    <3> QED
      BY <3>1 DEF Copies, All
  <2>8. CASE UpdateFontList \/ FindFont \/ UninstallSystem \/ Move \/ MoveAfter \/ ToggleSystem
             \/ RemoveFile \/ RemoveFileAfter \/ UsesFreed \/ StoreDisabled \/ StoredDisabled
             \/ Configure \/ ConfigureAfter
    <3>1. UNCHANGED <<fonts, heard>>
      BY <2>8 DEF UpdateFontList, FindFont, UninstallSystem, Move, MoveAfter, ToggleSystem,
                  RemoveFile, RemoveFileAfter, UsesFreed, StoreDisabled, StoredDisabled, Configure,
                  ConfigureAfter, lists
    <3> QED
      BY <3>1, CopyUnmoved
  <2> QED
    BY <1>2, <2>1, <2>2, <2>4, <2>5, <2>6, <2>7, <2>8 DEF MethodSteps
<1>3. CASE HelperSteps
  BY <1>3, CopyUnmoved DEF HelperSteps, HelperServes, HelperRefuses, StartHelper, ExitHelper, daemonVars
<1>4. CASE Exit \/ Killed
  BY <1>4 DEF Exit, Killed, Ended
<1>5. CASE Start
  BY <1>0, <1>5 DEF Start, WaitInv
<1>6. CASE ConnectionsTimeout \/ (\E p \in Clients : ClientDies(p)) \/ (\E f \in File : OutsideChange(f))
           \/ UNCHANGED vars
  <2>1. UNCHANGED <<fonts, heard>>
    BY <1>6 DEF ConnectionsTimeout, ClientDies, OutsideChange, vars, lists
  <2> QED
    BY <2>1, CopyUnmoved
<1> QED
  BY <1>1, <1>2, <1>3, <1>4, <1>5, <1>6 DEF Next, Environment

\* While no method runs on top of one that waits, the broadcasts keep a client's copy equal
\* to the daemon's lists in both folders, except when toggle() announces a file that the
\* style keeps as well as its removal (FontInst.cpp:813).
THEOREM ClientFollowsLists ==
    ASSUME MaxDepth <= 1
    PROVE  Spec => HeardFollows
<1>1. Alone /\ [Next]_vars =>
        [~behind /\ heard = All(fonts) => heard' = All(fonts') \/ behind' \/ KeptRemoved]_vars
  BY HeardStep DEF Copies
<1> QED
  BY <1>1, AloneHolds, PTL DEF Spec, HeardFollows

=============================================================================
