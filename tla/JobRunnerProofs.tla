-------------------------- MODULE JobRunnerProofs --------------------------
(***************************************************************************)
(* Proofs about JobRunner: type correctness, then the invariant that a     *)
(* dialog which did not inherit an earlier one's leftovers has at most one *)
(* request out and applies its answer to the item it was sent for.         *)
(***************************************************************************)
EXTENDS JobRunner, SequenceTheorems, FiniteSetTheorems, TLAPS

-----------------------------------------------------------------------------
(* Facts about the item lists.                                             *)

(* qSort rearranges the items it is given.                                 *)
LEMMA SortedType ==
    ASSUME NEW items \in Seq(Items)
    PROVE  Sorted(items) \subseteq Seq(Items)
<1> SUFFICES ASSUME NEW p \in Bijection(DOMAIN items, DOMAIN items)
             PROVE  [k \in DOMAIN items |-> items[p[k]]] \in Seq(Items)
    BY DEF Sorted
<1>1. p \in [DOMAIN items -> DOMAIN items]
    BY DEF Bijection, Injection
<1>2. /\ Len(items) \in Nat /\ DOMAIN items = 1..Len(items)
      /\ \A k \in DOMAIN items : items[k] \in Items
    BY LenProperties, ElementOfSeq
<1>3. [k \in DOMAIN items |-> items[p[k]]] \in [1..Len(items) -> Items]
    BY <1>1, <1>2
<1> QED
    BY <1>2, <1>3, SeqDef

(* The entries addEnableActions inserts are items.                         *)
LEMMA EnableActionsType ==
    ASSUME NEW items \in Seq(Items)
    PROVE  WithEnableActions(items) \subseteq Seq(Items)
<1> DEFINE disabled == {k \in DOMAIN items : items[k].isDisabled}
           size == Len(items) + Cardinality(disabled)
<1>1. /\ Len(items) \in Nat /\ DOMAIN items = 1..Len(items)
      /\ \A k \in DOMAIN items : items[k] \in Items
    BY LenProperties, ElementOfSeq
<1>2. size \in Nat
  <2>1. IsFiniteSet(1..Len(items))
      BY <1>1, FS_Interval
  <2>2. IsFiniteSet(disabled)
      BY <1>1, <2>1, FS_Subset
  <2>3. Cardinality(disabled) \in Nat
      BY <2>2, FS_CardinalityType
  <2> QED
      BY <1>1, <2>3
<1>3. Range(items) \cup {Marker(i) : i \in Range(items)} \subseteq Items
  <2>1. Range(items) \subseteq Items
      BY <1>1 DEF Range
  <2>2. \A i \in Items : Marker(i) \in Items
      BY DEF Marker, Items
  <2> QED
      BY <2>1, <2>2
<1>4. ASSUME NEW t \in WithEnableActions(items)
      PROVE  t \in Seq(Items)
  <2>1. t \in [1..size -> Range(items) \cup {Marker(i) : i \in Range(items)}]
      BY DEF WithEnableActions
  <2>2. t \in [1..size -> Items]
      BY <2>1, <1>3
  <2> HIDE DEF size
  <2> QED
      BY <2>2, <1>2, SeqDef
<1> QED
    BY <1>4

LEMMA ItemListsType ==
    ASSUME NEW j \in Jobs
    PROVE  ItemLists(j) \subseteq Seq(Items)
<1>1. j.items \in Seq(Items)
    BY JobsAssumption
<1> QED
    BY <1>1, SortedType, EnableActionsType DEF ItemLists

-----------------------------------------------------------------------------
(* Type correctness.                                                       *)

(* Passing over a font's metrics never leaves the list.                    *)
LEMMA AfterItemRange ==
    ASSUME urls \in Seq(Items), NEW i \in 1..Len(urls)
    PROVE  /\ AfterItem(i) \in 1..End /\ AfterItem(i) > i
           /\ Advance(i) \in 1..End /\ Advance(i) > i
<1>1. Len(urls) \in Nat /\ DOMAIN urls = 1..Len(urls)
    BY LenProperties
<1>2. AfterMetrics(i) \in 1..End /\ AfterMetrics(i) > i
    BY <1>1 DEF AfterMetrics, IsMetricOf, End
<1> QED
    BY <1>1, <1>2 DEF AfterItem, Advance, End

LEMMA RequestType ==
    ASSUME DialogTypeOK, HistoryTypeOK,
           NEW method \in ItemMethods \cup {"reconfigure"}, NEW pos \in Nat,
           method = "reconfigure" \/ pos \in 1..Len(urls),
           NEW force \in BOOLEAN, NEW afm \in BOOLEAN
    PROVE  Request(method, pos, force, afm) \in Requests
<1>1. method # "reconfigure" => urls[pos] \in Items
    BY ElementOfSeq DEF DialogTypeOK
<1>2. Place(method, pos) \in Folders
    BY <1>1 DEF Place, Items, DialogTypeOK
<1>3. InstallsMetrics(method, pos) \in BOOLEAN
    BY DEF InstallsMetrics
<1>4. job \in Nat
    BY JobsAssumption DEF HistoryTypeOK
<1> QED
    BY <1>2, <1>3, <1>4 DEF Request, Requests, Pids

LEMMA MethodType ==
    ASSUME NEW i
    PROVE  Method(i) \in ItemMethods
BY DEF Method, ItemMethods

LEMMA SendItemType ==
    ASSUME TypeOK, NEW i \in 1..Len(urls), NEW afm \in BOOLEAN, SendItem(i, afm)
    PROVE  requests' \in Seq(Requests) /\ dispatched' \in Seq(1..Len(urls))
<1>1. Len(urls) \in Nat
    BY LenProperties DEF TypeOK, DialogTypeOK
<1>2. i \in Nat
    BY <1>1
<1>3. Request(Method(i), i, FALSE, afm) \in Requests
    BY <1>2, MethodType, RequestType, Zenon DEF TypeOK
<1> QED
    BY <1>3, AppendProperties, Zenon DEF SendItem, Send, TypeOK, BackendTypeOK, HistoryTypeOK

\* What doNext() assigns keeps its type.
DoNextTyped ==
    /\ requests' \in Seq(Requests)
    /\ cmd' \in Cmds /\ it' \in 1..End' /\ prev' \in 1..End'
    /\ isModified' \in BOOLEAN /\ page' \in Pages /\ open' \in BOOLEAN
    /\ downloads' \in Seq(1..Len(urls')) /\ dispatched' \in Seq(1..Len(urls'))

LEMMA DoNextType ==
    ASSUME TypeOK, NEW i \in 1..End, NEW m \in BOOLEAN, NEW pg \in Pages,
           NEW frames \in Seq(1..Len(urls)), DoNext(i, m, pg, frames), urls' = urls
    PROVE  DoNextTyped
<1> USE DEF DoNextTyped
<1>1. Len(urls) \in Nat /\ End' = End
    BY LenProperties DEF TypeOK, DialogTypeOK, End
<1>2. CASE i = End /\ NeedsReconfigure(m)
  <2>1. Request("reconfigure", 0, cmd = "UPDATE", FALSE) \in Requests
      BY RequestType DEF TypeOK
  <2>2. requests' = Append(requests, Request("reconfigure", 0, cmd = "UPDATE", FALSE))
      BY <1>1, <1>2 DEF DoNext, Send
  <2>3. requests' \in Seq(Requests)
      BY <2>1, <2>2, AppendProperties, Zenon DEF TypeOK, BackendTypeOK
  <2> QED
      BY <1>1, <1>2, <2>3 DEF DoNext, TypeOK, DialogTypeOK, HistoryTypeOK, Cmds, End
<1>3. CASE i = End /\ ~NeedsReconfigure(m)
    BY <1>1, <1>3 DEF DoNext, TypeOK, BackendTypeOK, DialogTypeOK, HistoryTypeOK, End, KeepsOpen
<1>4. CASE i # End /\ cmd = "INSTALL" /\ urls[i].remote
  <2>1. i \in 1..Len(urls)
      BY <1>1, <1>4 DEF End
  <2>2. downloads' = Append(frames, i)
      BY <1>4 DEF DoNext
  <2>3. downloads' \in Seq(1..Len(urls))
      BY <2>1, <2>2, AppendProperties
  <2> QED
      BY <1>1, <1>4, <2>3 DEF DoNext, TypeOK, BackendTypeOK, DialogTypeOK, HistoryTypeOK
<1>5. CASE i # End /\ ~(cmd = "INSTALL" /\ urls[i].remote)
  <2>1. i \in 1..Len(urls)
      BY <1>1, <1>5 DEF End
  <2>2. SendItem(i, CreateAfm(i)) /\ CreateAfm(i) \in BOOLEAN
      BY <1>5 DEF DoNext, CreateAfm
  <2>3. requests' \in Seq(Requests) /\ dispatched' \in Seq(1..Len(urls))
      BY <2>1, <2>2, SendItemType
  <2> QED
      BY <1>1, <1>5, <2>3 DEF DoNext, TypeOK, DialogTypeOK
<1> QED
    BY <1>2, <1>3, <1>4, <1>5

LEMMA ProceedType ==
    ASSUME TypeOK, NEW result, NEW i \in 1..End, NEW pg \in Pages,
           NEW frames \in Seq(1..Len(urls)), Proceed(result, i, pg, frames), urls' = urls
    PROVE  /\ DoNextTyped
           /\ done' \subseteq 1..Len(urls')
<1>1. Len(urls) \in Nat /\ End' = End /\ End \in 1..End
    BY LenProperties DEF TypeOK, DialogTypeOK, End
<1>2. i # End => i \in 1..Len(urls) /\ NextItem(i) \in 1..End /\ Advance(i) \in 1..End
    BY <1>1, AfterItemRange DEF NextItem, End, TypeOK, DialogTypeOK
<1>3. isModified \in BOOLEAN /\ "ERROR" \in Pages /\ "SKIP" \in Pages
    BY DEF TypeOK, DialogTypeOK, Pages
<1>4. done' \subseteq 1..Len(urls')
    BY <1>2 DEF Proceed, TypeOK, HistoryTypeOK
<1>5. CASE i = End /\ DoNext(End, isModified, pg, frames)
    BY <1>1, <1>3, <1>4, <1>5, DoNextType
<1>6. CASE i # End /\ DoNext(NextItem(i), TRUE, pg, frames)
    BY <1>2, <1>4, <1>6, DoNextType
<1>7. CASE i # End /\ DoNext(Advance(i), isModified, pg, frames)
    BY <1>2, <1>3, <1>4, <1>7, DoNextType
<1>8. CASE DoNext(End, isModified, "ERROR", frames)
    BY <1>1, <1>3, <1>4, <1>8, DoNextType
<1>9. CASE /\ it' = i /\ page' = "SKIP"
           /\ prev' = IF Resumed(frames) THEN i ELSE prev
           /\ downloads' = frames
           /\ UNCHANGED <<requests, cmd, isModified, open, dispatched, done>>
    BY <1>1, <1>3, <1>4, <1>9
       DEF DoNextTyped, TypeOK, BackendTypeOK, DialogTypeOK, HistoryTypeOK
<1> QED
    BY <1>5, <1>6, <1>7, <1>8, <1>9 DEF Proceed

LEMMA DbusStatusType ==
    ASSUME TypeOK, NEW result \in Results \cup {DownloadFailed},
           NEW frames \in Seq(1..Len(urls)), DbusStatus(result, frames), urls' = urls
    PROVE  /\ DoNextTyped
           /\ done' \subseteq 1..Len(urls')
           /\ lastStatus' \in Results \cup {DownloadFailed, NoStatus}
<1>1. it \in 1..End /\ page \in Pages /\ End' = End
    BY DEF TypeOK, DialogTypeOK, End
<1>2. CASE cmd = "UPDATE"
    BY <1>1, <1>2
       DEF DoNextTyped, DbusStatus, TypeOK, BackendTypeOK, DialogTypeOK, HistoryTypeOK, Pages
<1>3. CASE cmd # "UPDATE" /\ cancelClicked
    BY <1>1, <1>3
       DEF DoNextTyped, DbusStatus, TypeOK, BackendTypeOK, DialogTypeOK, HistoryTypeOK, Pages
<1>4. CASE cmd # "UPDATE" /\ ~cancelClicked
  <2>1. lastStatus' = result /\ Proceed(result, it, page, frames)
      BY <1>4 DEF DbusStatus
  <2> QED
      BY <1>1, <2>1, ProceedType
<1> QED
    BY <1>2, <1>3, <1>4

(* The daemon's stack of calls.                                            *)
LEMMA TopPopType ==
    ASSUME BackendTypeOK, handling # <<>>
    PROVE  Top \in Requests /\ Pop \in Seq(Requests)
<1>1. Len(handling) \in Nat \ {0} /\ \A i \in 1..Len(handling) : handling[i] \in Requests
    BY EmptySeq, ElementOfSeq DEF BackendTypeOK
<1>2. Top \in Requests
    BY <1>1 DEF Top
<1>3. \A i \in 1..(Len(handling) - 1) : handling[i] \in Requests
    BY <1>1
<1>4. Pop \in Seq(Requests)
    BY <1>1, <1>3, SubSeqProperties DEF Pop
<1> QED
    BY <1>2, <1>4

LEMMA PopLength ==
    ASSUME BackendTypeOK, handling # <<>>
    PROVE  /\ Len(handling) \in Nat \ {0} /\ Len(Pop) = Len(handling) - 1
           /\ \A i \in 1..(Len(handling) - 1) : Pop[i] = handling[i]
<1> DEFINE n == Len(handling)
<1>1. n \in Nat \ {0} /\ \A i \in 1..n : handling[i] \in Requests
    BY EmptySeq, ElementOfSeq DEF BackendTypeOK
<1>2. \A i \in 1..(n - 1) : handling[i] \in Requests
    BY <1>1
<1>3. Pop = SubSeq(handling, 1, n - 1)
    BY DEF Pop
<1> HIDE DEF n
<1>4. /\ Len(Pop) = IF 1 <= n - 1 THEN (n - 1) - 1 + 1 ELSE 0
      /\ \A i \in 1..((n - 1) - 1 + 1) : Pop[i] = handling[1 + i - 1]
    BY <1>1, <1>2, <1>3, SubSeqProperties
<1>5. Len(Pop) = n - 1
    BY <1>1, <1>4
<1>6. ASSUME NEW i \in 1..(n - 1)
      PROVE  Pop[i] = handling[i]
  <2>1. i \in 1..((n - 1) - 1 + 1) /\ 1 + i - 1 = i
      BY <1>1
  <2> QED
      BY <1>4, <2>1
<1> QED
    BY <1>1, <1>5, <1>6 DEF n

LEMMA ReplyType ==
    ASSUME BackendTypeOK, NEW result \in Results, Top \in Requests, Reply(result)
    PROVE  signals' \in Seq(Signals)
<1>1. [kind |-> "status", result |-> result, of |-> Top] \in Signals
    BY DEF Signals, Statuses
<1> QED
    BY <1>1, AppendProperties DEF Reply, BackendTypeOK

LEMMA BackendNextType ==
    ASSUME BackendTypeOK, BackendNext
    PROVE  BackendTypeOK'
<1> USE DEF BackendTypeOK
<1>0. Len(handling) \in Nat
    BY LenProperties
<1>1. CASE ForeignRequest
  <2>1. foreign' \in 0..MaxForeign
      BY <1>1, BoundsAssumption DEF ForeignRequest
  <2>2. PICK m \in {"uninstall", "move", "reconfigure"}, f \in Folders :
            Send([method |-> m, pid |-> "other", job |-> 0, pos |-> 0, folder |-> f,
                  metric |-> FALSE, force |-> FALSE, createAfm |-> FALSE])
      BY <1>1 DEF ForeignRequest
  <2>3. requests' \in Seq(Requests)
    <3> DEFINE r == [method |-> m, pid |-> "other", job |-> 0, pos |-> 0, folder |-> f,
                     metric |-> FALSE, force |-> FALSE, createAfm |-> FALSE]
    <3>1. r \in Requests
        BY DEF Requests, ItemMethods, Pids
    <3>2. requests' = Append(requests, r)
        BY <2>2 DEF Send
    <3> HIDE DEF r
    <3> QED
        BY <3>1, <3>2, AppendProperties
  <2> QED
      BY <1>1, <2>1, <2>3 DEF ForeignRequest, daemonVars
<1>2. CASE Take
  <2>1. Head(requests) \in Requests /\ Tail(requests) \in Seq(Requests)
      BY <1>2, HeadTailProperties DEF Take
  <2>2. handling' \in Seq(Requests) /\ requests' \in Seq(Requests)
      BY <1>2, <2>1, AppendProperties DEF Take
  <2>3. Len(handling') = Len(handling) + 1
      BY <1>2, <2>1, AppendProperties DEF Take
  <2>4. waiting' \subseteq 1..Len(handling')
      BY <1>0, <1>2, <2>3 DEF Take
  <2> QED
      BY <1>2, <2>2, <2>4 DEF Take, boundVars
<1>3. ASSUME NEW result \in Results, handling # <<>>, Reply(result), handling' = Pop,
             waiting' = waiting \ {Len(handling)} \/ (waiting' = waiting /\ ~Begun)
      PROVE  /\ Top \in Requests /\ handling' \in Seq(Requests) /\ signals' \in Seq(Signals)
             /\ waiting' \subseteq 1..Len(handling')
  <2>1. Top \in Requests /\ Pop \in Seq(Requests)
      BY <1>3, TopPopType
  <2>2. signals' \in Seq(Signals)
      BY <1>3, <2>1, ReplyType
  <2>3. Len(handling') = Len(handling) - 1
      BY <1>3, PopLength
  <2>4. waiting' \subseteq 1..Len(handling')
    <3> DEFINE n == Len(handling)
    <3>1. waiting \subseteq 1..n /\ n \in Nat /\ n \notin waiting' /\ waiting' \subseteq waiting
        BY <1>0, <1>3 DEF Begun
    <3>2. Len(handling') = n - 1
        BY <2>3
    <3> HIDE DEF n
    <3> QED
        BY <3>1, <3>2
  <2> QED
      BY <1>3, <2>1, <2>2, <2>4
<1>4. CASE AnswerOk
  <2>1. /\ Top \in Requests /\ handling' \in Seq(Requests) /\ signals' \in Seq(Signals)
        /\ waiting' \subseteq 1..Len(handling')
      BY <1>3, <1>4 DEF AnswerOk, Executes, Results
  <2> QED
      BY <1>4, <2>1 DEF AnswerOk, ChangeUserFonts, Noted, boundVars
<1>5. CASE AnswerError
  <2>1. /\ Top \in Requests /\ handling' \in Seq(Requests) /\ signals' \in Seq(Signals)
        /\ waiting' \subseteq 1..Len(handling')
      BY <1>3, <1>5 DEF AnswerError, Executes, Results
  <2> QED
      BY <1>5, <2>1 DEF AnswerError, ChangeUserFonts, Noted, boundVars
<1>9. CASE AskHelper \/ Reconfigure
  <2>1. Len(handling) \in 1..Len(handling)
      BY <1>0, <1>9, EmptySeq DEF AskHelper, Reconfigure, Executes
  <2>2. waiting' \subseteq 1..Len(handling') /\ userModified' \in BOOLEAN
      BY <1>9, <2>1 DEF AskHelper, Reconfigure
  <2>3. unconfigured' \subseteq unconfigured
      BY <1>9 DEF AskHelper, Reconfigure
  <2> QED
      BY <1>9, <2>2, <2>3 DEF AskHelper, Reconfigure, busVars, boundVars
<1>10. CASE HelperAnswers
  <2>1. /\ Top \in Requests /\ handling' \in Seq(Requests) /\ signals' \in Seq(Signals)
        /\ waiting' \subseteq 1..Len(handling')
      BY <1>3, <1>10 DEF HelperAnswers, Executes, Results
  <2> QED
      BY <1>10, <2>1 DEF HelperAnswers, boundVars
<1>11. CASE AnswerReconfigure
  <2>1. /\ handling' \in Seq(Requests) /\ signals' \in Seq(Signals)
        /\ waiting' \subseteq 1..Len(handling')
      BY <1>3, <1>11 DEF AnswerReconfigure, Executes, Results
  <2> QED
      BY <1>11, <2>1 DEF AnswerReconfigure, boundVars
<1>6. CASE Die
  <2>1. PICK done1 \in SUBSET {r \in {handling[i] : i \in 1..Len(handling)} :
                                  r.method # "reconfigure"} :
            /\ acted' = acted \cup done1
            /\ unconfigured' = unconfigured \cup {r \in done1 : ChangesUserFonts(r)}
      BY <1>6 DEF Die
  <2>2. done1 \subseteq Requests
      BY ElementOfSeq
  <2>3. PICK k \in 0..Len(requests) : requests' = SubSeq(requests, k + 1, Len(requests))
      BY <1>6 DEF Die
  <2>4. requests' \in Seq(Requests)
    <3>1. /\ Len(requests) \in Nat
          /\ \A i \in 1..Len(requests) : requests[i] \in Requests
        BY LenProperties, ElementOfSeq
    <3>2. k + 1 \in Int /\ \A i \in (k + 1)..Len(requests) : requests[i] \in Requests
        BY <3>1
    <3> QED
        BY <2>3, <3>1, <3>2, SubSeqProperties
  <2>5. signals' \in Seq(Signals)
    <3>1. OwnerLost \in Signals
        BY DEF Signals
    <3> QED
        BY <1>6, <3>1, AppendProperties DEF Die
  <2>6. handling' \in Seq(Requests) /\ deaths' \in 0..MaxDeaths
      BY <1>6, BoundsAssumption, EmptySeq DEF Die
  <2> QED
      BY <1>6, <2>1, <2>2, <2>4, <2>5, <2>6 DEF Die
<1>7. CASE Start
    BY <1>7 DEF Start, busVars, boundVars
<1>8. CASE StartFails
    BY <1>8, BoundsAssumption, EmptySeq DEF StartFails, daemonVars
<1> QED
    BY <1>1, <1>2, <1>3, <1>4, <1>5, <1>6, <1>7, <1>8, <1>9, <1>10, <1>11
       DEF BackendNext, DaemonTurn

LEMMA FramesType ==
    ASSUME TypeOK, downloads # <<>>
    PROVE  Frame \in 1..Len(urls) /\ OtherFrames \in Seq(1..Len(urls))
<1>1. /\ downloads \in Seq(1..Len(urls))
      /\ Len(downloads) \in Nat \ {0}
      /\ \A k \in 1..Len(downloads) : downloads[k] \in 1..Len(urls)
    BY EmptySeq, ElementOfSeq DEF TypeOK, DialogTypeOK
<1>2. \A k \in 1..(Len(downloads) - 1) : downloads[k] \in 1..Len(urls)
    BY <1>1
<1>3. OtherFrames \in Seq(1..Len(urls))
    BY <1>1, <1>2, SubSeqProperties DEF OtherFrames
<1> QED
    BY <1>1, <1>3 DEF Frame

LEMMA SignalsType ==
    ASSUME BackendTypeOK, signals # <<>>
    PROVE  Head(signals) \in Signals /\ Tail(signals) \in Seq(Signals)
BY HeadTailProperties DEF BackendTypeOK

(* A step of the dialog leaves the daemon alone.                           *)
LEMMA BackendKept ==
    ASSUME BackendTypeOK, requests' \in Seq(Requests), signals' \in Seq(Signals),
           UNCHANGED <<daemonVars, boundVars>>
    PROVE  BackendTypeOK'
BY DEF BackendTypeOK, daemonVars, boundVars

\* The rest of the dialog, next to what doNext() assigns.
RestTyped ==
    /\ destIsSystem' \in Folders
    /\ autoSkip' \in BOOLEAN /\ cancelClicked' \in BOOLEAN
    /\ lastStatus' \in Results \cup {DownloadFailed, NoStatus}
    /\ doNextDue' \in BOOLEAN /\ checkDue' \in BOOLEAN /\ dontShow' \in BOOLEAN

HistoryTyped ==
    /\ job' \in 0..MaxExecs
    /\ late' \in BOOLEAN
    /\ overrun' \in {"no", "survived", "crashed"}
    /\ done' \subseteq 1..Len(urls')
    /\ stopped' \in BOOLEAN

LEMMA DialogKept ==
    ASSUME TypeOK, UNCHANGED <<daemonVars, boundVars, urls>>, DoNextTyped, RestTyped,
           HistoryTyped, signals' \in Seq(Signals)
    PROVE  TypeOK'
<1>1. BackendTypeOK'
    BY BackendKept DEF TypeOK, DoNextTyped
<1>2. urls' \in Seq(Items)
    BY DEF TypeOK, DialogTypeOK
<1>3. DialogTypeOK'
    BY <1>2, Zenon DEF DialogTypeOK, DoNextTyped, RestTyped
<1>4. HistoryTypeOK'
    BY Zenon DEF HistoryTypeOK, DoNextTyped, HistoryTyped
<1> QED
    BY <1>1, <1>3, <1>4 DEF TypeOK

\* Steps that leave these variables alone.
LEMMA StillTyped ==
    ASSUME TypeOK, UNCHANGED <<requests, cmd, urls, prev, isModified, downloads, dispatched>>,
           it' \in 1..End, page' \in Pages, open' \in BOOLEAN
    PROVE  DoNextTyped
BY DEF TypeOK, BackendTypeOK, DialogTypeOK, HistoryTypeOK, DoNextTyped, End

(* Every variable keeps its type: the iterator stays inside the list or at *)
(* its end, whatever order signals, timers, downloads and clicks come in.  *)
THEOREM TypeCorrect == Spec => []TypeOK
<1>1. Init => TypeOK
  <2> SUFFICES ASSUME Init
               PROVE  TypeOK
      OBVIOUS
  <2>1. BackendTypeOK
    <3>1. requests \in Seq(Requests) /\ handling \in Seq(Requests) /\ signals \in Seq(Signals)
        BY EmptySeq DEF Init, BackendInit
    <3>2. /\ waiting = {} /\ acted = {} /\ unconfigured = {}
          /\ alive \in BOOLEAN /\ userModified \in BOOLEAN
        BY DEF Init, BackendInit
    <3>3. deaths \in 0..MaxDeaths /\ lost \in 0..MaxLost /\ foreign \in 0..MaxForeign
        BY BoundsAssumption DEF Init, BackendInit
    <3> QED
        BY <3>1, <3>2, <3>3 DEF BackendTypeOK
  <2>2. End = 1
      BY DEF Init, End
  <2>3. DialogTypeOK
    <3>1. urls \in Seq(Items) /\ downloads \in Seq(1..Len(urls))
        BY EmptySeq DEF Init
    <3>2. it \in 1..End /\ prev \in 1..End
        BY <2>2 DEF Init
    <3> QED
        BY <3>1, <3>2, Zenon DEF Init, DialogTypeOK, Cmds, Folders, Pages, NoStatus
  <2>4. HistoryTypeOK
    <3>1. job \in 0..MaxExecs
        BY JobsAssumption DEF Init
    <3>2. dispatched \in Seq(1..Len(urls))
        BY EmptySeq DEF Init
    <3> QED
        BY <3>1, <3>2 DEF Init, HistoryTypeOK
  <2> QED
      BY <2>1, <2>3, <2>4 DEF TypeOK
<1>2. TypeOK /\ [Next]_vars => TypeOK'
  <2> SUFFICES ASSUME TypeOK, [Next]_vars
               PROVE  TypeOK'
      OBVIOUS
  <2>0. /\ it \in 1..End /\ page \in Pages /\ open \in BOOLEAN /\ End \in 1..End
        /\ isModified \in BOOLEAN /\ downloads \in Seq(1..Len(urls))
        /\ signals \in Seq(Signals) /\ "PROGRESS" \in Pages /\ "ERROR" \in Pages
      BY LenProperties DEF TypeOK, BackendTypeOK, DialogTypeOK, End, Pages
  <2>1. CASE \E j \in Jobs : Exec(j)
    <3>1. PICK j \in Jobs : Exec(j)
        BY <2>1
    <3>2. urls' \in Seq(Items) /\ Len(urls') \in Nat
        BY <3>1, ItemListsType, LenProperties DEF Exec
    <3>3. cmd' \in Cmds /\ destIsSystem' \in Folders /\ isModified' \in BOOLEAN
        BY <3>1, JobsAssumption DEF Exec
    <3>4. it' \in 1..End' /\ prev' \in 1..End' /\ page' \in Pages
        BY <3>1, <3>2 DEF Exec, End, Pages
    <3>5. downloads' \in Seq(1..Len(urls')) /\ dispatched' \in Seq(1..Len(urls'))
        BY <3>1, EmptySeq DEF Exec, Exists
    <3>6. job' \in 0..MaxExecs /\ late' \in BOOLEAN
        BY <3>1, JobsAssumption DEF Exec, InFlight, TypeOK, HistoryTypeOK
    <3>7. BackendTypeOK'
        BY <3>1 DEF Exec, TypeOK, BackendTypeOK, backendVars, busVars, daemonVars, boundVars
    <3>8. lastStatus' \in Results \cup {DownloadFailed, NoStatus} /\ dontShow' \in BOOLEAN
        BY <3>1 DEF Exec, TypeOK, DialogTypeOK
    <3>9. DialogTypeOK'
        BY <3>1, <3>2, <3>3, <3>4, <3>5, <3>8 DEF Exec, DialogTypeOK
    <3>10. HistoryTypeOK'
        BY <3>1, <3>5, <3>6 DEF Exec, HistoryTypeOK
    <3> QED
        BY <3>7, <3>9, <3>10 DEF TypeOK
  <2>2. CASE FirstDoNext
    <3>1. urls' = urls /\ DoNext(it, isModified, page, downloads)
        BY <2>2 DEF FirstDoNext
    <3>10. DoNextTyped
        BY <2>0, <3>1, DoNextType
    <3>11. signals' \in Seq(Signals)
        BY <2>0, <2>2 DEF FirstDoNext, userFrame
    <3>12. RestTyped
        BY <2>2 DEF FirstDoNext, userFrame, RestTyped, TypeOK, DialogTypeOK
    <3>13. HistoryTyped
        BY <2>2 DEF FirstDoNext, userFrame, HistoryTyped, TypeOK, HistoryTypeOK
    <3>14. UNCHANGED <<daemonVars, boundVars, urls>>
        BY <2>2 DEF FirstDoNext, userFrame
    <3> QED
        BY <3>10, <3>11, <3>12, <3>13, <3>14, DialogKept
  <2>3. CASE CheckInterface
    <3>1. it' \in 1..End /\ page' \in Pages
        BY <2>0, <2>3 DEF CheckInterface, Abandon
    <3>2. /\ open' = open
          /\ UNCHANGED <<requests, cmd, urls, prev, isModified, downloads, dispatched>>
        BY <2>3 DEF CheckInterface, backendVars, busVars, historyVars
    <3>10. DoNextTyped
        BY <2>0, <3>1, <3>2, StillTyped
    <3>11. signals' \in Seq(Signals)
        BY <2>0, <2>3 DEF CheckInterface, backendVars, busVars, historyVars, userFrame
    <3>12. RestTyped
        BY <2>3 DEF CheckInterface, backendVars, busVars, historyVars, userFrame, RestTyped, TypeOK, DialogTypeOK
    <3>13. HistoryTyped
        BY <2>3 DEF CheckInterface, backendVars, busVars, historyVars, userFrame, HistoryTyped, TypeOK, HistoryTypeOK
    <3>14. UNCHANGED <<daemonVars, boundVars, urls>>
        BY <2>3 DEF CheckInterface, backendVars, busVars, historyVars, userFrame
    <3> QED
        BY <3>10, <3>11, <3>12, <3>13, <3>14, DialogKept
  <2>4. CASE ServiceOwnerChanged
    <3>1. it' \in 1..End /\ page' \in Pages
        BY <2>0, <2>4 DEF ServiceOwnerChanged, Abandon
    <3>2. /\ open' = open
          /\ UNCHANGED <<requests, cmd, urls, prev, isModified, downloads, dispatched>>
        BY <2>4 DEF ServiceOwnerChanged, historyVars
    <3>10. DoNextTyped
        BY <2>0, <3>1, <3>2, StillTyped
    <3>11. signals' \in Seq(Signals)
        BY <2>4, SignalsType DEF ServiceOwnerChanged, TypeOK
    <3>12. RestTyped
        BY <2>4 DEF ServiceOwnerChanged, historyVars, userFrame, RestTyped, TypeOK, DialogTypeOK
    <3>13. HistoryTyped
        BY <2>4 DEF ServiceOwnerChanged, historyVars, userFrame, HistoryTyped, TypeOK, HistoryTypeOK
    <3>14. UNCHANGED <<daemonVars, boundVars, urls>>
        BY <2>4 DEF ServiceOwnerChanged, historyVars, userFrame
    <3> QED
        BY <3>10, <3>11, <3>12, <3>13, <3>14, DialogKept
  <2>5. CASE ReceiveStatus
    <3>1. Head(signals) \in Statuses /\ signals' = Tail(signals)
        BY <2>5, SignalsType DEF ReceiveStatus, Status, Signals, TypeOK
    <3>2. Head(signals).result \in Results \cup {DownloadFailed}
        BY <3>1 DEF Statuses
    <3>3. urls' = urls /\ DbusStatus(Head(signals).result, downloads)
        BY <2>5 DEF ReceiveStatus, Status
    <3>4. /\ DoNextTyped /\ done' \subseteq 1..Len(urls')
          /\ lastStatus' \in Results \cup {DownloadFailed, NoStatus}
        BY <2>0, <3>2, <3>3, DbusStatusType
    <3>10. DoNextTyped
        BY <3>4
    <3>11. signals' \in Seq(Signals)
        BY <2>5, <3>1, SignalsType DEF ReceiveStatus, TypeOK
    <3>12. RestTyped
        BY <2>5, <3>4 DEF ReceiveStatus, Status, userFrame, RestTyped, TypeOK, DialogTypeOK
    <3>13. HistoryTyped
        BY <2>5, <3>4 DEF ReceiveStatus, Status, userFrame, HistoryTyped, TypeOK, HistoryTypeOK
    <3>14. UNCHANGED <<daemonVars, boundVars, urls>>
        BY <2>5 DEF ReceiveStatus, Status, userFrame
    <3> QED
        BY <3>10, <3>11, <3>12, <3>13, <3>14, DialogKept
  <2>6. CASE IgnoreSignal
    <3>1. UNCHANGED <<requests, daemonVars, boundVars, dialogVars, historyVars>>
        BY <2>6 DEF IgnoreSignal, Ignore
    <3>2. UNCHANGED <<requests, cmd, urls, prev, isModified, downloads, dispatched, it, page, open>>
        BY <3>1 DEF dialogVars, historyVars
    <3>10. DoNextTyped
        BY <2>0, <3>2, StillTyped
    <3>11. signals' \in Seq(Signals)
        BY <2>6, SignalsType DEF IgnoreSignal, Ignore, TypeOK
    <3>12. RestTyped
        BY <3>1 DEF dialogVars, historyVars, userFrame, RestTyped, TypeOK, DialogTypeOK
    <3>13. HistoryTyped
        BY <3>1 DEF dialogVars, historyVars, userFrame, HistoryTyped, TypeOK, HistoryTypeOK
    <3>14. UNCHANGED <<daemonVars, boundVars, urls>>
        BY <3>1 DEF dialogVars, historyVars, userFrame
    <3> QED
        BY <3>10, <3>11, <3>12, <3>13, <3>14, DialogKept
  <2>7. CASE DownloadDone
    <3>1. Frame \in 1..Len(urls) /\ OtherFrames \in Seq(1..Len(urls))
        BY <2>7, FramesType DEF DownloadDone
    <3>2. \A afm \in BOOLEAN : SendItem(Frame, afm) =>
              requests' \in Seq(Requests) /\ dispatched' \in Seq(1..Len(urls))
        BY <3>1, SendItemType
    <3>3. CreateAfm(it) \in BOOLEAN
        BY DEF CreateAfm
    <3>4. requests' \in Seq(Requests) /\ dispatched' \in Seq(1..Len(urls))
        BY <2>7, <3>2, <3>3 DEF DownloadDone
    <3>5. UNCHANGED <<cmd, urls, it, isModified, page, open>> /\ prev' = it
          /\ downloads' = OtherFrames /\ End' = End
        BY <2>7 DEF DownloadDone, End
    <3>6. cmd \in Cmds
        BY DEF TypeOK, DialogTypeOK
    <3>10. DoNextTyped
        BY <2>0, <3>1, <3>4, <3>5, <3>6 DEF DoNextTyped
    <3>11. signals' \in Seq(Signals)
        BY <2>0, <2>7 DEF DownloadDone, userFrame
    <3>12. RestTyped
        BY <2>7 DEF DownloadDone, userFrame, RestTyped, TypeOK, DialogTypeOK
    <3>13. HistoryTyped
        BY <2>7 DEF DownloadDone, userFrame, HistoryTyped, TypeOK, HistoryTypeOK
    <3>14. UNCHANGED <<daemonVars, boundVars, urls>>
        BY <2>7 DEF DownloadDone, userFrame
    <3> QED
        BY <3>10, <3>11, <3>12, <3>13, <3>14, DialogKept
  <2>8. CASE DownloadFails
    <3>1. OtherFrames \in Seq(1..Len(urls))
        BY <2>8, FramesType DEF DownloadFails
    <3>2. urls' = urls /\ DbusStatus(DownloadFailed, OtherFrames)
        BY <2>8 DEF DownloadFails
    <3>3. DownloadFailed \in Results \cup {DownloadFailed}
        OBVIOUS
    <3>4. /\ DoNextTyped /\ done' \subseteq 1..Len(urls')
          /\ lastStatus' \in Results \cup {DownloadFailed, NoStatus}
        BY <3>1, <3>2, <3>3, DbusStatusType
    <3>10. DoNextTyped
        BY <3>4
    <3>11. signals' \in Seq(Signals)
        BY <2>0, <2>8 DEF DownloadFails, userFrame
    <3>12. RestTyped
        BY <2>8, <3>4 DEF DownloadFails, userFrame, RestTyped, TypeOK, DialogTypeOK
    <3>13. HistoryTyped
        BY <2>8, <3>4 DEF DownloadFails, userFrame, HistoryTyped, TypeOK, HistoryTypeOK
    <3>14. UNCHANGED <<daemonVars, boundVars, urls>>
        BY <2>8 DEF DownloadFails, userFrame
    <3> QED
        BY <3>10, <3>11, <3>12, <3>13, <3>14, DialogKept
  <2>9. CASE ProgressCancel
    <3>1. UNCHANGED <<requests, cmd, urls, prev, isModified, downloads, dispatched>>
        BY <2>9 DEF ProgressCancel, userFrame
    <3>2. it' \in 1..End /\ page' \in Pages /\ open' \in BOOLEAN
        BY <2>0, <2>9 DEF ProgressCancel
    <3>10. DoNextTyped
        BY <3>1, <3>2, StillTyped
    <3>11. signals' \in Seq(Signals)
        BY <2>0, <2>9 DEF ProgressCancel, userFrame
    <3>12. RestTyped
        BY <2>9 DEF ProgressCancel, userFrame, RestTyped, TypeOK, DialogTypeOK
    <3>13. HistoryTyped
        BY <2>9 DEF ProgressCancel, userFrame, HistoryTyped, TypeOK, HistoryTypeOK
    <3>14. UNCHANGED <<daemonVars, boundVars, urls>>
        BY <2>9 DEF ProgressCancel, userFrame
    <3> QED
        BY <3>10, <3>11, <3>12, <3>13, <3>14, DialogKept
  <2>10. CASE \E auto \in BOOLEAN : Skip(auto)
    <3>1. PICK auto \in BOOLEAN : Skip(auto)
        BY <2>10
    <3>2. urls' = urls
        BY <3>1 DEF Skip, userFrame
    <3>3. ASSUME it # End, DoNext(Advance(it), isModified, "PROGRESS", downloads)
          PROVE  DoNextTyped
      <4>1. it \in 1..Len(urls) /\ urls \in Seq(Items)
          BY <2>0, <3>3, LenProperties DEF End, TypeOK, DialogTypeOK
      <4>2. Advance(it) \in 1..End
          BY <4>1, AfterItemRange
      <4> QED
          BY <2>0, <3>2, <3>3, <4>2, DoNextType
    <3>4. ASSUME UNCHANGED <<requests, cmd, it, prev, isModified, page, open, downloads,
                             dispatched>>
          PROVE  DoNextTyped
        BY <2>0, <3>2, <3>4, StillTyped
    <3>5. overrun' \in {"no", "survived", "crashed"}
        BY <3>1 DEF Skip, TypeOK, HistoryTypeOK
    <3>10. DoNextTyped
        BY <3>1, <3>3, <3>4 DEF Skip
    <3>11. signals' \in Seq(Signals)
        BY <2>0, <3>1 DEF Skip, userFrame
    <3>12. RestTyped
        BY <3>1 DEF Skip, userFrame, RestTyped, TypeOK, DialogTypeOK
    <3>13. HistoryTyped
        BY <3>1, <3>5 DEF Skip, userFrame, HistoryTyped, TypeOK, HistoryTypeOK
    <3>14. UNCHANGED <<daemonVars, boundVars, urls>>
        BY <3>1 DEF Skip, userFrame
    <3> QED
        BY <3>10, <3>11, <3>12, <3>13, <3>14, DialogKept
  <2>11. CASE SkipCancel
    <3>1. urls' = urls /\ DoNext(End, isModified, "PROGRESS", downloads)
        BY <2>11 DEF SkipCancel, userFrame
    <3>10. DoNextTyped
        BY <2>0, <3>1, DoNextType
    <3>11. signals' \in Seq(Signals)
        BY <2>0, <2>11 DEF SkipCancel, userFrame
    <3>12. RestTyped
        BY <2>11 DEF SkipCancel, userFrame, RestTyped, TypeOK, DialogTypeOK
    <3>13. HistoryTyped
        BY <2>11 DEF SkipCancel, userFrame, HistoryTyped, TypeOK, HistoryTypeOK
    <3>14. UNCHANGED <<daemonVars, boundVars, urls>>
        BY <2>11 DEF SkipCancel, userFrame
    <3> QED
        BY <3>10, <3>11, <3>12, <3>13, <3>14, DialogKept
  <2>12. CASE \E yes \in BOOLEAN : ConfirmCancel(yes)
    <3>1. PICK yes \in BOOLEAN : ConfirmCancel(yes)
        BY <2>12
    <3>2. urls' = urls /\ ResumeAt(yes) \in 1..End
        BY <2>0, <3>1 DEF ConfirmCancel, userFrame, ResumeAt
    <3>3. ASSUME Proceed(lastStatus, ResumeAt(yes), "PROGRESS", downloads)
          PROVE  DoNextTyped /\ done' \subseteq 1..Len(urls')
        BY <2>0, <3>2, <3>3, ProceedType
    <3>4. ASSUME /\ it' = ResumeAt(yes)
                 /\ page' = IF dontShow THEN "PROGRESS" ELSE "COMPLETE"
                 /\ open' = ~dontShow
                 /\ UNCHANGED <<requests, cmd, prev, isModified, downloads, dispatched, done>>
          PROVE  DoNextTyped /\ done' \subseteq 1..Len(urls')
      <4>1. page' \in Pages /\ open' \in BOOLEAN
          BY <3>4 DEF Pages
      <4>2. UNCHANGED <<requests, cmd, urls, prev, isModified, downloads, dispatched>>
          BY <3>2, <3>4
      <4>3. DoNextTyped
          BY <3>2, <3>4, <4>1, <4>2, StillTyped
      <4>4. done \subseteq 1..Len(urls)
          BY DEF TypeOK, HistoryTypeOK
      <4>5. done' = done /\ urls' = urls
          BY <3>2, <3>4, Zenon
      <4> QED
          BY <4>3, <4>4, <4>5, Zenon
    <3>5. \/ Proceed(lastStatus, ResumeAt(yes), "PROGRESS", downloads)
          \/ /\ it' = ResumeAt(yes)
             /\ page' = IF dontShow THEN "PROGRESS" ELSE "COMPLETE"
             /\ open' = ~dontShow
             /\ UNCHANGED <<requests, cmd, prev, isModified, downloads, dispatched, done>>
        BY <3>1, Zenon DEF ConfirmCancel
    <3>6. DoNextTyped /\ done' \subseteq 1..Len(urls')
        BY <3>3, <3>4, <3>5, Zenon
    <3>10. DoNextTyped
        BY <3>6
    <3>11. signals' \in Seq(Signals)
        BY <2>0, <3>1 DEF ConfirmCancel, userFrame
    <3>12. RestTyped
        BY <3>1 DEF ConfirmCancel, userFrame, RestTyped, TypeOK, DialogTypeOK
    <3>13. HistoryTyped
        BY <3>1, <3>6 DEF ConfirmCancel, userFrame, HistoryTyped, TypeOK, HistoryTypeOK
    <3>14. UNCHANGED <<daemonVars, boundVars, urls>>
        BY <3>1 DEF ConfirmCancel, userFrame
    <3> QED
        BY <3>10, <3>11, <3>12, <3>13, <3>14, DialogKept
  <2>13. CASE CloseError
    <3>1. UNCHANGED <<requests, cmd, urls, prev, isModified, downloads, dispatched>>
        BY <2>13 DEF CloseError, userFrame
    <3>2. it' \in 1..End /\ page' \in Pages /\ open' \in BOOLEAN
        BY <2>0, <2>13 DEF CloseError
    <3>10. DoNextTyped
        BY <3>1, <3>2, StillTyped
    <3>11. signals' \in Seq(Signals)
        BY <2>0, <2>13 DEF CloseError, userFrame
    <3>12. RestTyped
        BY <2>13 DEF CloseError, userFrame, RestTyped, TypeOK, DialogTypeOK
    <3>13. HistoryTyped
        BY <2>13 DEF CloseError, userFrame, HistoryTyped, TypeOK, HistoryTypeOK
    <3>14. UNCHANGED <<daemonVars, boundVars, urls>>
        BY <2>13 DEF CloseError, userFrame
    <3> QED
        BY <3>10, <3>11, <3>12, <3>13, <3>14, DialogKept
  <2>14. CASE CloseComplete
    <3>1. UNCHANGED <<requests, cmd, urls, prev, isModified, downloads, dispatched>>
        BY <2>14 DEF CloseComplete, userFrame
    <3>2. it' \in 1..End /\ page' \in Pages /\ open' \in BOOLEAN
        BY <2>0, <2>14 DEF CloseComplete
    <3>10. DoNextTyped
        BY <3>1, <3>2, StillTyped
    <3>11. signals' \in Seq(Signals)
        BY <2>0, <2>14 DEF CloseComplete, userFrame
    <3>12. RestTyped
        BY <2>14 DEF CloseComplete, userFrame, RestTyped, TypeOK, DialogTypeOK
    <3>13. HistoryTyped
        BY <2>14 DEF CloseComplete, userFrame, HistoryTyped, TypeOK, HistoryTypeOK
    <3>14. UNCHANGED <<daemonVars, boundVars, urls>>
        BY <2>14 DEF CloseComplete, userFrame
    <3> QED
        BY <3>10, <3>11, <3>12, <3>13, <3>14, DialogKept
  <2>15. CASE BackendNext /\ UNCHANGED <<dialogVars, historyVars>>
    <3>1. BackendTypeOK'
        BY <2>15, BackendNextType DEF TypeOK
    <3>2. DialogTypeOK'
        BY <2>15 DEF dialogVars, TypeOK, DialogTypeOK, End
    <3>3. HistoryTypeOK'
        BY <2>15 DEF dialogVars, historyVars, TypeOK, HistoryTypeOK
    <3> QED
        BY <3>1, <3>2, <3>3 DEF TypeOK
  <2>16. CASE UNCHANGED vars
    <3>1. BackendTypeOK'
        BY <2>16 DEF vars, backendVars, busVars, daemonVars, boundVars, TypeOK, BackendTypeOK
    <3>2. DialogTypeOK'
        BY <2>16 DEF vars, dialogVars, TypeOK, DialogTypeOK, End
    <3>3. HistoryTypeOK'
        BY <2>16 DEF vars, dialogVars, historyVars, TypeOK, HistoryTypeOK
    <3> QED
        BY <3>1, <3>2, <3>3 DEF TypeOK
  <2> QED
      BY <2>1, <2>2, <2>3, <2>4, <2>5, <2>6, <2>7, <2>8, <2>9, <2>10, <2>11, <2>12, <2>13,
         <2>14, <2>15, <2>16 DEF Next, UserNext, LoopNext
<1> QED
    BY <1>1, <1>2, PTL DEF Spec
=============================================================================
