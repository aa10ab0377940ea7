----------------------------- MODULE OrderProofs -----------------------------
(***************************************************************************)
(* The course of a font job, proved for every list of items: how it ends   *)
(* and in which order it sends its items.                                  *)
(*                                                                         *)
(* Nothing follows a cancellation or an error, an error page stays until   *)
(* the user leaves it, and the dialog does not close on fonts it has not   *)
(* configured.  ClosingInv carries this: once the job is being configured, *)
(* has shown an error, was cancelled or closed, the iterator is at its     *)
(* end, so that no answer can move it again.                               *)
(*                                                                         *)
(* OrderInv says that all that was sent is at the current item or before   *)
(* it, and that a suspended download is of an item yet to be sent.         *)
(*                                                                         *)
(* MetricsInv says of the metrics of a Type 1 font, sent or current, that  *)
(* the font has been installed: the sorted list has them right behind it.  *)
(***************************************************************************)
EXTENDS ConversationProofs

-----------------------------------------------------------------------------
(* The closing of the dialog.                                              *)

\* No more items: the reconfiguration, an error, a cancellation or the end.
Finished == cmd = "UPDATE" \/ page = "ERROR" \/ stopped \/ ~open

ClosingInv ==
    /\ Finished => it = End
    /\ \A i \in done : i < it
    /\ done # {} => isModified
    /\ page = "COMPLETE" => cmd = "UPDATE"
    /\ open /\ cmd = "UPDATE" => isModified
    /\ (page = "ERROR" \/ ~open) /\ done # {} /\ deaths = 0 => cmd = "UPDATE"
    /\ deaths = 0 => \A k \in DOMAIN signals : signals[k] # OwnerLost

\* Its part that doNext() and its callers write.
ClosingRest ==
    /\ Finished => it = End
    /\ \A i \in done : i < it
    /\ done # {} => isModified
    /\ page = "COMPLETE" => cmd = "UPDATE"
    /\ open /\ cmd = "UPDATE" => isModified
    /\ (page = "ERROR" \/ ~open) /\ done # {} /\ deaths = 0 => cmd = "UPDATE"

LEMMA DoNextCloses ==
    ASSUME TypeOK, NEW i \in 1..End, NEW m \in BOOLEAN, NEW pg, NEW frames,
           DoNext(i, m, pg, frames), UNCHANGED <<urls, deaths>>,
           cmd = "UPDATE" \/ pg = "ERROR" \/ stopped' \/ ~open => i = End,
           \A d \in done' : d < i,
           done' # {} => m,
           pg = "COMPLETE" => cmd = "UPDATE",
           open /\ cmd = "UPDATE" => m,
           (page = "ERROR" \/ ~open) /\ done # {} /\ deaths = 0 => cmd = "UPDATE",
           ~open => done' = done
    PROVE  ClosingRest'
<1>1. it' = i /\ isModified' = m /\ page' = pg /\ End' = End
    BY DEF DoNext, End
<1>2. CASE i = End /\ NeedsReconfigure(m)
  <2>1. cmd' = "UPDATE" /\ m
      BY <1>2 DEF DoNext, NeedsReconfigure
  <2> QED
      BY <1>1, <1>2, <2>1 DEF ClosingRest, Finished
<1>3. CASE i = End /\ ~NeedsReconfigure(m)
  <2>1. cmd' = cmd /\ ~m /\ (open' => open)
      BY <1>3 DEF DoNext, NeedsReconfigure
  <2> QED
      BY <1>1, <1>3, <2>1 DEF ClosingRest, Finished
<1>4. CASE i # End
  <2>1. UNCHANGED <<cmd, open>>
      BY <1>4 DEF DoNext
  <2> QED
      BY <1>1, <1>4, <2>1 DEF ClosingRest, Finished
<1> QED
    BY <1>2, <1>3, <1>4

LEMMA ProceedCloses ==
    ASSUME TypeOK, ClosingRest, NEW result, NEW i \in 1..End, i = it \/ i = End,
           NEW pg, pg = page \/ pg = "PROGRESS", NEW frames,
           Proceed(result, i, pg, frames), UNCHANGED <<urls, deaths>>,
           stopped' => i = End
    PROVE  ClosingRest'
<1>1. /\ Len(urls) \in Nat /\ End \in 1..End /\ isModified \in BOOLEAN /\ End' = End
      /\ done \subseteq Int /\ it \in 1..End
    BY LenProperties DEF TypeOK, DialogTypeOK, HistoryTypeOK, End
<1>2. i # End => /\ i \in 1..Len(urls) /\ NextItem(i) \in 1..End /\ NextItem(i) = i + 1
                 /\ Advance(i) \in 1..End /\ Advance(i) > i
    BY <1>1, AfterItemRange DEF NextItem, End, TypeOK, DialogTypeOK
<1>3. /\ \A d \in done : d < it /\ d < End
      /\ i # End => i = it /\ cmd # "UPDATE" /\ page # "ERROR" /\ open
    BY <1>1 DEF ClosingRest, Finished
<1>4. CASE i = End /\ DoNext(End, isModified, pg, frames) /\ UNCHANGED done
    BY <1>1, <1>3, <1>4, DoNextCloses DEF ClosingRest
<1>5. CASE i # End /\ DoNext(NextItem(i), TRUE, pg, frames) /\ done' = done \cup {i}
  <2>1. \A d \in done' : d < NextItem(i)
      BY <1>1, <1>2, <1>3, <1>5
  <2> QED
      BY <1>2, <1>3, <1>5, <2>1, DoNextCloses DEF ClosingRest
<1>6. CASE i # End /\ DoNext(Advance(i), isModified, pg, frames) /\ UNCHANGED done
  <2>1. \A d \in done' : d < Advance(i)
      BY <1>1, <1>2, <1>3, <1>6
  <2> QED
      BY <1>1, <1>2, <1>3, <1>6, <2>1, DoNextCloses DEF ClosingRest
<1>7. CASE i # End /\ DoNext(End, isModified, "ERROR", frames) /\ UNCHANGED done
    BY <1>1, <1>3, <1>7, DoNextCloses DEF ClosingRest
<1>8. CASE /\ i # End /\ it' = i /\ page' = "SKIP"
           /\ UNCHANGED <<cmd, isModified, open, done>>
    BY <1>1, <1>3, <1>8 DEF ClosingRest, Finished
<1> QED
    BY <1>4, <1>5, <1>6, <1>7, <1>8 DEF Proceed

LEMMA DbusCloses ==
    ASSUME TypeOK, ClosingRest, NEW result, NEW frames, DbusStatus(result, frames),
           UNCHANGED <<urls, deaths, stopped>>
    PROVE  ClosingRest'
<1>1. it \in 1..End /\ End' = End
    BY DEF TypeOK, DialogTypeOK, End
<1>2. CASE cmd = "UPDATE"
    BY <1>1, <1>2 DEF DbusStatus, ClosingRest, Finished
<1>3. CASE cmd # "UPDATE" /\ cancelClicked
    BY <1>1, <1>3 DEF DbusStatus, ClosingRest, Finished
<1>4. CASE cmd # "UPDATE" /\ ~cancelClicked
  <2>1. Proceed(result, it, page, frames)
      BY <1>4 DEF DbusStatus
  <2>2. stopped' => it = End
      BY DEF ClosingRest, Finished
  <2> QED
      BY <1>1, <2>1, <2>2, ProceedCloses
<1> QED
    BY <1>2, <1>3, <1>4

\* The signals that say the daemon has died.
NoDeath == deaths = 0 => \A k \in DOMAIN signals : signals[k] # OwnerLost

LEMMA TailNoDeath ==
    ASSUME BackendTypeOK, NoDeath, signals # <<>>, signals' = Tail(signals), deaths' = deaths
    PROVE  NoDeath'
<1>1. /\ DOMAIN signals = 1..Len(signals) /\ Len(signals) \in Nat
      /\ DOMAIN signals' = 1..(Len(signals) - 1)
      /\ \A k \in 1..(Len(signals) - 1) : signals'[k] = signals[k + 1]
  <2>1. signals \in Seq(Signals)
      BY DEF BackendTypeOK
  <2> QED
      BY <2>1, LenProperties, EmptySeq, HeadTailProperties
<1> QED
    BY <1>1 DEF NoDeath

LEMMA ReplyNoDeath ==
    ASSUME BackendTypeOK, NoDeath, NEW result, Reply(result), deaths' = deaths
    PROVE  NoDeath'
<1> DEFINE s == [kind |-> "status", result |-> result, of |-> Top]
<1>1. s # OwnerLost
    BY DEF OwnerLost
<1>2. signals' = Append(signals, s) /\ signals \in Seq(Signals)
    BY DEF Reply, BackendTypeOK
<1> HIDE DEF s
<1>3. /\ DOMAIN signals = 1..Len(signals) /\ Len(signals) \in Nat
      /\ DOMAIN signals' = 1..(Len(signals) + 1)
      /\ \A k \in 1..Len(signals) : signals'[k] = signals[k]
      /\ signals'[Len(signals) + 1] = s
    BY <1>2, LenProperties, AppendProperties
<1> QED
    BY <1>1, <1>3 DEF NoDeath

LEMMA BackendNoDeath ==
    ASSUME BackendTypeOK, NoDeath, BackendNext
    PROVE  NoDeath'
<1>1. CASE Die
  <2>1. deaths' # 0
      BY <1>1 DEF Die, BackendTypeOK
  <2> QED
      BY <2>1 DEF NoDeath
<1>2. CASE AnswerOk
    BY <1>2, ReplyNoDeath DEF AnswerOk, boundVars
<1>3. CASE AnswerError
    BY <1>3, ReplyNoDeath DEF AnswerError, boundVars
<1>4. CASE HelperAnswers \/ AnswerReconfigure
    BY <1>4, ReplyNoDeath DEF HelperAnswers, AnswerReconfigure, boundVars
<1>5. CASE ForeignRequest \/ Take \/ AskHelper \/ Reconfigure \/ Start \/ StartFails
    BY <1>5 DEF ForeignRequest, Take, AskHelper, Reconfigure, Start, StartFails, busVars,
                boundVars, NoDeath
<1> QED
    BY <1>1, <1>2, <1>3, <1>4, <1>5 DEF BackendNext, DaemonTurn

LEMMA ClosingParts == ClosingInv <=> ClosingRest /\ NoDeath
BY DEF ClosingInv, ClosingRest, NoDeath

\* Steps that write none of it.
LEMMA ClosingKept ==
    ASSUME ClosingRest, UNCHANGED <<cmd, page, stopped, open, it, urls, done, isModified>>,
           deaths = 0 \/ deaths' # 0
    PROVE  ClosingRest'
BY DEF ClosingRest, Finished, End

LEMMA ClosingStep ==
    ASSUME TypeOK, ClosingRest, NoDeath, [Next]_vars
    PROVE  ClosingRest' /\ NoDeath'
<1> USE DEF NoDeath
<1>0. it \in 1..End /\ End \in 1..End /\ isModified \in BOOLEAN /\ done \subseteq Int
    BY LenProperties DEF TypeOK, DialogTypeOK, HistoryTypeOK, End
<1>1. ASSUME NEW j \in Jobs, Exec(j)
      PROVE  ClosingRest' /\ NoDeath'
  <2>1. cmd' = "UPDATE" => urls' = <<>>
    <3>1. j.cmd = "UPDATE" => j.items = <<>>
        BY JobsAssumption
    <3>2. urls' \in ItemLists(j) /\ cmd' = j.cmd
        BY <1>1 DEF Exec
    <3> QED
        BY <3>1, <3>2 DEF ItemLists
  <2>2. urls' = <<>> => End' = 1
      BY DEF End
  <2> QED
      BY <1>1, <2>1, <2>2
         DEF Exec, ClosingRest, Finished, backendVars, busVars, daemonVars, boundVars
<1>2. ASSUME FirstDoNext
      PROVE  ClosingRest' /\ NoDeath'
  <2>1. /\ DoNext(it, isModified, page, downloads)
        /\ UNCHANGED <<urls, deaths, stopped, done, signals>>
      BY <1>2 DEF FirstDoNext, boundVars
  <2>2. ClosingRest'
      BY <1>0, <2>1, DoNextCloses DEF ClosingRest, Finished
  <2> QED
      BY <2>1, <2>2
<1>3. ASSUME CheckInterface
      PROVE  ClosingRest' /\ NoDeath'
  <2>1. /\ UNCHANGED <<cmd, stopped, open, urls, done, isModified, deaths, signals>>
        /\ \/ UNCHANGED <<it, page>>
           \/ it = 1 /\ it' = End /\ page' = "ERROR"
      BY <1>3 DEF CheckInterface, Abandon, backendVars, busVars, daemonVars, boundVars, historyVars
  <2>2. it = 1 => \A i \in done : i < 1
      BY DEF ClosingRest
  <2>3. \A i \in done : i > 0 /\ i \in Int
    <3>1. done \subseteq 1..Len(urls) /\ Len(urls) \in Nat
        BY LenProperties DEF TypeOK, HistoryTypeOK, DialogTypeOK
    <3> QED
        BY <3>1
  <2>4. NoDeath' /\ End' = End
      BY <2>1 DEF End
  <2>5. CASE UNCHANGED <<it, page>>
      BY <2>1, <2>4, <2>5 DEF ClosingRest, Finished
  <2>6. CASE it = 1 /\ it' = End /\ page' = "ERROR"
    <3>1. done = {}
        BY <2>2, <2>3, <2>6
    <3> QED
        BY <2>1, <2>4, <2>6, <3>1 DEF ClosingRest, Finished
  <2> QED
      BY <2>1, <2>5, <2>6
<1>4. ASSUME ServiceOwnerChanged
      PROVE  ClosingRest' /\ NoDeath'
  <2>1. /\ UNCHANGED <<cmd, stopped, open, urls, done, isModified, deaths>>
        /\ UNCHANGED <<it, page>> \/ (it # End /\ it' = End /\ page' = "ERROR")
        /\ signals # <<>> /\ Head(signals) = OwnerLost /\ signals' = Tail(signals)
      BY <1>4 DEF ServiceOwnerChanged, Abandon, boundVars, historyVars
  <2>2. deaths # 0
      BY <2>1, SignalQueue DEF TypeOK
  <2>3. NoDeath'
      BY <2>1, <2>2
  <2> QED
      BY <1>0, <2>1, <2>2, <2>3 DEF ClosingRest, Finished, End
<1>5. ASSUME ReceiveStatus
      PROVE  ClosingRest' /\ NoDeath'
  <2>1. /\ DbusStatus(Head(signals).result, downloads)
        /\ UNCHANGED <<urls, deaths, stopped>>
        /\ signals # <<>> /\ signals' = Tail(signals)
      BY <1>5 DEF ReceiveStatus, Status, boundVars
  <2> QED
      BY <2>1, DbusCloses, TailNoDeath DEF TypeOK
<1>6. ASSUME IgnoreSignal
      PROVE  ClosingRest' /\ NoDeath'
  <2>1. /\ UNCHANGED <<cmd, page, stopped, open, it, urls, done, isModified, deaths>>
        /\ signals # <<>> /\ signals' = Tail(signals)
      BY <1>6 DEF IgnoreSignal, Ignore, boundVars, dialogVars, historyVars
  <2> QED
      BY <2>1, ClosingKept, TailNoDeath DEF TypeOK
<1>7. ASSUME DownloadDone
      PROVE  ClosingRest' /\ NoDeath'
  <2>1. UNCHANGED <<cmd, page, stopped, open, it, urls, done, isModified, deaths, signals>>
      BY <1>7 DEF DownloadDone, boundVars
  <2> QED
      BY <2>1, ClosingKept
<1>8. ASSUME DownloadFails
      PROVE  ClosingRest' /\ NoDeath'
  <2>1. /\ DbusStatus(DownloadFailed, OtherFrames)
        /\ UNCHANGED <<urls, deaths, stopped, signals>>
      BY <1>8 DEF DownloadFails, boundVars
  <2> QED
      BY <2>1, DbusCloses
<1>9. ASSUME ProgressCancel
      PROVE  ClosingRest' /\ NoDeath'
  <2>1. UNCHANGED <<cmd, page, stopped, open, it, urls, done, isModified, deaths, signals>>
      BY <1>9 DEF ProgressCancel, userFrame, boundVars
  <2> QED
      BY <2>1, ClosingKept
<1>10. ASSUME NEW auto \in BOOLEAN, Skip(auto)
       PROVE  ClosingRest' /\ NoDeath'
  <2>1. UNCHANGED <<urls, deaths, stopped, done, signals>> /\ open /\ page = "SKIP"
      BY <1>10 DEF Skip, userFrame, boundVars
  <2>2. CASE it # End /\ DoNext(Advance(it), isModified, "PROGRESS", downloads)
    <3>1. it \in 1..Len(urls) /\ urls \in Seq(Items)
        BY <1>0, <2>2, LenProperties DEF End, TypeOK, DialogTypeOK
    <3>2. Advance(it) \in 1..End /\ Advance(it) > it
        BY <3>1, AfterItemRange
    <3>3. \A d \in done : d < Advance(it)
        BY <1>0, <3>2 DEF ClosingRest
    <3> QED
        BY <1>0, <2>1, <2>2, <3>2, <3>3, DoNextCloses DEF ClosingRest, Finished
  <2>3. CASE UNCHANGED <<cmd, it, isModified, page, open>>
      BY <2>1, <2>3, ClosingKept
  <2> QED
      BY <1>10, <2>1, <2>2, <2>3 DEF Skip
<1>11. ASSUME SkipCancel
       PROVE  ClosingRest' /\ NoDeath'
  <2>1. /\ UNCHANGED <<urls, deaths, done, signals>>
        /\ DoNext(End, isModified, "PROGRESS", downloads)
      BY <1>11 DEF SkipCancel, userFrame, boundVars
  <2>2. \A d \in done : d < End
      BY <1>0 DEF ClosingRest
  <2> QED
      BY <1>0, <2>1, <2>2, DoNextCloses DEF ClosingRest, Finished
<1>12. ASSUME NEW yes \in BOOLEAN, ConfirmCancel(yes)
       PROVE  ClosingRest' /\ NoDeath'
  <2>1. /\ UNCHANGED <<urls, deaths, signals>> /\ open /\ page = "CANCEL"
        /\ stopped' = (stopped \/ yes)
      BY <1>12 DEF ConfirmCancel, userFrame, boundVars
  <2>2. /\ ResumeAt(yes) \in 1..End /\ ResumeAt(yes) \in {it, End}
        /\ stopped' => ResumeAt(yes) = End
      BY <1>0, <2>1 DEF ResumeAt, ClosingRest, Finished
  <2>3. CASE Proceed(lastStatus, ResumeAt(yes), "PROGRESS", downloads)
      BY <2>1, <2>2, <2>3, ProceedCloses
  <2>4. CASE /\ cmd = "UPDATE" /\ it' = ResumeAt(yes)
             /\ page' = IF dontShow THEN "PROGRESS" ELSE "COMPLETE"
             /\ UNCHANGED <<cmd, isModified, done>>
    <3>1. it = End /\ it' = End /\ End' = End
        BY <2>1, <2>2, <2>4 DEF ClosingRest, Finished, End
    <3> QED
        BY <2>1, <2>4, <3>1 DEF ClosingRest, Finished
  <2> QED
      BY <1>12, <2>1, <2>3, <2>4, Zenon DEF ConfirmCancel
<1>13. ASSUME CloseError
       PROVE  ClosingRest' /\ NoDeath'
  <2>1. /\ UNCHANGED <<cmd, page, stopped, it, urls, done, isModified, deaths, signals>>
        /\ page = "ERROR" /\ ~open'
      BY <1>13 DEF CloseError, userFrame, boundVars
  <2>2. NoDeath' /\ End' = End
      BY <2>1 DEF End
  <2> QED
      BY <2>1, <2>2 DEF ClosingRest, Finished
<1>14. ASSUME CloseComplete
       PROVE  ClosingRest' /\ NoDeath'
  <2>1. /\ UNCHANGED <<cmd, page, stopped, it, urls, done, isModified, deaths, signals>>
        /\ page = "COMPLETE" /\ ~open'
      BY <1>14 DEF CloseComplete, userFrame, boundVars
  <2>2. NoDeath' /\ End' = End
      BY <2>1 DEF End
  <2> QED
      BY <2>1, <2>2 DEF ClosingRest, Finished
<1>15. ASSUME BackendNext, UNCHANGED <<dialogVars, historyVars>>
       PROVE  ClosingRest' /\ NoDeath'
  <2>1. UNCHANGED <<cmd, page, stopped, open, it, urls, done, isModified>>
      BY <1>15 DEF dialogVars, historyVars
  <2>2. deaths = 0 \/ deaths' # 0
      BY <1>15 DEF BackendNext, DaemonTurn, ForeignRequest, Take, AnswerOk, AnswerError, AskHelper,
                   HelperAnswers, Reconfigure, AnswerReconfigure, Die, Start, StartFails,
                   boundVars, TypeOK, BackendTypeOK
  <2>3. NoDeath'
      BY <1>15, BackendNoDeath DEF TypeOK
  <2> QED
      BY <2>1, <2>2, <2>3, ClosingKept
<1>16. ASSUME UNCHANGED vars
       PROVE  ClosingRest' /\ NoDeath'
  <2>1. UNCHANGED <<cmd, page, stopped, open, it, urls, done, isModified, deaths, signals>>
      BY <1>16 DEF vars, backendVars, busVars, boundVars, dialogVars, historyVars
  <2> QED
      BY <2>1, ClosingKept
<1> QED
    BY <1>1, <1>2, <1>3, <1>4, <1>5, <1>6, <1>7, <1>8, <1>9, <1>10, <1>11, <1>12, <1>13,
       <1>14, <1>15, <1>16 DEF Next, UserNext, LoopNext

(* No item is current once the fonts are configured, an error is shown, the *)
(* user has cancelled or the dialog is closed; what was done is behind the  *)
(* iterator and has marked the job as modified.                             *)
THEOREM ClosingInvariant == Spec => []ClosingInv
<1>1. Init => ClosingInv
  <2> SUFFICES ASSUME Init
               PROVE  ClosingInv
      OBVIOUS
  <2>1. End = 1 /\ DOMAIN signals = {}
      BY DEF Init, BackendInit, End
  <2>2. it = 1 /\ done = {} /\ page = "PROGRESS" /\ ~open
      BY DEF Init
  <2> QED
      BY <2>1, <2>2 DEF ClosingInv
<1>2. TypeOK /\ ClosingInv /\ [Next]_vars => ClosingInv'
  <2>1. ClosingInv' <=> ClosingRest' /\ NoDeath'
      BY DEF ClosingInv, ClosingRest, NoDeath
  <2> QED
      BY <2>1, ClosingParts, ClosingStep
<1> QED
    BY <1>1, <1>2, TypeCorrect, PTL DEF Spec

(* However the dialog is closed, it has asked for a reconfiguration of what *)
(* it counted as done, unless the daemon died.                              *)
THEOREM NoCloseBeforeReconfigure == Spec => []ClosedAfterReconfigure
<1>1. ClosingInv => ClosedAfterReconfigure
    BY DEF ClosingInv, ClosedAfterReconfigure, Exists
<1> QED
    BY <1>1, ClosingInvariant, PTL
-----------------------------------------------------------------------------
(* Nothing follows a cancellation or an error.                             *)
LEMMA SilentAtEnd ==
    ASSUME NEW result, NEW pg, NEW frames,
           (\E m \in BOOLEAN : DoNext(End, m, pg, frames)) \/ Proceed(result, End, pg, frames)
    PROVE  UNCHANGED dispatched
BY DEF DoNext, Proceed

LEMMA SilentStatus ==
    ASSUME NEW result, NEW frames, DbusStatus(result, frames), it = End
    PROVE  UNCHANGED dispatched
<1>1. CASE Proceed(result, it, page, frames)
    BY <1>1, SilentAtEnd
<1> QED
    BY <1>1 DEF DbusStatus

(* Once the user has cancelled, or an error page is shown, the job sends no *)
(* further item, but for a file whose download was under way.               *)
THEOREM NothingAfterStop == Spec => StoppedIsFinal
<1> DEFINE A == job' = job /\ Exists /\ (stopped \/ page = "ERROR") =>
                    dispatched' = dispatched \/ downloads # <<>>
<1>1. TypeOK /\ ClosingInv /\ [Next]_vars => [A]_vars
  <2> SUFFICES ASSUME TypeOK, ClosingInv, [Next]_vars, job' = job, Exists,
                      stopped \/ page = "ERROR", downloads = <<>>
               PROVE  UNCHANGED dispatched
      OBVIOUS
  <2>0. it = End /\ isModified \in BOOLEAN
      BY DEF ClosingInv, Finished, TypeOK, DialogTypeOK
  <2>1. ~\E j \in Jobs : Exec(j)
      BY DEF Exec
  <2>2. CASE FirstDoNext
      BY <2>0, <2>2, SilentAtEnd DEF FirstDoNext
  <2>3. CASE CheckInterface \/ ServiceOwnerChanged \/ IgnoreSignal \/ ProgressCancel
             \/ CloseError \/ CloseComplete
      BY <2>3 DEF CheckInterface, ServiceOwnerChanged, IgnoreSignal, Ignore, ProgressCancel,
                  CloseError, CloseComplete, historyVars
  <2>4. CASE ReceiveStatus
      BY <2>0, <2>4, SilentStatus DEF ReceiveStatus, Status
  <2>5. CASE DownloadDone \/ DownloadFails
      BY <2>5 DEF DownloadDone, DownloadFails
  <2>6. CASE \E auto \in BOOLEAN : Skip(auto)
      BY <2>0, <2>6 DEF Skip
  <2>7. CASE SkipCancel
      BY <2>0, <2>7, SilentAtEnd DEF SkipCancel
  <2>8. CASE \E yes \in BOOLEAN : ConfirmCancel(yes)
    <3>1. PICK yes \in BOOLEAN : ConfirmCancel(yes)
        BY <2>8
    <3>2. ResumeAt(yes) = End
        BY <2>0 DEF ResumeAt
    <3>3. Proceed(lastStatus, End, "PROGRESS", downloads) \/ UNCHANGED dispatched
        BY <3>1, <3>2 DEF ConfirmCancel
    <3> QED
        BY <3>3, SilentAtEnd
  <2>9. CASE (BackendNext /\ UNCHANGED <<dialogVars, historyVars>>) \/ UNCHANGED vars
      BY <2>9 DEF historyVars, vars
  <2> QED
      BY <2>1, <2>2, <2>3, <2>4, <2>5, <2>6, <2>7, <2>8, <2>9 DEF Next, UserNext, LoopNext
<1> QED
    BY <1>1, TypeCorrect, ClosingInvariant, PTL DEF Spec, StoppedIsFinal

\* doNext() at the end of an unmodified job leaves the error page where it is.
LEMMA ErrorKept ==
    ASSUME NEW result, NEW frames, open,
           DoNext(End, FALSE, "ERROR", frames)
    PROVE  page' = "ERROR" /\ open'
BY DEF DoNext, NeedsReconfigure, KeepsOpen

LEMMA ErrorKeptByStatus ==
    ASSUME NEW result, NEW frames, DbusStatus(result, frames), open, page = "ERROR", it = End,
           ~isModified, isModified \in BOOLEAN, ~cancelClicked, cmd # "UPDATE"
    PROVE  page' = "ERROR" /\ open'
<1>1. Proceed(result, End, "ERROR", frames)
    BY DEF DbusStatus
<1>2. DoNext(End, isModified, "ERROR", frames) /\ isModified = FALSE
    BY <1>1 DEF Proceed
<1> QED
    BY <1>2, ErrorKept

(* An error page is left by the user alone, unless fonts had been changed or *)
(* the user had pressed Cancel before.                                       *)
THEOREM OnlyUserLeavesError == Spec => ErrorStays
<1> DEFINE A == open /\ page = "ERROR" /\ ~isModified /\ ~cancelClicked
                  /\ (page' # "ERROR" \/ ~open')
                    => page' = "ERROR" /\ UNCHANGED <<signals, downloads>>
<1>1. TypeOK /\ ClosingInv /\ [Next]_vars => [A]_vars
  <2> SUFFICES ASSUME TypeOK, ClosingInv, [Next]_vars, open, page = "ERROR", ~isModified,
                      ~cancelClicked, page' # "ERROR" \/ ~open'
               PROVE  page' = "ERROR" /\ UNCHANGED <<signals, downloads>>
      OBVIOUS
  <2>0. /\ it = End /\ cmd # "UPDATE" /\ isModified \in BOOLEAN /\ isModified = FALSE /\ Exists
      BY DEF ClosingInv, Finished, TypeOK, DialogTypeOK, Exists
  <2>1. ~\E j \in Jobs : Exec(j)
      BY <2>0 DEF Exec
  <2>2. ~FirstDoNext
      BY <2>0, ErrorKept DEF FirstDoNext
  <2>3. ~(CheckInterface \/ ServiceOwnerChanged \/ IgnoreSignal \/ ProgressCancel)
      BY <2>0 DEF CheckInterface, ServiceOwnerChanged, Abandon, IgnoreSignal, Ignore,
                  ProgressCancel, dialogVars
  <2>4. ~ReceiveStatus
      BY <2>0, ErrorKeptByStatus DEF ReceiveStatus, Status
  <2>5. ~DownloadDone
      BY <2>0 DEF DownloadDone
  <2>6. ~DownloadFails
      BY <2>0, ErrorKeptByStatus DEF DownloadFails
  <2>7. ~((\E auto \in BOOLEAN : Skip(auto)) \/ SkipCancel
          \/ (\E yes \in BOOLEAN : ConfirmCancel(yes)) \/ CloseComplete)
      BY DEF Skip, SkipCancel, ConfirmCancel, CloseComplete
  <2>8. CASE CloseError
      BY <2>8 DEF CloseError, userFrame
  <2>9. ~((BackendNext /\ UNCHANGED <<dialogVars, historyVars>>) \/ UNCHANGED vars)
      BY DEF dialogVars, vars
  <2> QED
      BY <2>1, <2>2, <2>3, <2>4, <2>5, <2>6, <2>7, <2>8, <2>9 DEF Next, UserNext, LoopNext
<1> QED
    BY <1>1, TypeCorrect, ClosingInvariant, PTL DEF Spec, ErrorStays

-----------------------------------------------------------------------------
(* How far the list has been sent.                                         *)

\* What doNext() and its callers write of it.
OrderRest ==
    /\ \A k, l \in DOMAIN dispatched : k < l => dispatched[k] < dispatched[l]
    /\ \A k \in DOMAIN dispatched : dispatched[k] <= it
    /\ downloads # <<>> =>
         /\ cmd = "INSTALL" /\ ~stopped
         /\ urls[downloads[1]].remote
         /\ \A k \in DOMAIN dispatched : dispatched[k] < downloads[1]
    /\ open /\ page = "SKIP" => it # End
    /\ open /\ page = "CANCEL" => cmd # "UPDATE"

SomeRemote == \E i \in DOMAIN urls : urls[i].remote

Order ==
    /\ OrderRest
    /\ NotStarted => dispatched = <<>>
    /\ overrun # "no" => SomeRemote

OrderInv == ~late => Order

LEMMA SentFacts ==
    ASSUME TypeOK
    PROVE  /\ Len(urls) \in Nat /\ DOMAIN urls = 1..Len(urls)
           /\ Len(dispatched) \in Nat /\ DOMAIN dispatched = 1..Len(dispatched)
           /\ \A k \in DOMAIN dispatched : dispatched[k] \in 1..Len(urls)
BY LenProperties, ElementOfSeq DEF TypeOK, DialogTypeOK, HistoryTypeOK

LEMMA SendFacts ==
    ASSUME TypeOK, NEW i \in 1..Len(urls), dispatched' = Append(dispatched, i)
    PROVE  /\ DOMAIN dispatched' = 1..(Len(dispatched) + 1)
           /\ \A k \in 1..Len(dispatched) : dispatched'[k] = dispatched[k]
           /\ dispatched'[Len(dispatched) + 1] = i
<1>1. dispatched \in Seq(1..Len(urls))
    BY DEF TypeOK, HistoryTypeOK
<1> QED
    BY <1>1, LenProperties, AppendProperties

\* The next item goes out when all that went out are before it.
LEMMA SendInOrder ==
    ASSUME TypeOK, NEW i \in 1..Len(urls), dispatched' = Append(dispatched, i),
           \A k, l \in DOMAIN dispatched : k < l => dispatched[k] < dispatched[l],
           \A k \in DOMAIN dispatched : dispatched[k] < i
    PROVE  /\ \A k, l \in DOMAIN dispatched' : k < l => dispatched'[k] < dispatched'[l]
           /\ \A k \in DOMAIN dispatched' : dispatched'[k] <= i
<1>1. Len(dispatched) \in Nat /\ DOMAIN dispatched = 1..Len(dispatched) /\ i \in Int
    BY SentFacts
<1>2. \A k \in DOMAIN dispatched : dispatched[k] \in Int
    BY SentFacts
<1> QED
    BY <1>1, <1>2, SendFacts

LEMMA DoNextOrders ==
    ASSUME TypeOK, NEW i \in 1..End, NEW m \in BOOLEAN, NEW pg,
           DoNext(i, m, pg, <<>>), UNCHANGED urls,
           \A k, l \in DOMAIN dispatched : k < l => dispatched[k] < dispatched[l],
           i # End => ~stopped' /\ \A k \in DOMAIN dispatched : dispatched[k] < i,
           open => pg \notin {"SKIP", "CANCEL"}
    PROVE  OrderRest'
<1>1. it' = i /\ page' = pg /\ End' = End /\ Len(urls) \in Nat
    BY SentFacts DEF DoNext, End
<1>2. CASE i = End
  <2>1. downloads' = <<>> /\ UNCHANGED dispatched
      BY <1>2 DEF DoNext
  <2>2. open' => open
      BY <1>2 DEF DoNext
  <2>3. \A k \in DOMAIN dispatched : dispatched[k] <= End
      BY SentFacts DEF End
  <2> QED
      BY <1>1, <1>2, <2>1, <2>2, <2>3 DEF OrderRest
<1>3. CASE i # End /\ cmd = "INSTALL" /\ urls[i].remote
  <2>1. downloads' = Append(<<>>, i) /\ UNCHANGED <<cmd, open, dispatched>>
      BY <1>3 DEF DoNext
  <2>2. downloads'[1] = i
      BY <2>1
  <2>3. \A k \in DOMAIN dispatched : dispatched[k] < i /\ dispatched[k] \in Int
      BY <1>3, SentFacts
  <2> QED
      BY <1>1, <1>3, <2>1, <2>2, <2>3 DEF OrderRest
<1>4. CASE i # End /\ ~(cmd = "INSTALL" /\ urls[i].remote)
  <2>1. i \in 1..Len(urls)
      BY <1>1, <1>4 DEF End
  <2>2. dispatched' = Append(dispatched, i) /\ downloads' = <<>> /\ UNCHANGED open
      BY <1>4, Zenon DEF DoNext, SendItem
  <2>3. /\ \A k, l \in DOMAIN dispatched' : k < l => dispatched'[k] < dispatched'[l]
        /\ \A k \in DOMAIN dispatched' : dispatched'[k] <= i
      BY <1>4, <2>1, <2>2, SendInOrder
  <2> QED
      BY <1>1, <1>4, <2>2, <2>3 DEF OrderRest
<1> QED
    BY <1>2, <1>3, <1>4

LEMMA ProceedOrders ==
    ASSUME TypeOK, NEW result, NEW i \in 1..End, NEW pg,
           Proceed(result, i, pg, <<>>), UNCHANGED urls,
           \A k, l \in DOMAIN dispatched : k < l => dispatched[k] < dispatched[l],
           i # End => ~stopped' /\ \A k \in DOMAIN dispatched : dispatched[k] <= i,
           open => pg \notin {"SKIP", "CANCEL"}
    PROVE  OrderRest'
<1>1. /\ Len(urls) \in Nat /\ End \in 1..End /\ isModified \in BOOLEAN /\ End' = End
      /\ \A k \in DOMAIN dispatched : dispatched[k] \in Int
    BY SentFacts DEF TypeOK, DialogTypeOK, End
<1>2. i # End => /\ NextItem(i) \in 1..End /\ NextItem(i) = i + 1
                 /\ Advance(i) \in 1..End /\ Advance(i) > i
    BY <1>1, AfterItemRange DEF NextItem, End, TypeOK, DialogTypeOK
<1>3. i # End => \A n \in Int : n > i => \A k \in DOMAIN dispatched : dispatched[k] < n
    BY <1>1
<1>4. CASE DoNext(End, isModified, pg, <<>>)
    BY <1>1, <1>4, DoNextOrders
<1>5. CASE i # End /\ DoNext(NextItem(i), TRUE, pg, <<>>)
  <2>1. \A k \in DOMAIN dispatched : dispatched[k] < NextItem(i)
      BY <1>2, <1>3, <1>5
  <2> QED
      BY <1>2, <1>5, <2>1, DoNextOrders
<1>6. CASE i # End /\ DoNext(Advance(i), isModified, pg, <<>>)
  <2>1. \A k \in DOMAIN dispatched : dispatched[k] < Advance(i)
      BY <1>2, <1>3, <1>6
  <2> QED
      BY <1>1, <1>2, <1>6, <2>1, DoNextOrders
<1>7. CASE DoNext(End, isModified, "ERROR", <<>>)
    BY <1>1, <1>7, DoNextOrders
<1>8. CASE /\ i # End /\ it' = i /\ page' = "SKIP" /\ downloads' = <<>>
           /\ UNCHANGED dispatched
    BY <1>1, <1>8 DEF OrderRest
<1> QED
    BY <1>4, <1>5, <1>6, <1>7, <1>8 DEF Proceed

LEMMA DbusOrders ==
    ASSUME TypeOK, ClosingInv, OrderRest, NEW result, DbusStatus(result, <<>>),
           UNCHANGED <<urls, stopped>>, ~Asking
    PROVE  OrderRest'
<1>1. CASE Proceed(result, it, page, <<>>)
  <2>1. it \in 1..End /\ (it # End => ~stopped') /\ (open => page \notin {"SKIP", "CANCEL"})
      BY DEF TypeOK, DialogTypeOK, ClosingInv, Finished, Asking
  <2> QED
      BY <1>1, <2>1, ProceedOrders DEF OrderRest
<1>2. CASE /\ downloads' = <<>> /\ UNCHANGED <<it, cmd, urls, dispatched>> /\ (open' => open)
           /\ page' \in {page, "COMPLETE"} \/ (page' = "CANCEL" /\ cmd # "UPDATE")
    BY <1>2 DEF OrderRest, Asking, End
<1> QED
    BY <1>1, <1>2 DEF DbusStatus

\* Steps that send nothing and bring no new item.
LEMMA OrderKept ==
    ASSUME TypeOK, Order, UNCHANGED <<dispatched, downloads, cmd, stopped, urls, overrun, doNextDue>>,
           open' => open, it' = it \/ (it' = End /\ page' = "ERROR"),
           page' \in {page, "ERROR"}
    PROVE  Order'
<1>1. End' = End /\ (NotStarted' => NotStarted)
    BY DEF End, NotStarted, Exists
<1>2. \A k \in DOMAIN dispatched : dispatched[k] <= End
    BY SentFacts DEF End
<1> QED
    BY <1>1, <1>2 DEF Order, OrderRest, SomeRemote

\* The dialog has taken its turn.
LEMMA OrderTurn ==
    ASSUME Order, OrderRest', ~NotStarted', overrun' = overrun \/ SomeRemote, UNCHANGED urls
    PROVE  Order'
BY DEF Order, SomeRemote

LEMMA OrderStep ==
    ASSUME TypeOK, Conversation, ClosingInv, Order, [Next]_vars, ~late, ~late'
    PROVE  Order'
<1>0. /\ it \in 1..End /\ End \in 1..End /\ isModified \in BOOLEAN
      /\ \A k, l \in DOMAIN dispatched : k < l => dispatched[k] < dispatched[l]
      /\ \A k \in DOMAIN dispatched : dispatched[k] <= it /\ dispatched[k] \in Int
      /\ it # End => ~stopped
    BY SentFacts DEF TypeOK, DialogTypeOK, Order, OrderRest, ClosingInv, Finished, End
<1>1. ASSUME NEW j \in Jobs, Exec(j)
      PROVE  Order'
  <2>1. dispatched' = <<>> /\ downloads' = <<>> /\ page' = "PROGRESS" /\ overrun' = "no"
      BY <1>1 DEF Exec, Exists
  <2> QED
      BY <2>1 DEF Order, OrderRest
<1>2. ASSUME FirstDoNext
      PROVE  Order'
  <2>1. NotStarted /\ ~Asking /\ dispatched = <<>>
      BY <1>2 DEF FirstDoNext, NotStarted, Conversation, OneDownload, Order
  <2>2. /\ DoNext(it, isModified, page, <<>>) /\ UNCHANGED <<urls, stopped, overrun>>
        /\ ~NotStarted'
      BY <1>2, <2>1, QuietWhere DEF FirstDoNext, NotStarted
  <2>3. OrderRest'
      BY <1>0, <2>1, <2>2, DoNextOrders DEF Asking
  <2> QED
      BY <2>2, <2>3, OrderTurn
<1>3. ASSUME CheckInterface \/ ServiceOwnerChanged
      PROVE  Order'
  <2>1. /\ UNCHANGED <<dispatched, downloads, cmd, stopped, urls, overrun, doNextDue, open>>
        /\ (UNCHANGED <<it, page>> \/ (it' = End /\ page' = "ERROR"))
      BY <1>3 DEF CheckInterface, ServiceOwnerChanged, Abandon, historyVars
  <2> QED
      BY <2>1, OrderKept
<1>4. ASSUME ReceiveStatus
      PROVE  Order'
  <2>1. /\ signals # <<>> /\ Head(signals) # OwnerLost /\ Mine(Head(signals))
        /\ signals' = Tail(signals) /\ Exists
        /\ DbusStatus(Head(signals).result, downloads)
        /\ UNCHANGED <<urls, doNextDue, stopped, overrun>>
      BY <1>4 DEF ReceiveStatus, Status
  <2>2. Tokens # {}
      BY <2>1, AnswerTaken DEF Conversation, TypeOK
  <2>3. downloads = <<>> /\ ~Asking /\ ~NotStarted
      BY <2>2 DEF Conversation, NothingOut
  <2>4. OrderRest'
      BY <2>1, <2>3, DbusOrders DEF Asking, Order
  <2>5. ~NotStarted'
      BY <2>1, <2>3 DEF NotStarted
  <2> QED
      BY <2>1, <2>4, <2>5, OrderTurn
<1>5. ASSUME IgnoreSignal
      PROVE  Order'
  <2>1. UNCHANGED <<dispatched, downloads, cmd, stopped, urls, overrun, doNextDue, open, it, page>>
      BY <1>5 DEF IgnoreSignal, Ignore, dialogVars, historyVars
  <2> QED
      BY <2>1, OrderKept
<1>6. ASSUME DownloadDone
      PROVE  Order'
  <2>1. downloads # <<>> /\ ~Asking /\ ~NotStarted
      BY <1>6 DEF DownloadDone, Conversation, OneDownload
  <2>2. OtherFrames = <<>> /\ Frame = downloads[1] /\ 1 \in DOMAIN downloads
      BY <2>1, QuietWhere
  <2>3. /\ UNCHANGED <<urls, it, open, page, doNextDue, stopped>> /\ downloads' = <<>>
        /\ dispatched' = Append(dispatched, Frame)
      BY <1>6, <2>2 DEF DownloadDone, SendItem
  <2>4. Frame \in 1..Len(urls) /\ Len(urls) \in Nat /\ End' = End
      BY <2>1, <2>3, FramesType, SentFacts DEF End
  <2>5. \A k \in DOMAIN dispatched : dispatched[k] < Frame
      BY <2>1, <2>2 DEF Order, OrderRest
  <2>6. it = Frame \/ it = End
      BY <2>1, <2>2 DEF Conversation, OutForCurrentItem, Exists
  <2>7. /\ \A k, l \in DOMAIN dispatched' : k < l => dispatched'[k] < dispatched'[l]
        /\ \A k \in DOMAIN dispatched' : dispatched'[k] <= Frame
      BY <1>0, <2>3, <2>4, <2>5, SendInOrder
  <2>8. \A k \in DOMAIN dispatched' : dispatched'[k] <= it
    <3>1. CASE it = Frame
        BY <2>7, <3>1
    <3>2. CASE it = End
      <4>1. dispatched' \in Seq(1..Len(urls))
          BY <2>3, <2>4, AppendProperties DEF TypeOK, HistoryTypeOK
      <4>2. \A k \in DOMAIN dispatched' : dispatched'[k] \in 1..Len(urls)
          BY <4>1, LenProperties, ElementOfSeq
      <4> QED
          BY <2>4, <3>2, <4>2 DEF End
    <3> QED
        BY <2>6, <3>1, <3>2
  <2>9. OrderRest'
      BY <2>1, <2>3, <2>4, <2>7, <2>8 DEF OrderRest, Order, Asking
  <2>10. SomeRemote
    <3>1. Frame \in DOMAIN urls
        BY <2>4, SentFacts
    <3> QED
        BY <2>1, <2>2, <3>1 DEF Order, OrderRest, SomeRemote
  <2>11. ~NotStarted'
      BY <2>1, <2>3 DEF NotStarted, Exists
  <2> QED
      BY <2>3, <2>9, <2>10, <2>11, OrderTurn
<1>7. ASSUME DownloadFails
      PROVE  Order'
  <2>1. downloads # <<>> /\ ~Asking /\ ~NotStarted
      BY <1>7 DEF DownloadFails, Conversation, OneDownload
  <2>2. OtherFrames = <<>> /\ Frame = downloads[1] /\ 1 \in DOMAIN downloads
      BY <2>1, QuietWhere
  <2>3. DbusStatus(DownloadFailed, <<>>) /\ UNCHANGED <<urls, doNextDue, stopped>>
      BY <1>7, <2>2 DEF DownloadFails
  <2>4. OrderRest'
      BY <2>1, <2>3, DbusOrders DEF Asking, Order
  <2>5. SomeRemote
    <3>1. Frame \in DOMAIN urls
        BY <2>1, FramesType, SentFacts
    <3> QED
        BY <2>1, <2>2, <3>1 DEF Order, OrderRest, SomeRemote
  <2>6. ~NotStarted'
      BY <2>1, <2>3 DEF NotStarted, Exists
  <2> QED
      BY <2>3, <2>4, <2>5, <2>6, OrderTurn
<1>8. ASSUME ProgressCancel
      PROVE  Order'
  <2>1. UNCHANGED <<dispatched, downloads, cmd, stopped, urls, overrun, doNextDue, open, it, page>>
      BY <1>8 DEF ProgressCancel, userFrame
  <2> QED
      BY <2>1, OrderKept
<1>9. ASSUME Asking, UNCHANGED userFrame, OrderRest', UNCHANGED overrun
      PROVE  Order'
  <2>1. ~NotStarted'
      BY <1>9 DEF userFrame, NotStarted, Asking, Conversation, OneDownload, Exists
  <2>2. UNCHANGED urls
      BY <1>9 DEF userFrame
  <2> QED
      BY <1>9, <2>1, <2>2, OrderTurn
<1>10. ASSUME NEW auto \in BOOLEAN, Skip(auto)
       PROVE  Order'
  <2>1. Asking /\ UNCHANGED userFrame /\ UNCHANGED stopped /\ open /\ page = "SKIP"
      BY <1>10 DEF Skip, Asking
  <2>2. downloads = <<>> /\ UNCHANGED urls
      BY <2>1, QuietWhere DEF userFrame
  <2>3. it # End
      BY <2>1 DEF Order, OrderRest
  <2>4. DoNext(Advance(it), isModified, "PROGRESS", <<>>) /\ UNCHANGED overrun
      BY <1>10, <2>2, <2>3 DEF Skip
  <2>5. Advance(it) \in 1..End /\ Advance(it) > it
    <3>1. it \in 1..Len(urls) /\ urls \in Seq(Items)
        BY <1>0, <2>3, SentFacts DEF End, TypeOK, DialogTypeOK
    <3> QED
        BY <3>1, AfterItemRange
  <2>6. \A k \in DOMAIN dispatched : dispatched[k] < Advance(it)
      BY <1>0, <2>5
  <2>7. OrderRest'
      BY <1>0, <2>1, <2>2, <2>3, <2>4, <2>5, <2>6, DoNextOrders
  <2> QED
      BY <1>9, <2>1, <2>4, <2>7
<1>11. ASSUME SkipCancel
       PROVE  Order'
  <2>1. Asking /\ UNCHANGED userFrame /\ UNCHANGED overrun
      BY <1>11 DEF SkipCancel, Asking
  <2>2. downloads = <<>> /\ UNCHANGED urls
      BY <2>1, QuietWhere DEF userFrame
  <2>3. DoNext(End, isModified, "PROGRESS", <<>>)
      BY <1>11, <2>2 DEF SkipCancel
  <2>4. OrderRest'
      BY <1>0, <2>2, <2>3, DoNextOrders
  <2> QED
      BY <1>9, <2>1, <2>4
<1>12. ASSUME NEW yes \in BOOLEAN, ConfirmCancel(yes)
       PROVE  Order'
  <2>1. /\ Asking /\ UNCHANGED userFrame /\ UNCHANGED overrun
        /\ stopped' = (stopped \/ yes)
      BY <1>12 DEF ConfirmCancel, Asking
  <2>2. downloads = <<>> /\ UNCHANGED urls /\ End' = End
      BY <2>1, QuietWhere DEF userFrame, End
  <2>3. /\ ResumeAt(yes) \in 1..End
        /\ ResumeAt(yes) # End => ResumeAt(yes) = it /\ it # End /\ ~yes /\ ~stopped'
      BY <1>0, <2>1 DEF ResumeAt
  <2>4. CASE Proceed(lastStatus, ResumeAt(yes), "PROGRESS", downloads)
    <3>1. Proceed(lastStatus, ResumeAt(yes), "PROGRESS", <<>>)
        BY <2>2, <2>4
    <3>2. OrderRest'
        BY <1>0, <2>2, <2>3, <3>1, ProceedOrders
    <3> QED
        BY <1>9, <2>1, <3>2
  <2>5. CASE /\ it' = ResumeAt(yes) /\ page' \notin {"SKIP", "CANCEL"}
             /\ UNCHANGED <<cmd, downloads, dispatched>>
    <3>1. \A k \in DOMAIN dispatched : dispatched[k] <= ResumeAt(yes)
      <4>1. \A k \in DOMAIN dispatched : dispatched[k] <= End
          BY SentFacts DEF End
      <4> QED
          BY <1>0, <4>1 DEF ResumeAt
    <3>2. OrderRest'
        BY <1>0, <2>2, <2>5, <3>1 DEF OrderRest
    <3> QED
        BY <1>9, <2>1, <3>2
  <2> QED
      BY <1>12, <2>4, <2>5, Zenon DEF ConfirmCancel
<1>13. ASSUME CloseError \/ CloseComplete
       PROVE  Order'
  <2>1. UNCHANGED <<dispatched, downloads, cmd, stopped, urls, overrun, doNextDue, it, page>>
        /\ open' = FALSE
      BY <1>13 DEF CloseError, CloseComplete, userFrame
  <2> QED
      BY <2>1, OrderKept
<1>14. ASSUME (BackendNext /\ UNCHANGED <<dialogVars, historyVars>>) \/ UNCHANGED vars
       PROVE  Order'
  <2>1. UNCHANGED <<dispatched, downloads, cmd, stopped, urls, overrun, doNextDue, open, it, page>>
      BY <1>14 DEF dialogVars, historyVars, vars
  <2> QED
      BY <2>1, OrderKept
<1> QED
    BY <1>1, <1>2, <1>3, <1>4, <1>5, <1>6, <1>7, <1>8, <1>10, <1>11, <1>12, <1>13, <1>14
       DEF Next, UserNext, LoopNext

(* All that was sent is at the current item or before it; nothing is before *)
(* the first doNext(); a suspended download is of an item yet to be sent.   *)
THEOREM OrderInvariant == Spec => []OrderInv
<1>1. Init => OrderInv
  <2> SUFFICES ASSUME Init
               PROVE  Order
      BY DEF OrderInv
  <2>1. dispatched = <<>> /\ downloads = <<>> /\ ~open /\ overrun = "no"
      BY DEF Init
  <2> QED
      BY <2>1 DEF Order, OrderRest
<1>2. TypeOK /\ ConversationInv /\ ClosingInv /\ OrderInv /\ [Next]_vars => OrderInv'
  <2> SUFFICES ASSUME TypeOK, ConversationInv, ClosingInv, OrderInv, [Next]_vars, ~late'
               PROVE  Order'
      BY DEF OrderInv
  <2>1. CASE late
    <3>1. PICK j \in Jobs : Exec(j)
        BY <2>1, LateStep
    <3>2. dispatched' = <<>> /\ downloads' = <<>> /\ page' = "PROGRESS" /\ overrun' = "no"
        BY <3>1 DEF Exec, Exists
    <3> QED
        BY <3>2 DEF Order, OrderRest
  <2>2. CASE ~late
      BY <2>2, InvFormula, OrderStep DEF OrderInv
  <2> QED
      BY <2>1, <2>2
<1> QED
    BY <1>1, <1>2, TypeCorrect, ConversationInvariant, ClosingInvariant, PTL DEF Spec

(* The items go out in the order of the list, none of them twice: not when  *)
(* the cancel page feeds the last status to dbusStatus() again, nor when    *)
(* Skip passes over a font's metrics.                                       *)
THEOREM ItemsInOrder == Spec => []SentInOrder
<1>1. OrderInv => SentInOrder
    BY DEF OrderInv, Order, OrderRest, SentInOrder
<1> QED
    BY <1>1, OrderInvariant, PTL

(* itsIt is used at its end only in a job with downloads.                   *)
THEOREM OverrunNeedsDownload == Spec => []NoOverrun
<1>1. OrderInv => NoOverrun
    BY DEF OrderInv, Order, SomeRemote, NoOverrun
<1> QED
    BY <1>1, OrderInvariant, PTL

-----------------------------------------------------------------------------
(* The metrics of a Type 1 font.                                           *)

IsMetric(p) == urls[p].type \in {TYPE1_AFM, TYPE1_PFM}
FontsOf(p) == {f \in DOMAIN urls : urls[f].type = TYPE1_FONT /\ urls[f].name = urls[p].name}

\* Some font of that name is among d, if the list has one.
Founded(p, d) == IsMetric(p) /\ FontsOf(p) # {} => FontsOf(p) \cap d # {}

\* No name has more metrics than dbusStatus() and contineuToNext() pass over.
TwoMetrics(items) ==
    \A a, b, c \in DOMAIN items :
        /\ {items[a].type, items[b].type, items[c].type} \subseteq {TYPE1_AFM, TYPE1_PFM}
        /\ items[a].name = items[b].name /\ items[b].name = items[c].name
        => a = b \/ b = c \/ a = c
Ordered == \A k, l \in DOMAIN urls : k < l => ~Less(urls[l], urls[k])

MetricsInv ==
    cmd = "INSTALL" =>
        /\ Ordered /\ TwoMetrics(urls)
        /\ it # End => Founded(it, done)
        /\ \A k \in DOMAIN downloads : Founded(downloads[k], done)
        /\ \A k \in DOMAIN dispatched : Founded(dispatched[k], done)

LEMMA ItemFacts ==
    ASSUME urls \in Seq(Items)
    PROVE  /\ Len(urls) \in Nat /\ DOMAIN urls = 1..Len(urls)
           /\ \A k \in DOMAIN urls : urls[k].name \in Nat /\ urls[k].type \in 0..3
<1>1. \A k \in 1..Len(urls) : urls[k] \in Items
    BY ElementOfSeq
<1> QED
    BY <1>1, LenProperties DEF Items, TYPE1_FONT, OTHER_FONT

\* A font comes before its metrics, with nothing but its like between them.
LEMMA FontsFirst ==
    ASSUME urls \in Seq(Items), Ordered, NEW p \in DOMAIN urls, IsMetric(p), FontsOf(p) # {}
    PROVE  /\ p - 1 \in DOMAIN urls /\ urls[p - 1].name = urls[p].name
           /\ urls[p - 1].type = TYPE1_FONT \/ IsMetric(p - 1)
<1> USE DEF TYPE1_FONT, TYPE1_AFM, TYPE1_PFM
<1>1. PICK f \in DOMAIN urls : urls[f].type = 0 /\ urls[f].name = urls[p].name
    BY DEF FontsOf
<1>2. /\ Len(urls) \in Nat /\ DOMAIN urls = 1..Len(urls)
      /\ \A k \in DOMAIN urls : urls[k].name \in Nat /\ urls[k].type \in 0..3
    BY ItemFacts
<1>3. urls[p].type \in {1, 2}
    BY DEF IsMetric
<1>4. f < p
  <2>1. ~(p < f)
      BY <1>1, <1>2, <1>3 DEF Ordered, Less
  <2> QED
      BY <1>1, <1>2, <1>3, <2>1
<1> DEFINE q == p - 1
<1>5. q \in DOMAIN urls /\ q < p /\ f <= q
    BY <1>2, <1>4
<1> HIDE DEF q
<1>6. CASE f = q
    BY <1>1, <1>5, <1>6 DEF q
<1>7. CASE f # q
  <2>1. f < q /\ ~Less(urls[q], urls[f]) /\ ~Less(urls[p], urls[q])
      BY <1>2, <1>5, <1>7 DEF Ordered
  <2>2. urls[q].name = urls[p].name /\ urls[q].type <= urls[p].type
      BY <1>1, <1>2, <1>5, <2>1 DEF Less
  <2> QED
      BY <1>2, <1>3, <1>5, <2>2 DEF IsMetric, q
<1> QED
    BY <1>6, <1>7

\* The item after one that was installed.
LEMMA NextFounded ==
    ASSUME urls \in Seq(Items), Ordered, NEW i \in 1..Len(urls), i + 1 \in 1..Len(urls),
           NEW d, Founded(i, d)
    PROVE  Founded(i + 1, d \cup {i})
<1> SUFFICES ASSUME IsMetric(i + 1), FontsOf(i + 1) # {}
             PROVE  FontsOf(i + 1) \cap (d \cup {i}) # {}
    BY DEF Founded
<1>1. DOMAIN urls = 1..Len(urls) /\ (i + 1) - 1 = i
    BY LenProperties
<1>2. urls[i].name = urls[i + 1].name /\ (urls[i].type = TYPE1_FONT \/ IsMetric(i))
    BY <1>1, FontsFirst
<1>3. CASE urls[i].type = TYPE1_FONT
    BY <1>1, <1>2, <1>3 DEF FontsOf
<1>4. CASE IsMetric(i)
    BY <1>2, <1>4 DEF Founded, FontsOf
<1> QED
    BY <1>2, <1>3, <1>4

\* The item after one that was passed over.
LEMMA AdvanceFounded ==
    ASSUME urls \in Seq(Items), cmd = "INSTALL", Ordered, TwoMetrics(urls), NEW i \in 1..Len(urls),
           NEW d, Founded(i, d), Advance(i) # End
    PROVE  Founded(Advance(i), d)
<1> DEFINE p == Advance(i)
<1>0. DOMAIN urls = 1..Len(urls) /\ Len(urls) \in Nat
    BY LenProperties
<1>1. p \in 1..Len(urls)
    BY <1>0, AfterItemRange DEF End
<1> SUFFICES ASSUME IsMetric(p), FontsOf(p) # {}
             PROVE  FontsOf(p) \cap d # {}
    BY DEF Founded
<1>2. /\ p - 1 \in DOMAIN urls /\ urls[p - 1].name = urls[p].name
      /\ urls[p - 1].type = TYPE1_FONT \/ IsMetric(p - 1)
    BY <1>0, <1>1, FontsFirst
<1>3. CASE urls[i].type = TYPE1_FONT
  <2>1. p = AfterMetrics(i)
      BY <1>3 DEF Advance, AfterItem
  <2>2. CASE ~IsMetricOf(i + 1, i)
    <3>1. p = i + 1 /\ p - 1 = i
        BY <2>1, <2>2 DEF AfterMetrics
    <3> QED
        BY <1>0, <1>1, <1>2, <2>2, <3>1 DEF IsMetricOf, IsMetric
  <2>3. CASE IsMetricOf(i + 1, i) /\ ~IsMetricOf(i + 2, i)
    <3>1. p = i + 2 /\ p - 1 = i + 1
        BY <2>1, <2>3 DEF AfterMetrics
    <3> QED
        BY <1>0, <1>1, <1>2, <2>3, <3>1 DEF IsMetricOf, IsMetric
  <2>4. CASE IsMetricOf(i + 1, i) /\ IsMetricOf(i + 2, i)
    <3>1. p = i + 3 /\ p - 1 = i + 2
        BY <2>1, <2>4 DEF AfterMetrics
    <3>2. /\ urls[i + 1].name = urls[i].name /\ urls[i + 2].name = urls[i].name
          /\ urls[p].name = urls[i].name
          /\ {urls[i + 1].type, urls[i + 2].type, urls[p].type} \subseteq {TYPE1_AFM, TYPE1_PFM}
        BY <1>2, <2>4, <3>1 DEF IsMetricOf, IsMetric
    <3>3. i + 1 \in DOMAIN urls /\ i + 2 \in DOMAIN urls /\ p \in DOMAIN urls
        BY <1>0, <1>1, <2>4 DEF IsMetricOf
    <3>4. i + 1 = i + 2 \/ i + 2 = p \/ i + 1 = p
        BY <3>2, <3>3 DEF TwoMetrics
    <3> QED
        BY <3>1, <3>4
  <2> QED
      BY <2>2, <2>3, <2>4
<1>4. CASE urls[i].type # TYPE1_FONT
  <2>1. p = i + 1 /\ p - 1 = i
      BY <1>4 DEF Advance, AfterItem
  <2>2. IsMetric(i) /\ urls[i].name = urls[p].name
      BY <1>2, <1>4, <2>1
  <2> QED
      BY <2>2 DEF Founded, FontsOf
<1> QED
    BY <1>3, <1>4

LEMMA FoundedMore ==
    ASSUME NEW p, NEW d, NEW e, Founded(p, d), d \subseteq e
    PROVE  Founded(p, e)
BY DEF Founded

\* All that the dialog is about to send, or has sent.
AllFounded(q, d) == \A k \in DOMAIN q : Founded(q[k], d)

LEMMA AppendFounded ==
    ASSUME NEW q \in Seq(1..Len(urls)), NEW i \in 1..Len(urls), NEW d, AllFounded(q, d), Founded(i, d)
    PROVE  AllFounded(Append(q, i), d)
<1>1. /\ DOMAIN Append(q, i) = 1..(Len(q) + 1) /\ DOMAIN q = 1..Len(q) /\ Len(q) \in Nat
      /\ \A k \in 1..Len(q) : Append(q, i)[k] = q[k]
      /\ Append(q, i)[Len(q) + 1] = i
    BY LenProperties, AppendProperties
<1> QED
    BY <1>1 DEF AllFounded

\* MetricsInv after a step, in terms of the list it leaves alone.
MetricsNext ==
    cmd' = "INSTALL" =>
        /\ it' # End => Founded(it', done')
        /\ AllFounded(downloads', done') /\ AllFounded(dispatched', done')

LEMMA MetricsPrimed ==
    ASSUME MetricsInv, MetricsNext, UNCHANGED urls, cmd' = "INSTALL" => cmd = "INSTALL"
    PROVE  MetricsInv'
<1> SUFFICES ASSUME cmd' = "INSTALL"
             PROVE  MetricsInv'
    BY DEF MetricsInv
<1>1. Ordered' /\ TwoMetrics(urls)' /\ End' = End
    BY DEF MetricsInv, Ordered, TwoMetrics, End
<1> QED
    BY <1>1 DEF MetricsInv, MetricsNext, AllFounded, Founded, IsMetric, FontsOf

LEMMA DoNextFounds ==
    ASSUME TypeOK, NEW i \in 1..End, NEW m \in BOOLEAN, NEW pg, NEW frames \in Seq(1..Len(urls)),
           DoNext(i, m, pg, frames), UNCHANGED urls, done \subseteq done', MetricsInv,
           cmd = "INSTALL" => AllFounded(frames, done) /\ (i # End => Founded(i, done'))
    PROVE  MetricsInv'
<1>1. it' = i /\ (cmd' = "INSTALL" => cmd = "INSTALL")
    BY DEF DoNext
<1> SUFFICES ASSUME cmd = "INSTALL"
             PROVE  MetricsNext
    BY <1>1, MetricsPrimed DEF MetricsNext
<1>2. AllFounded(frames, done') /\ AllFounded(dispatched, done')
    BY FoundedMore DEF MetricsInv, AllFounded
<1>3. dispatched \in Seq(1..Len(urls)) /\ (i # End => i \in 1..Len(urls))
    BY LenProperties DEF TypeOK, DialogTypeOK, HistoryTypeOK, End
<1>4. CASE i = End
  <2>1. downloads' = frames /\ dispatched' = dispatched
      BY <1>4 DEF DoNext
  <2> QED
      BY <1>1, <1>2, <1>4, <2>1 DEF MetricsNext
<1>5. CASE i # End /\ cmd = "INSTALL" /\ urls[i].remote
  <2>1. downloads' = Append(frames, i) /\ dispatched' = dispatched
      BY <1>5 DEF DoNext
  <2>2. AllFounded(downloads', done')
      BY <1>2, <1>3, <1>5, <2>1, AppendFounded
  <2> QED
      BY <1>1, <1>2, <1>5, <2>1, <2>2 DEF MetricsNext
<1>6. CASE i # End /\ ~(cmd = "INSTALL" /\ urls[i].remote)
  <2>1. downloads' = frames /\ dispatched' = Append(dispatched, i)
      BY <1>6, Zenon DEF DoNext, SendItem
  <2>2. AllFounded(dispatched', done')
      BY <1>2, <1>3, <1>6, <2>1, AppendFounded
  <2> QED
      BY <1>1, <1>2, <1>6, <2>1, <2>2 DEF MetricsNext
<1> QED
    BY <1>4, <1>5, <1>6

LEMMA ProceedFounds ==
    ASSUME TypeOK, NEW result, NEW i \in 1..End, i = it \/ i = End, NEW pg,
           NEW frames \in Seq(1..Len(urls)), Proceed(result, i, pg, frames), UNCHANGED urls, MetricsInv,
           cmd = "INSTALL" => AllFounded(frames, done)
    PROVE  MetricsInv'
<1>1. /\ urls \in Seq(Items) /\ Len(urls) \in Nat /\ End \in 1..End /\ isModified \in BOOLEAN
      /\ i # End => i \in 1..Len(urls)
    BY LenProperties DEF TypeOK, DialogTypeOK, End
<1>2. i # End => /\ NextItem(i) \in 1..End /\ NextItem(i) = i + 1
                 /\ Advance(i) \in 1..End
    BY <1>1, AfterItemRange DEF NextItem, End
<1>3. cmd = "INSTALL" /\ i # End => Founded(i, done) /\ Ordered /\ TwoMetrics(urls)
    BY DEF MetricsInv
<1>4. CASE (DoNext(End, isModified, pg, frames) \/ DoNext(End, isModified, "ERROR", frames)) /\ UNCHANGED done
    BY <1>1, <1>4, DoNextFounds
<1>5. CASE i # End /\ DoNext(NextItem(i), TRUE, pg, frames) /\ done' = done \cup {i}
  <2>1. cmd = "INSTALL" /\ NextItem(i) # End => Founded(NextItem(i), done')
      BY <1>1, <1>2, <1>3, <1>5, NextFounded DEF End
  <2> QED
      BY <1>2, <1>5, <2>1, DoNextFounds
<1>6. CASE i # End /\ DoNext(Advance(i), isModified, pg, frames) /\ UNCHANGED done
  <2>1. cmd = "INSTALL" /\ Advance(i) # End => Founded(Advance(i), done')
      BY <1>1, <1>3, <1>6, AdvanceFounded
  <2> QED
      BY <1>1, <1>2, <1>6, <2>1, DoNextFounds
<1>7. CASE /\ i # End /\ it' = i /\ downloads' = frames /\ UNCHANGED <<cmd, dispatched, done>>
  <2>1. MetricsNext
      BY <1>3, <1>7 DEF MetricsInv, MetricsNext, AllFounded
  <2> QED
      BY <1>7, <2>1, MetricsPrimed
<1> QED
    BY <1>4, <1>5, <1>6, <1>7 DEF Proceed

LEMMA DbusFounds ==
    ASSUME TypeOK, NEW result, NEW frames \in Seq(1..Len(urls)), DbusStatus(result, frames),
           UNCHANGED urls, MetricsInv, cmd = "INSTALL" => AllFounded(frames, done)
    PROVE  MetricsInv'
<1>1. CASE Proceed(result, it, page, frames)
  <2>1. it \in 1..End
      BY DEF TypeOK, DialogTypeOK
  <2> QED
      BY <1>1, <2>1, ProceedFounds
<1>2. CASE downloads' = frames /\ UNCHANGED <<it, cmd, dispatched, done>>
  <2>1. MetricsNext
      BY <1>2 DEF MetricsInv, MetricsNext, AllFounded
  <2> QED
      BY <1>2, <2>1, MetricsPrimed
<1> QED
    BY <1>1, <1>2 DEF DbusStatus

\* Steps that send nothing and bring no new item.
LEMMA MetricsKept ==
    ASSUME MetricsInv, UNCHANGED <<urls, cmd, downloads, dispatched, done>>, it' = it \/ it' = End
    PROVE  MetricsInv'
<1>1. MetricsNext
    BY DEF MetricsInv, MetricsNext, AllFounded
<1> QED
    BY <1>1, MetricsPrimed

\* qSort keeps the metrics of a name as many as they were.
LEMMA SortedMetrics ==
    ASSUME NEW items \in Seq(Items), TwoMetrics(items), urls' \in Sorted(items)
    PROVE  Ordered' /\ TwoMetrics(urls')
<1>1. PICK p \in Bijection(DOMAIN items, DOMAIN items) : urls' = [k \in DOMAIN items |-> items[p[k]]]
    BY DEF Sorted
<1>2. DOMAIN urls' = DOMAIN items /\ \A k, l \in DOMAIN items : k < l => ~Less(urls'[l], urls'[k])
    BY <1>1 DEF Sorted
<1>3. Ordered'
    BY <1>2 DEF Ordered
<1>4. /\ p \in [DOMAIN items -> DOMAIN items]
      /\ \A a, b \in DOMAIN items : p[a] = p[b] => a = b
    BY DEF Bijection, Injection, IsInjective
<1>5. TwoMetrics(urls')
  <2> SUFFICES ASSUME NEW a \in DOMAIN items, NEW b \in DOMAIN items, NEW c \in DOMAIN items,
                      {urls'[a].type, urls'[b].type, urls'[c].type} \subseteq {TYPE1_AFM, TYPE1_PFM},
                      urls'[a].name = urls'[b].name, urls'[b].name = urls'[c].name
               PROVE  a = b \/ b = c \/ a = c
      BY <1>2 DEF TwoMetrics
  <2>1. urls'[a] = items[p[a]] /\ urls'[b] = items[p[b]] /\ urls'[c] = items[p[c]]
      BY <1>1
  <2>2. p[a] \in DOMAIN items /\ p[b] \in DOMAIN items /\ p[c] \in DOMAIN items
      BY <1>4
  <2>3. p[a] = p[b] \/ p[b] = p[c] \/ p[a] = p[c]
      BY <2>1, <2>2 DEF TwoMetrics
  <2> QED
      BY <1>4, <2>3
<1> QED
    BY <1>3, <1>5

LEMMA MetricsStep ==
    ASSUME \A j \in Jobs : j.cmd = "INSTALL" => TwoMetrics(j.items),
           TypeOK, TypeOK', MetricsInv, [Next]_vars
    PROVE  MetricsInv'
<1>0. /\ it \in 1..End /\ End \in 1..End /\ isModified \in BOOLEAN
      /\ downloads \in Seq(1..Len(urls)) /\ urls \in Seq(Items)
      /\ cmd = "INSTALL" => AllFounded(downloads, done) /\ (it # End => Founded(it, done))
    BY SentFacts DEF TypeOK, DialogTypeOK, MetricsInv, AllFounded, End
<1>1. ASSUME NEW j \in Jobs, Exec(j)
      PROVE  MetricsInv'
  <2> SUFFICES ASSUME cmd' = "INSTALL"
               PROVE  MetricsInv'
      BY DEF MetricsInv
  <2>1. /\ j.cmd = "INSTALL" /\ urls' \in Sorted(j.items) /\ it' = 1
        /\ downloads' = <<>> /\ dispatched' = <<>>
      BY <1>1 DEF Exec, Exists, ItemLists
  <2>2. Ordered' /\ TwoMetrics(urls')
    <3>1. j.items \in Seq(Items)
        BY JobsAssumption
    <3> QED
        BY <2>1, <3>1, SortedMetrics
  <2>3. it' # End' => Founded(it, done)'
    <3> SUFFICES ASSUME 1 # End', IsMetric(it)', FontsOf(it)' # {}
                 PROVE  FALSE
        BY <2>1 DEF Founded
    <3> USE DEF TYPE1_FONT, TYPE1_AFM, TYPE1_PFM
    <3>1. urls' \in Seq(Items) /\ Len(urls') \in Nat /\ DOMAIN urls' = 1..Len(urls')
        BY LenProperties DEF TypeOK, DialogTypeOK
    <3>2. 1 \in DOMAIN urls'
        BY <3>1 DEF End
    <3>3. PICK f \in DOMAIN urls' : urls'[f].type = 0 /\ urls'[f].name = urls'[1].name
        BY <2>1 DEF FontsOf
    <3>4. urls'[1].type \in {1, 2}
        BY <2>1 DEF IsMetric
    <3>5. 1 < f
        BY <3>1, <3>3, <3>4
    <3> QED
        BY <2>2, <3>2, <3>3, <3>4, <3>5 DEF Ordered, Less
  <2> QED
      BY <2>1, <2>2, <2>3 DEF MetricsInv
<1>2. ASSUME FirstDoNext
      PROVE  MetricsInv'
  <2>1. DoNext(it, isModified, page, downloads) /\ UNCHANGED <<urls, done>>
      BY <1>2 DEF FirstDoNext
  <2> QED
      BY <1>0, <2>1, DoNextFounds
<1>3. ASSUME CheckInterface \/ ServiceOwnerChanged
      PROVE  MetricsInv'
  <2>1. UNCHANGED <<urls, cmd, downloads, dispatched, done>> /\ (it' = it \/ it' = End)
      BY <1>3 DEF CheckInterface, ServiceOwnerChanged, Abandon, historyVars
  <2> QED
      BY <2>1, MetricsKept
<1>4. ASSUME ReceiveStatus
      PROVE  MetricsInv'
  <2>1. DbusStatus(Head(signals).result, downloads) /\ UNCHANGED urls
      BY <1>4 DEF ReceiveStatus, Status
  <2> QED
      BY <1>0, <2>1, DbusFounds
<1>5. ASSUME IgnoreSignal
      PROVE  MetricsInv'
  <2>1. UNCHANGED <<urls, cmd, downloads, dispatched, done, it>>
      BY <1>5 DEF IgnoreSignal, Ignore, dialogVars, historyVars
  <2> QED
      BY <2>1, MetricsKept
\* The frames that are left, and the one that goes on.
<1>6. ASSUME downloads # <<>>
      PROVE  /\ OtherFrames \in Seq(1..Len(urls)) /\ Frame \in 1..Len(urls)
             /\ cmd = "INSTALL" => AllFounded(OtherFrames, done) /\ Founded(Frame, done)
  <2>1. OtherFrames \in Seq(1..Len(urls)) /\ Frame \in 1..Len(urls)
      BY <1>6, FramesType
  <2>2. /\ Len(downloads) \in Nat \ {0} /\ DOMAIN downloads = 1..Len(downloads)
      BY <1>0, <1>6, LenProperties, EmptySeq
  <2>3. /\ DOMAIN OtherFrames = 1..(Len(downloads) - 1)
        /\ \A k \in 1..(Len(downloads) - 1) : OtherFrames[k] = downloads[k]
      BY <1>0, <2>2 DEF OtherFrames
  <2>4. \A k \in DOMAIN OtherFrames : k \in DOMAIN downloads /\ OtherFrames[k] = downloads[k]
      BY <2>2, <2>3
  <2>5. Frame = downloads[Len(downloads)] /\ Len(downloads) \in DOMAIN downloads
      BY <2>2 DEF Frame
  <2> QED
      BY <1>0, <2>1, <2>4, <2>5 DEF AllFounded
<1>7. ASSUME DownloadDone
      PROVE  MetricsInv'
  <2>1. /\ downloads # <<>> /\ UNCHANGED <<urls, cmd, it, done>> /\ downloads' = OtherFrames
        /\ dispatched' = Append(dispatched, Frame)
      BY <1>7 DEF DownloadDone, SendItem
  <2>2. cmd = "INSTALL" => AllFounded(dispatched', done)
    <3>1. cmd = "INSTALL" => AllFounded(dispatched, done)
        BY DEF MetricsInv, AllFounded
    <3>2. dispatched \in Seq(1..Len(urls))
        BY DEF TypeOK, HistoryTypeOK
    <3> QED
        BY <1>6, <2>1, <3>1, <3>2, AppendFounded
  <2>3. MetricsNext
      BY <1>0, <1>6, <2>1, <2>2 DEF MetricsNext
  <2> QED
      BY <2>1, <2>3, MetricsPrimed
<1>8. ASSUME DownloadFails
      PROVE  MetricsInv'
  <2>1. downloads # <<>> /\ DbusStatus(DownloadFailed, OtherFrames) /\ UNCHANGED urls
      BY <1>8 DEF DownloadFails
  <2> QED
      BY <1>6, <2>1, DbusFounds
<1>9. ASSUME NEW auto \in BOOLEAN, Skip(auto)
      PROVE  MetricsInv'
  <2>1. UNCHANGED <<urls, done>>
      BY <1>9 DEF Skip, userFrame
  <2>2. CASE it # End /\ DoNext(Advance(it), isModified, "PROGRESS", downloads)
    <3>1. it \in 1..Len(urls)
        BY <1>0, <2>2, SentFacts DEF End
    <3>2. Advance(it) \in 1..End
        BY <1>0, <3>1, AfterItemRange
    <3>3. cmd = "INSTALL" /\ Advance(it) # End => Founded(Advance(it), done)
        BY <1>0, <2>2, <3>1, AdvanceFounded DEF MetricsInv
    <3> QED
        BY <1>0, <2>1, <2>2, <3>2, <3>3, DoNextFounds
  <2>3. CASE UNCHANGED <<cmd, it, downloads, dispatched>>
      BY <2>1, <2>3, MetricsKept
  <2> QED
      BY <1>9, <2>2, <2>3 DEF Skip
<1>10. ASSUME SkipCancel
       PROVE  MetricsInv'
  <2>1. DoNext(End, isModified, "PROGRESS", downloads) /\ UNCHANGED <<urls, done>>
      BY <1>10 DEF SkipCancel, userFrame
  <2> QED
      BY <1>0, <2>1, DoNextFounds
<1>11. ASSUME NEW yes \in BOOLEAN, ConfirmCancel(yes)
       PROVE  MetricsInv'
  <2>1. UNCHANGED urls /\ ResumeAt(yes) \in 1..End /\ (ResumeAt(yes) = it \/ ResumeAt(yes) = End)
      BY <1>0, <1>11 DEF ConfirmCancel, userFrame, ResumeAt
  <2>2. CASE Proceed(lastStatus, ResumeAt(yes), "PROGRESS", downloads)
      BY <1>0, <2>1, <2>2, ProceedFounds
  <2>3. CASE it' = ResumeAt(yes) /\ UNCHANGED <<cmd, downloads, dispatched, done>>
      BY <2>1, <2>3, MetricsKept
  <2> QED
      BY <1>11, <2>2, <2>3, Zenon DEF ConfirmCancel
<1>12. ASSUME ProgressCancel \/ CloseError \/ CloseComplete
       PROVE  MetricsInv'
  <2>1. UNCHANGED <<urls, cmd, downloads, dispatched, done, it>>
      BY <1>12 DEF ProgressCancel, CloseError, CloseComplete, userFrame
  <2> QED
      BY <2>1, MetricsKept
<1>13. ASSUME (BackendNext /\ UNCHANGED <<dialogVars, historyVars>>) \/ UNCHANGED vars
       PROVE  MetricsInv'
  <2>1. UNCHANGED <<urls, cmd, downloads, dispatched, done, it>>
      BY <1>13 DEF dialogVars, historyVars, vars
  <2> QED
      BY <2>1, MetricsKept
<1> QED
    BY <1>1, <1>2, <1>3, <1>4, <1>5, <1>7, <1>8, <1>9, <1>10, <1>11, <1>12, <1>13
       DEF Next, UserNext, LoopNext

(* When no font of a list has more than two metrics, those of a Type 1 font *)
(* that was not installed are never sent, be it skipped by the user, by     *)
(* AutoSkip, or while it was being downloaded (JobRunner.cpp:510, :555).    *)
THEOREM MetricsNeedTheirFont ==
    ASSUME \A j \in Jobs : j.cmd = "INSTALL" => TwoMetrics(j.items)
    PROVE  Spec => []MetricsFollowFont
<1>1. Init => MetricsInv
    BY DEF Init, MetricsInv
<1>2. TypeOK /\ TypeOK' /\ MetricsInv /\ [Next]_vars => MetricsInv'
    BY MetricsStep
<1>3. TypeOK /\ MetricsInv => MetricsFollowFont
  <2> SUFFICES ASSUME TypeOK, MetricsInv, cmd = "INSTALL", NEW k \in DOMAIN dispatched
               PROVE  LET p == dispatched[k]
                          fonts == {f \in DOMAIN urls : urls[f].type = TYPE1_FONT
                                                        /\ urls[f].name = urls[p].name}
                      IN  urls[p].type \in {TYPE1_AFM, TYPE1_PFM} /\ fonts # {} => fonts \cap done # {}
      BY DEF MetricsFollowFont
  <2>1. Founded(dispatched[k], done)
      BY DEF MetricsInv
  <2> QED
      BY <2>1 DEF Founded, IsMetric, FontsOf
<1> QED
    BY <1>1, <1>2, <1>3, TypeCorrect, PTL DEF Spec
==============================================================================
