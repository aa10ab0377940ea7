---------------------------- MODULE JournalProofs ----------------------------
(***************************************************************************)
(* What a font job counts as done was acted on by the daemon, and a job    *)
(* that says it has finished has its fonts configured.                     *)
(*                                                                         *)
(* JournalInv says which requests can be on the bus, in the daemon's hands *)
(* or behind it; ActedInv, that a status 0 answers one it has acted on;    *)
(* ConfiguredInv, that nothing but a reconfiguration is out once one has   *)
(* been asked for, and that the daemon remembers what it has to do.  With  *)
(* them the dialog is shown to implement the abstract specification FontJob. *)
(***************************************************************************)
EXTENDS OrderProofs

-----------------------------------------------------------------------------
(* What the daemon has been asked for, and what it has acted on.           *)

\* The requests there can be: the dialog's own are of this job or an earlier
\* one, those of this job name an item it has dispatched.  Others' come from processes
\* that are there.
Sent ==
    {r \in Requests :
       /\ r.pid = "app" => r.job <= job
       /\ r.pid = "app" /\ r.job = job /\ r.method # "reconfigure" =>
            \E k \in DOMAIN dispatched : dispatched[k] = r.pos
       /\ r.method = "reconfigure" => r.pos = 0
       /\ r.pid # "app" => foreign > 0}

JournalInv ==
    /\ requests \in Seq(Sent) /\ handling \in Seq(Sent)
    /\ acted \subseteq {r \in Sent : r.method # "reconfigure"}

LEMMA SeqMonotone ==
    ASSUME NEW S, NEW T, S \subseteq T, NEW s \in Seq(S)
    PROVE  s \in Seq(T)
<1>1. Len(s) \in Nat /\ DOMAIN s = 1..Len(s) /\ \A k \in 1..Len(s) : s[k] \in S
    BY LenProperties, ElementOfSeq
<1>2. s = [k \in 1..Len(s) |-> s[k]]
    BY SeqDef
<1>3. s \in [1..Len(s) -> T]
    BY <1>1, <1>2
<1> QED
    BY <1>1, <1>3, SeqDef

\* What a step of the dialog may send.
Sends ==
    \/ UNCHANGED <<requests, dispatched>>
    \/ /\ \E f \in BOOLEAN : Send(Request("reconfigure", 0, f, FALSE))
       /\ UNCHANGED dispatched
    \/ \E i \in 1..Len(urls), afm \in BOOLEAN : SendItem(i, afm)

LEMMA DoNextSends ==
    ASSUME TypeOK, NEW i \in 1..End, NEW m, NEW pg, NEW frames, DoNext(i, m, pg, frames)
    PROVE  Sends
<1>1. i # End => i \in 1..Len(urls)
    BY SentFacts DEF End
<1>2. CreateAfm(i) \in BOOLEAN /\ (cmd = "UPDATE") \in BOOLEAN
    BY DEF CreateAfm
<1>3. CASE i = End /\ NeedsReconfigure(m)
    BY <1>2, <1>3, Zenon DEF DoNext, Sends
<1>4. CASE i # End /\ ~(cmd = "INSTALL" /\ urls[i].remote)
    BY <1>1, <1>2, <1>4, Zenon DEF DoNext, Sends
<1>5. CASE UNCHANGED <<requests, dispatched>>
    BY <1>5 DEF Sends
<1> QED
    BY <1>3, <1>4, <1>5 DEF DoNext

LEMMA ProceedSends ==
    ASSUME TypeOK, NEW result, NEW i \in 1..End, NEW pg, NEW frames,
           Proceed(result, i, pg, frames)
    PROVE  Sends
<1>1. End \in 1..End /\ (i # End => NextItem(i) \in 1..End /\ Advance(i) \in 1..End)
    BY SentFacts, AfterItemRange DEF NextItem, End, TypeOK, DialogTypeOK
<1>2. CASE UNCHANGED <<requests, dispatched>>
    BY <1>2 DEF Sends
<1> QED
    BY <1>1, <1>2, DoNextSends DEF Proceed

LEMMA DbusSends ==
    ASSUME TypeOK, NEW result, NEW frames, DbusStatus(result, frames)
    PROVE  Sends
<1>1. it \in 1..End
    BY DEF TypeOK, DialogTypeOK
<1>2. CASE UNCHANGED <<requests, dispatched>>
    BY <1>2 DEF Sends
<1> QED
    BY <1>1, <1>2, ProceedSends DEF DbusStatus

\* A step of the dialog, but for the start of a job.
LEMMA DialogSends ==
    ASSUME TypeOK, (\E j \in Jobs : Exec(j)) => FALSE, UserNext \/ LoopNext
    PROVE  Sends /\ UNCHANGED <<job, urls, daemonVars, deaths, foreign>>
<1>0. it \in 1..End /\ End \in 1..End
    BY SentFacts DEF TypeOK, DialogTypeOK, End
<1>1. CASE FirstDoNext
    BY <1>0, <1>1, DoNextSends DEF FirstDoNext, boundVars
<1>2. CASE CheckInterface \/ ServiceOwnerChanged \/ IgnoreSignal
    BY <1>2 DEF CheckInterface, ServiceOwnerChanged, IgnoreSignal, Ignore, backendVars, busVars,
                boundVars, dialogVars, historyVars, Sends
<1>3. CASE ReceiveStatus
    BY <1>3, DbusSends DEF ReceiveStatus, Status, boundVars
<1>4. CASE DownloadDone
  <2>1. Frame \in 1..Len(urls) /\ CreateAfm(it) \in BOOLEAN
      BY <1>4, FramesType DEF DownloadDone, CreateAfm
  <2>2. \E afm \in BOOLEAN : SendItem(Frame, afm)
      BY <1>4, <2>1 DEF DownloadDone
  <2> QED
      BY <1>4, <2>1, <2>2 DEF DownloadDone, boundVars, Sends
<1>5. CASE DownloadFails
    BY <1>5, DbusSends DEF DownloadFails, boundVars
<1>6. CASE ProgressCancel \/ CloseError \/ CloseComplete
    BY <1>6 DEF ProgressCancel, CloseError, CloseComplete, userFrame, boundVars, Sends
<1>7. CASE \E auto \in BOOLEAN : Skip(auto)
  <2>1. PICK auto \in BOOLEAN : Skip(auto)
      BY <1>7
  <2>2. it # End => Advance(it) \in 1..End
      BY <1>0, SentFacts, AfterItemRange DEF End, TypeOK, DialogTypeOK
  <2>3. CASE it # End /\ DoNext(Advance(it), isModified, "PROGRESS", downloads)
      BY <2>1, <2>2, <2>3, DoNextSends DEF Skip, userFrame, boundVars
  <2>4. CASE UNCHANGED <<requests, dispatched>>
      BY <2>1, <2>4 DEF Skip, userFrame, boundVars, Sends
  <2> QED
      BY <2>1, <2>3, <2>4 DEF Skip
<1>8. CASE SkipCancel
    BY <1>0, <1>8, DoNextSends DEF SkipCancel, userFrame, boundVars
<1>9. CASE \E yes \in BOOLEAN : ConfirmCancel(yes)
  <2>1. PICK yes \in BOOLEAN : ConfirmCancel(yes)
      BY <1>9
  <2>2. ResumeAt(yes) \in 1..End
      BY <1>0 DEF ResumeAt
  <2>3. CASE Proceed(lastStatus, ResumeAt(yes), "PROGRESS", downloads)
      BY <2>1, <2>2, <2>3, ProceedSends DEF ConfirmCancel, userFrame, boundVars
  <2>4. CASE UNCHANGED <<requests, dispatched>>
      BY <2>1, <2>4 DEF ConfirmCancel, userFrame, boundVars, Sends
  <2> QED
      BY <2>1, <2>3, <2>4 DEF ConfirmCancel
<1> QED
    BY <1>1, <1>2, <1>3, <1>4, <1>5, <1>6, <1>7, <1>8, <1>9 DEF UserNext, LoopNext

\* What the dialog sends is of this job, and noted.
LEMMA SendsNoted ==
    ASSUME TypeOK, JournalInv, Sends, UNCHANGED <<job, urls, foreign>>
    PROVE  Sent \subseteq Sent' /\ requests' \in Seq(Sent')
<1>1. job \in Nat /\ Len(dispatched) \in Nat /\ DOMAIN dispatched = 1..Len(dispatched)
    BY SentFacts, JobsAssumption DEF TypeOK, HistoryTypeOK
<1>2. CASE UNCHANGED <<requests, dispatched>>
  <2>1. Sent' = Sent
      BY <1>2 DEF Sent
  <2> QED
      BY <1>2, <2>1 DEF JournalInv
<1>3. ASSUME NEW f \in BOOLEAN, Send(Request("reconfigure", 0, f, FALSE)), UNCHANGED dispatched
      PROVE  Sent \subseteq Sent' /\ requests' \in Seq(Sent')
  <2> DEFINE r == Request("reconfigure", 0, f, FALSE)
  <2>1. r \in Requests
      BY RequestType DEF TypeOK
  <2>2. r.method = "reconfigure" /\ r.pos = 0 /\ r.job = job /\ r.pid = "app"
      BY DEF Request
  <2>3. requests' = Append(requests, r)
      BY <1>3 DEF Send
  <2> HIDE DEF r
  <2>4. Sent' = Sent
      BY <1>3 DEF Sent
  <2>5. r \in Sent
      BY <1>1, <2>1, <2>2 DEF Sent
  <2>6. requests' \in Seq(Sent)
      BY <2>3, <2>5, AppendProperties DEF JournalInv
  <2> QED
      BY <2>4, <2>6
<1>4. ASSUME NEW i \in 1..Len(urls), NEW afm \in BOOLEAN, SendItem(i, afm)
      PROVE  Sent \subseteq Sent' /\ requests' \in Seq(Sent')
  <2> DEFINE r == Request(Method(i), i, FALSE, afm)
  <2>1. i \in Nat
      BY SentFacts
  <2>2. r \in Requests
      BY <2>1, MethodType, RequestType, Zenon DEF TypeOK
  <2>3. r.method # "reconfigure" /\ r.pos = i /\ r.job = job /\ r.pid = "app"
      BY DEF Request, Method
  <2>4. requests' = Append(requests, r) /\ dispatched' = Append(dispatched, i)
      BY <1>4 DEF SendItem, Send
  <2> HIDE DEF r
  <2>5. /\ DOMAIN dispatched' = 1..(Len(dispatched) + 1)
        /\ \A k \in 1..Len(dispatched) : dispatched'[k] = dispatched[k]
        /\ dispatched'[Len(dispatched) + 1] = i
      BY <2>4, SendFacts
  <2>6. Sent \subseteq Sent'
      BY <1>1, <2>5 DEF Sent
  <2>7. r \in Sent'
      BY <1>1, <2>2, <2>3, <2>5 DEF Sent
  <2>8. requests \in Seq(Sent')
      BY <2>6, SeqMonotone DEF JournalInv
  <2> QED
      BY <2>4, <2>6, <2>7, <2>8, AppendProperties
<1> QED
    BY <1>2, <1>3, <1>4 DEF Sends

\* The daemon's steps move requests and carry some of them out.
LEMMA BackendJournal ==
    ASSUME BackendTypeOK, JournalInv, BackendNext, UNCHANGED <<job, dispatched>>
    PROVE  JournalInv'
<1> USE DEF JournalInv
<1>1. CASE ForeignRequest
  <2>1. PICK m \in {"uninstall", "move", "reconfigure"}, f \in Folders :
            Send([method |-> m, pid |-> "other", job |-> 0, pos |-> 0, folder |-> f,
                  metric |-> FALSE, force |-> FALSE, createAfm |-> FALSE])
      BY <1>1 DEF ForeignRequest
  <2> DEFINE r == [method |-> m, pid |-> "other", job |-> 0, pos |-> 0, folder |-> f,
                   metric |-> FALSE, force |-> FALSE, createAfm |-> FALSE]
  <2>2. r \in Requests
      BY DEF Requests, ItemMethods, Pids
  <2>3. r.pid # "app" /\ r.pos = 0 /\ requests' = Append(requests, r)
      BY <2>1 DEF Send
  <2> HIDE DEF r
  <2>4. foreign' = foreign + 1 /\ foreign \in Nat
      BY <1>1, BoundsAssumption DEF ForeignRequest, BackendTypeOK
  <2>5. r \in Sent' /\ Sent \subseteq Sent'
      BY <2>2, <2>3, <2>4 DEF Sent
  <2>6. requests \in Seq(Sent') /\ handling \in Seq(Sent')
      BY <2>5, SeqMonotone
  <2>7. handling' = handling /\ acted' = acted
      BY <1>1 DEF ForeignRequest, daemonVars
  <2> QED
      BY <2>3, <2>5, <2>6, <2>7, AppendProperties
<1> SUFFICES ASSUME ~ForeignRequest, UNCHANGED foreign
             PROVE  JournalInv'
    BY <1>1 DEF BackendNext, DaemonTurn, Take, AnswerOk, AnswerError, AskHelper, HelperAnswers,
                Reconfigure, AnswerReconfigure, Die, Start, StartFails, boundVars
<1>0. Sent' = Sent
    BY DEF Sent
<1> SUFFICES /\ requests' \in Seq(Sent) /\ handling' \in Seq(Sent)
             /\ acted' \subseteq {r \in Sent : r.method # "reconfigure"}
    BY <1>0
<1>2. CASE Take
  <2>1. Head(requests) \in Sent /\ Tail(requests) \in Seq(Sent)
      BY <1>2, HeadTailProperties DEF Take
  <2> QED
      BY <1>2, <2>1, AppendProperties DEF Take
<1>3. ASSUME handling # <<>>
      PROVE  Top \in Sent /\ Pop \in Seq(Sent)
  <2>1. Len(handling) \in Nat \ {0} /\ \A i \in 1..Len(handling) : handling[i] \in Sent
      BY <1>3, EmptySeq, ElementOfSeq
  <2>2. \A i \in 1..(Len(handling) - 1) : handling[i] \in Sent
      BY <2>1
  <2> QED
      BY <2>1, <2>2, SubSeqProperties DEF Top, Pop
<1>4. CASE AnswerOk \/ AnswerError \/ HelperAnswers
    BY <1>3, <1>4 DEF AnswerOk, AnswerError, HelperAnswers, Executes
<1>5. CASE AskHelper \/ Reconfigure \/ AnswerReconfigure
    BY <1>3, <1>5 DEF AskHelper, Reconfigure, AnswerReconfigure, Executes, busVars
<1>6. CASE Die
  <2>1. PICK d \in SUBSET {r \in {handling[i] : i \in 1..Len(handling)} :
                              r.method # "reconfigure"} : acted' = acted \cup d
      BY <1>6 DEF Die
  <2>2. d \subseteq {r \in Sent : r.method # "reconfigure"}
      BY ElementOfSeq
  <2>3. PICK k \in 0..Len(requests) : requests' = SubSeq(requests, k + 1, Len(requests))
      BY <1>6 DEF Die
  <2>4. requests' \in Seq(Sent)
    <3>1. Len(requests) \in Nat /\ \A i \in 1..Len(requests) : requests[i] \in Sent
        BY LenProperties, ElementOfSeq
    <3>2. k + 1 \in Int /\ \A i \in (k + 1)..Len(requests) : requests[i] \in Sent
        BY <3>1
    <3> QED
        BY <2>3, <3>1, <3>2, SubSeqProperties
  <2> QED
      BY <1>6, <2>1, <2>2, <2>4, EmptySeq DEF Die
<1>7. CASE Start \/ StartFails
    BY <1>7, EmptySeq DEF Start, StartFails, busVars, daemonVars
<1> QED
    BY <1>2, <1>4, <1>5, <1>6, <1>7 DEF BackendNext, DaemonTurn

\* A new job finds requests of earlier ones only.
LEMMA ExecJournal ==
    ASSUME TypeOK, JournalInv, NEW j \in Jobs, Exec(j)
    PROVE  JournalInv'
<1>1. job' = job + 1 /\ job \in Nat /\ UNCHANGED <<requests, handling, acted, foreign>>
    BY JobsAssumption DEF Exec, backendVars, busVars, daemonVars, boundVars, TypeOK, HistoryTypeOK
<1>2. \A r \in Sent : r.job \in Nat
    BY DEF Sent, Requests
<1>3. Sent \subseteq Sent'
    BY <1>1, <1>2 DEF Sent
<1> QED
    BY <1>1, <1>3, SeqMonotone DEF JournalInv

LEMMA JournalStep ==
    ASSUME TypeOK, JournalInv, [Next]_vars
    PROVE  JournalInv'
<1>1. CASE \E j \in Jobs : Exec(j)
    BY <1>1, ExecJournal
<1>2. CASE (UserNext \/ LoopNext) /\ ~\E j \in Jobs : Exec(j)
  <2>1. Sends /\ UNCHANGED <<job, urls, handling, acted, foreign>>
      BY <1>2, DialogSends DEF daemonVars
  <2>2. Sent \subseteq Sent' /\ requests' \in Seq(Sent')
      BY <2>1, SendsNoted
  <2> QED
      BY <2>1, <2>2, SeqMonotone DEF JournalInv
<1>3. CASE BackendNext /\ UNCHANGED <<dialogVars, historyVars>>
    BY <1>3, BackendJournal DEF TypeOK, historyVars
<1>4. CASE UNCHANGED vars
    BY <1>4 DEF JournalInv, Sent, vars, backendVars, busVars, daemonVars, boundVars, historyVars
<1> QED
    BY <1>1, <1>2, <1>3, <1>4 DEF Next

(* Every request on its way, being executed or acted on was sent by this    *)
(* job for an item it dispatched, by an earlier job, or by someone else.    *)
THEOREM JournalInvariant == Spec => []JournalInv
<1>1. Init => JournalInv
    BY EmptySeq DEF Init, BackendInit, JournalInv
<1>2. TypeOK /\ JournalInv /\ [Next]_vars => JournalInv'
    BY JournalStep
<1> QED
    BY <1>1, <1>2, TypeCorrect, PTL DEF Spec

-----------------------------------------------------------------------------
(* A status 0 is the answer to something that was acted on.                *)
WasActedOn(i) == \E r \in acted : r.pid = "app" /\ r.job = job /\ r.pos = i

OkInv ==
    \A k \in DOMAIN signals :
        signals[k] # OwnerLost /\ signals[k].result = "ok" =>
            signals[k].of \in acted \/ signals[k].of.pos = 0

\* What counts as done was acted on, and so was the item whose status the
\* cancel page holds back.
ResultInv ==
    /\ \A i \in done : WasActedOn(i)
    /\ open /\ page = "CANCEL" /\ lastStatus = "ok" /\ it # End => WasActedOn(it)

ActedInv == OkInv /\ (~late => ResultInv)

LEMMA TailOk ==
    ASSUME BackendTypeOK, OkInv, signals # <<>>, signals' = Tail(signals), acted' = acted
    PROVE  OkInv'
<1>1. /\ DOMAIN signals = 1..Len(signals) /\ Len(signals) \in Nat
      /\ DOMAIN signals' = 1..(Len(signals) - 1)
      /\ \A k \in 1..(Len(signals) - 1) : signals'[k] = signals[k + 1]
  <2>1. signals \in Seq(Signals)
      BY DEF BackendTypeOK
  <2> QED
      BY <2>1, LenProperties, EmptySeq, HeadTailProperties
<1> QED
    BY <1>1 DEF OkInv

LEMMA AppendOk ==
    ASSUME BackendTypeOK, OkInv, acted \subseteq acted', NEW s,
           signals' = Append(signals, s),
           s # OwnerLost /\ s.result = "ok" => s.of \in acted' \/ s.of.pos = 0
    PROVE  OkInv'
<1>1. signals \in Seq(Signals \cup {s}) /\ s \in Signals \cup {s}
  <2>1. signals \in Seq(Signals)
      BY DEF BackendTypeOK
  <2> QED
      BY <2>1, SeqMonotone
<1>2. /\ DOMAIN signals = 1..Len(signals) /\ Len(signals) \in Nat
      /\ DOMAIN signals' = 1..(Len(signals) + 1)
      /\ \A k \in 1..Len(signals) : signals'[k] = signals[k]
      /\ signals'[Len(signals) + 1] = s
    BY <1>1, LenProperties, AppendProperties
<1> QED
    BY <1>2 DEF OkInv

LEMMA BackendOk ==
    ASSUME BackendTypeOK, JournalInv, OkInv, BackendNext
    PROVE  OkInv' /\ acted \subseteq acted'
<1>1. ASSUME NEW result, Reply(result), acted \subseteq acted',
             result = "ok" => Top \in acted' \/ Top.pos = 0
      PROVE  OkInv'
  <2> DEFINE s == [kind |-> "status", result |-> result, of |-> Top]
  <2>1. signals' = Append(signals, s) /\ s.result = result /\ s.of = Top
      BY <1>1 DEF Reply
  <2> HIDE DEF s
  <2> QED
      BY <1>1, <2>1, AppendOk
<1>2. CASE AnswerOk
    BY <1>1, <1>2 DEF AnswerOk
<1>3. CASE AnswerError \/ HelperAnswers
    BY <1>1, <1>3 DEF AnswerError, HelperAnswers
<1>4. CASE AnswerReconfigure
  <2>1. Top \in Sent
    <3>1. Len(handling) \in Nat \ {0} /\ \A i \in 1..Len(handling) : handling[i] \in Sent
        BY <1>4, EmptySeq, ElementOfSeq DEF AnswerReconfigure, Executes, JournalInv
    <3> QED
        BY <3>1 DEF Top
  <2>2. Top.pos = 0
      BY <1>4, <2>1 DEF AnswerReconfigure, Sent
  <2> QED
      BY <1>1, <1>4, <2>2 DEF AnswerReconfigure
<1>5. CASE Die
  <2>1. signals' = Append(signals, OwnerLost) /\ acted \subseteq acted'
      BY <1>5 DEF Die
  <2> QED
      BY <2>1, AppendOk
<1>6. CASE ForeignRequest \/ Take \/ AskHelper \/ Reconfigure \/ Start \/ StartFails
    BY <1>6 DEF ForeignRequest, Take, AskHelper, Reconfigure, Start, StartFails, busVars,
                daemonVars, OkInv
<1> QED
    BY <1>2, <1>3, <1>4, <1>5, <1>6 DEF BackendNext, DaemonTurn

LEMMA ProceedActs ==
    ASSUME ResultInv, NEW result, NEW i, NEW pg, NEW frames, Proceed(result, i, pg, frames),
           UNCHANGED <<job, acted, urls>>,
           result = "ok" /\ i # End => WasActedOn(i), open => pg # "CANCEL"
    PROVE  ResultInv'
<1>1. \A d : WasActedOn(d)' <=> WasActedOn(d)
    BY DEF WasActedOn
<1>2. \A d \in done' : WasActedOn(d)
  <2>1. done' = done \/ (i # End /\ result = "ok" /\ done' = done \cup {i})
      BY DEF Proceed, Succeeded
  <2> QED
      BY <2>1 DEF ResultInv
<1>3. ~(open' /\ page' = "CANCEL")
    BY DEF Proceed, DoNext
<1> QED
    BY <1>1, <1>2, <1>3 DEF ResultInv

LEMMA DbusActs ==
    ASSUME ResultInv, NEW result, NEW frames, DbusStatus(result, frames),
           UNCHANGED <<job, acted, urls>>,
           result = "ok" /\ it # End => WasActedOn(it), open => page # "CANCEL"
    PROVE  ResultInv'
<1>1. (\A d : WasActedOn(d)' <=> WasActedOn(d)) /\ End' = End
    BY DEF WasActedOn, End
<1>2. CASE cmd = "UPDATE"
    BY <1>1, <1>2 DEF DbusStatus, ResultInv
<1>3. CASE cmd # "UPDATE" /\ cancelClicked
    BY <1>1, <1>3 DEF DbusStatus, ResultInv
<1>4. CASE cmd # "UPDATE" /\ ~cancelClicked
    BY <1>4, ProceedActs DEF DbusStatus
<1> QED
    BY <1>2, <1>3, <1>4

\* Steps that count nothing and do not turn to the cancel page.
LEMMA ResultKept ==
    ASSUME ResultInv, UNCHANGED <<done, job, lastStatus, urls>>, acted \subseteq acted',
           open' /\ page' = "CANCEL" => open /\ page = "CANCEL" /\ it' = it
    PROVE  ResultInv'
<1>1. (\A d : WasActedOn(d) => WasActedOn(d)') /\ End' = End
    BY DEF WasActedOn, End
<1> QED
    BY <1>1 DEF ResultInv

LEMMA ResultStep ==
    ASSUME TypeOK, Conversation, AnswersMatch, JournalInv, OkInv, ResultInv, [Next]_vars,
           ~late, ~late'
    PROVE  ResultInv'
<1>1. ASSUME NEW j \in Jobs, Exec(j)
      PROVE  ResultInv'
    BY <1>1 DEF Exec, ResultInv
<1>2. CASE FirstDoNext
  <2>1. ~Asking
      BY <1>2 DEF FirstDoNext, NotStarted, Conversation, OneDownload
  <2>2. /\ UNCHANGED <<done, job, lastStatus, urls, acted>>
        /\ DoNext(it, isModified, page, downloads)
      BY <1>2 DEF FirstDoNext, daemonVars
  <2>3. page' = page /\ (open' => open)
    <3>1. page' = page
        BY <2>2 DEF DoNext
    <3>2. it = End => (open' => open)
        BY <2>2 DEF DoNext
    <3>3. it # End => open' = open
        BY <2>2, Zenon DEF DoNext
    <3> QED
        BY <3>1, <3>2, <3>3
  <2>4. ~(open' /\ page' = "CANCEL")
      BY <2>1, <2>3 DEF Asking
  <2> QED
      BY <2>2, <2>4, ResultKept
<1>3. CASE CheckInterface \/ ServiceOwnerChanged \/ IgnoreSignal \/ ProgressCancel
           \/ CloseError \/ CloseComplete
  <2>1. UNCHANGED <<done, job, lastStatus, urls, acted>>
      BY <1>3 DEF CheckInterface, ServiceOwnerChanged, IgnoreSignal, Ignore, ProgressCancel,
                  CloseError, CloseComplete, userFrame, dialogVars, historyVars, backendVars,
                  daemonVars
  <2>2. UNCHANGED <<open, page, it>> \/ ~open' \/ page' = "ERROR"
      BY <1>3 DEF CheckInterface, ServiceOwnerChanged, Abandon, IgnoreSignal, Ignore,
                  ProgressCancel, CloseError, CloseComplete, dialogVars
  <2> QED
      BY <2>1, <2>2, ResultKept
<1>4. CASE ReceiveStatus
  <2>1. /\ signals # <<>> /\ Head(signals) # OwnerLost /\ Mine(Head(signals))
        /\ signals' = Tail(signals) /\ Exists
        /\ DbusStatus(Head(signals).result, downloads)
        /\ UNCHANGED <<urls, job, acted>>
      BY <1>4 DEF ReceiveStatus, Status, daemonVars
  <2>2. Tokens # {}
      BY <2>1, AnswerTaken DEF Conversation, TypeOK
  <2>3. ~Asking
      BY <2>2 DEF Conversation, NothingOut
  <2>4. 1 \in DOMAIN signals /\ Head(signals) = signals[1]
      BY <2>1, SignalQueue DEF TypeOK
  <2>5. ASSUME Head(signals).result = "ok", it # End
        PROVE  WasActedOn(it)
    <3>1. /\ signals[1].of.pid = "app" /\ signals[1].of.job = job /\ signals[1].of.pos = it
        BY <2>1, <2>4, <2>5 DEF AnswersMatch, Mine
    <3>2. it # 0
        BY DEF TypeOK, DialogTypeOK
    <3>3. signals[1].of \in acted
        BY <2>1, <2>4, <2>5, <3>1, <3>2 DEF OkInv
    <3> QED
        BY <3>1, <3>3 DEF WasActedOn
  <2> QED
      BY <2>1, <2>3, <2>5, DbusActs DEF Asking
<1>5. CASE DownloadDone
  <2>1. UNCHANGED <<done, job, lastStatus, urls, acted, open, page, it>>
      BY <1>5 DEF DownloadDone, daemonVars
  <2> QED
      BY <2>1, ResultKept
<1>6. CASE DownloadFails
  <2>1. /\ DbusStatus(DownloadFailed, OtherFrames) /\ UNCHANGED <<urls, job, acted>>
        /\ downloads # <<>>
      BY <1>6 DEF DownloadFails, daemonVars
  <2>2. ~Asking
      BY <2>1 DEF Conversation, OneDownload
  <2>3. DownloadFailed # "ok"
      BY DEF DownloadFailed
  <2> QED
      BY <2>1, <2>2, <2>3, DbusActs DEF Asking
<1>7. CASE (\E auto \in BOOLEAN : Skip(auto)) \/ SkipCancel
  <2>1. /\ UNCHANGED <<done, job, lastStatus, urls, acted>>
        /\ page' # "CANCEL"
      BY <1>7 DEF Skip, SkipCancel, DoNext, userFrame, daemonVars
  <2> QED
      BY <2>1, ResultKept
<1>8. CASE \E yes \in BOOLEAN : ConfirmCancel(yes)
  <2>1. PICK yes \in BOOLEAN : ConfirmCancel(yes)
      BY <1>8
  <2>2. UNCHANGED <<urls, job, acted, lastStatus>> /\ open /\ page = "CANCEL"
      BY <2>1 DEF ConfirmCancel, userFrame, daemonVars
  <2>3. CASE Proceed(lastStatus, ResumeAt(yes), "PROGRESS", downloads)
    <3>1. lastStatus = "ok" /\ ResumeAt(yes) # End => WasActedOn(ResumeAt(yes))
        BY <2>2 DEF ResultInv, ResumeAt
    <3> QED
        BY <2>2, <2>3, <3>1, ProceedActs
  <2>4. CASE page' # "CANCEL" /\ UNCHANGED done
      BY <2>2, <2>4, ResultKept
  <2> QED
      BY <2>1, <2>3, <2>4, Zenon DEF ConfirmCancel
<1>9. CASE BackendNext /\ UNCHANGED <<dialogVars, historyVars>>
  <2>1. UNCHANGED <<done, job, lastStatus, urls, open, page, it>>
      BY <1>9 DEF dialogVars, historyVars
  <2>2. acted \subseteq acted'
      BY <1>9, BackendOk DEF TypeOK
  <2> QED
      BY <2>1, <2>2, ResultKept
<1>10. CASE UNCHANGED vars
  <2>1. UNCHANGED <<done, job, lastStatus, urls, open, page, it, acted>>
      BY <1>10 DEF vars, dialogVars, historyVars, backendVars, daemonVars
  <2> QED
      BY <2>1, ResultKept
<1> QED
    BY <1>1, <1>2, <1>3, <1>4, <1>5, <1>6, <1>7, <1>8, <1>9, <1>10 DEF Next, UserNext, LoopNext

LEMMA OkStep ==
    ASSUME TypeOK, JournalInv, OkInv, [Next]_vars
    PROVE  OkInv'
<1>1. CASE BackendNext
    BY <1>1, BackendOk DEF TypeOK
<1>2. CASE signals # <<>> /\ signals' = Tail(signals) /\ acted' = acted
    BY <1>2, TailOk DEF TypeOK
<1>3. CASE UNCHANGED <<signals, acted>>
    BY <1>3 DEF OkInv
<1> QED
    BY <1>1, <1>2, <1>3
       DEF Next, UserNext, LoopNext, Exec, FirstDoNext, CheckInterface, ServiceOwnerChanged,
           ReceiveStatus, Status, IgnoreSignal, Ignore, DownloadDone, DownloadFails,
           ProgressCancel, Skip, SkipCancel, ConfirmCancel, CloseError, CloseComplete,
           userFrame, backendVars, busVars, daemonVars, vars

(* A status 0 on its way answers a request that was acted on; the items     *)
(* counted as done, and the one the cancel page holds back, were.           *)
THEOREM ActedInvariant == Spec => []ActedInv
<1>1. Init => ActedInv
  <2> SUFFICES ASSUME Init
               PROVE  ActedInv
      OBVIOUS
  <2>1. DOMAIN signals = {} /\ done = {} /\ ~open
      BY DEF Init, BackendInit
  <2> QED
      BY <2>1 DEF ActedInv, OkInv, ResultInv
<1>2. /\ TypeOK /\ ConversationInv /\ AnswersMatch /\ JournalInv /\ ActedInv /\ [Next]_vars
      => ActedInv'
  <2> SUFFICES ASSUME TypeOK, ConversationInv, AnswersMatch, JournalInv, ActedInv, [Next]_vars
               PROVE  ActedInv'
      OBVIOUS
  <2>1. OkInv'
      BY OkStep DEF ActedInv
  <2>2. ASSUME ~late', late
        PROVE  ResultInv'
    <3>1. PICK j \in Jobs : Exec(j)
        BY <2>2, LateStep
    <3> QED
        BY <3>1 DEF Exec, ResultInv
  <2>3. ASSUME ~late', ~late
        PROVE  ResultInv'
      BY <2>3, InvFormula, ResultStep DEF ActedInv
  <2> QED
      BY <2>1, <2>2, <2>3 DEF ActedInv
<1> QED
    BY <1>1, <1>2, TypeCorrect, ConversationInvariant, AnswersForCurrentItem, JournalInvariant,
       PTL DEF Spec

(* What the dialog counts as done was acted on by the daemon, whatever the  *)
(* user cancelled, skipped or resumed: done in the user's folder, asked of  *)
(* the helper elsewhere.                                                    *)
THEOREM DoneIsActedOn == Spec => []DoneWereActedOn
<1>1. ActedInv => DoneWereActedOn
    BY DEF ActedInv, ResultInv, WasActedOn, DoneWereActedOn
<1> QED
    BY <1>1, ActedInvariant, PTL

-----------------------------------------------------------------------------
(* A finished job is a configured one.                                     *)
Own(r) == r.pid = "app" /\ r.job = job

\* Its changes that are to be configured.  A move notes the folder before it waits
\* for the helper; another process may have it configured meanwhile.
Counts(r) == Own(r) /\ (r.method = "move" => foreign = 0)
Configured == \A r \in unconfigured : ~Counts(r)

\* A daemon that has not died knows that the job has changed the user's fonts.
Remembered == deaths = 0 /\ (\E r \in unconfigured : Counts(r)) => userModified

\* The dialog's own calls that wait in a nested event loop.
MyWaits == waiting \cap MineIn(handling)

\* While a move waits, the folder it will change is noted.
WaitNoted ==
    deaths = 0 /\ foreign = 0 =>
        \A k \in MyWaits : handling[k].method = "move" => userModified

ConfigRest ==
    /\ cmd = "UPDATE" => \A t \in Tokens : RequestOf(t).method = "reconfigure"
    /\ cmd = "UPDATE" /\ deaths = 0 /\ MyWaits # {} => Configured
    /\ cmd = "UPDATE" /\ deaths = 0 /\ MySignals # {} => Configured
    /\ open /\ page = "COMPLETE" => Tokens = {} /\ ~doNextDue
    /\ open /\ page = "COMPLETE" /\ deaths = 0 => Configured

ConfiguredInv == ~late => Remembered /\ WaitNoted /\ ConfigRest

\* The call on top is the dialog's own when it is among its calls.
LEMMA MineTop ==
    ASSUME BackendTypeOK, handling # <<>>
    PROVE  /\ Len(handling) \in Nat \ {0}
           /\ Top.pid = "app" => Len(handling) \in MineIn(handling)
           /\ Len(handling) \in MineIn(handling) => Top.pid = "app"
           /\ handling[Len(handling)] = Top
<1>1. Len(handling) \in Nat \ {0} /\ DOMAIN handling = 1..Len(handling)
    BY EmptySeq, LenProperties DEF BackendTypeOK
<1> QED
    BY <1>1 DEF Top, MineIn

\* What remains when the call on top has returned.
LEMMA PopMine ==
    ASSUME BackendTypeOK, handling # <<>>, handling' = Pop
    PROVE  \A k \in MineIn(handling') : k \in MineIn(handling) /\ handling'[k] = handling[k]
<1>1. /\ Len(handling) \in Nat \ {0} /\ Len(handling') = Len(handling) - 1
      /\ \A i \in 1..(Len(handling) - 1) : handling'[i] = handling[i]
    BY PopLength
<1>2. DOMAIN handling = 1..Len(handling) /\ DOMAIN handling' = 1..Len(handling')
  <2>1. Pop \in Seq(Requests)
      BY TopPopType
  <2> QED
      BY <2>1, LenProperties DEF BackendTypeOK
<1> QED
    BY <1>1, <1>2 DEF MineIn

\* A call that has been taken does not wait.
LEMMA TakeWaits ==
    ASSUME BackendTypeOK, Take
    PROVE  \A k \in waiting \cap MineIn(handling') :
              k \in MineIn(handling) /\ handling'[k] = handling[k]
<1>1. Head(requests) \in Requests /\ handling' = Append(handling, Head(requests))
    BY HeadTailProperties DEF Take, BackendTypeOK
<1>2. /\ Len(handling) \in Nat
      /\ DOMAIN handling = 1..Len(handling) /\ DOMAIN handling' = 1..(Len(handling) + 1)
      /\ \A i \in 1..Len(handling) : handling'[i] = handling[i]
    BY <1>1, LenProperties, AppendProperties DEF BackendTypeOK
<1> QED
    BY <1>2 DEF MineIn, BackendTypeOK

\* Once the fonts are being configured only a reconfiguration of the job is out.
LEMMA OthersOnTop ==
    ASSUME BackendTypeOK, ConfigRest, cmd = "UPDATE", handling # <<>>,
           Top.method # "reconfigure"
    PROVE  Top.pid # "app" /\ Len(handling) \notin MineIn(handling)
<1>1. ASSUME Len(handling) \in MineIn(handling)
      PROVE  FALSE
  <2>1. <<"daemon", Len(handling)>> \in Tokens
      BY <1>1, TokenPlaces
  <2>2. RequestOf(<<"daemon", Len(handling)>>) = Top
      BY MineTop, TokenRequests
  <2> QED
      BY <2>1, <2>2 DEF ConfigRest
<1> QED
    BY <1>1, MineTop

\* An answer of the daemon is for this process when its call was.
LEMMA ReplyMine ==
    ASSUME BackendTypeOK, handling # <<>>, NEW result \in Results, Reply(result),
           MySignals' # {}
    PROVE  MySignals # {} \/ Top.pid = "app"
<1> DEFINE s == [kind |-> "status", result |-> result, of |-> Top]
<1>1. s.of = Top /\ signals' = Append(signals, s) /\ s \in Signals
    BY TopPopType DEF Reply, Signals, Statuses
<1> HIDE DEF s
<1>2. /\ DOMAIN signals = 1..Len(signals) /\ Len(signals) \in Nat
      /\ DOMAIN signals' = 1..(Len(signals) + 1)
      /\ \A k \in 1..Len(signals) : signals'[k] = signals[k]
      /\ signals'[Len(signals) + 1] = s
    BY <1>1, LenProperties, AppendProperties DEF BackendTypeOK
<1>3. PICK k \in DOMAIN signals' : signals'[k] # OwnerLost /\ signals'[k].of.pid = "app"
    BY DEF MySignals
<1> QED
    BY <1>1, <1>2, <1>3 DEF MySignals

\* The daemon remembers what it has to do.
LEMMA NotedByBackend ==
    ASSUME BackendTypeOK, JournalInv, \A a, b \in Tokens : a = b,
           Remembered, WaitNoted, BackendNext, UNCHANGED job
    PROVE  Remembered' /\ WaitNoted'
<1> USE DEF Remembered, WaitNoted, Counts, Own, MyWaits
<1>1. CASE ForeignRequest
  <2>1. foreign' # 0 /\ UNCHANGED <<unconfigured, userModified, deaths>>
      BY <1>1 DEF ForeignRequest, daemonVars, BackendTypeOK
  <2> QED
      BY <2>1
<1>2. CASE Take
    BY <1>2, TakeWaits DEF Take, boundVars
<1>3. CASE AnswerOk \/ AnswerError
  <2>1. /\ handling # <<>> /\ handling' = Pop /\ UNCHANGED <<waiting, deaths, foreign>>
        /\ UNCHANGED <<unconfigured, userModified>> \/ userModified'
      BY <1>3 DEF AnswerOk, AnswerError, Executes, ChangeUserFonts, Noted, boundVars
  <2>2. \A k \in MineIn(handling') : k \in MineIn(handling) /\ handling'[k] = handling[k]
      BY <2>1, PopMine
  <2> QED
      BY <2>1, <2>2
<1>4. CASE AskHelper
  <2>1. /\ handling # <<>> /\ waiting' = waiting \cup {Len(handling)}
        /\ UNCHANGED <<handling, unconfigured, deaths, foreign>>
        /\ userModified => userModified'
        /\ Top.method = "move" => userModified'
      BY <1>4 DEF AskHelper, Executes, boundVars
  <2>2. handling[Len(handling)] = Top
      BY <2>1, MineTop
  <2> QED
      BY <2>1, <2>2
<1>5. CASE HelperAnswers
  <2>1. /\ handling # <<>> /\ Len(handling) \in waiting /\ handling' = Pop
        /\ waiting' \subseteq waiting /\ UNCHANGED <<userModified, deaths, foreign>>
        /\ \/ UNCHANGED unconfigured
           \/ Top.method = "move" /\ unconfigured' = unconfigured \cup {Top}
      BY <1>5 DEF HelperAnswers, Executes, Begun, boundVars
  <2>2. \A k \in MineIn(handling') : k \in MineIn(handling) /\ handling'[k] = handling[k]
      BY <2>1, PopMine
  <2>3. Top.pid = "app" => Len(handling) \in MineIn(handling) /\ handling[Len(handling)] = Top
      BY <2>1, MineTop
  <2>4. WaitNoted'
      BY <2>1, <2>2
  <2>5. ASSUME Top.method = "move", Counts(Top), deaths = 0
        PROVE  userModified
      BY <2>1, <2>3, <2>5
  <2> QED
      BY <2>1, <2>4, <2>5
<1>6. CASE Reconfigure
  <2>1. /\ handling # <<>> /\ Top.method = "reconfigure"
        /\ waiting' = waiting \cup {Len(handling)}
        /\ UNCHANGED <<handling, deaths, foreign>>
        /\ unconfigured' = {} \/ UNCHANGED <<unconfigured, userModified>>
      BY <1>6 DEF Reconfigure, Executes, busVars, boundVars
  <2>2. Remembered'
      BY <2>1
  <2>3. ASSUME foreign = 0, NEW k \in MineIn(handling)
        PROVE  handling[k].method = "reconfigure"
    <3>1. Len(handling) \in Nat \ {0} /\ Top \in Sent
      <4>1. Len(handling) \in Nat \ {0} /\ \A i \in 1..Len(handling) : handling[i] \in Sent
          BY <2>1, EmptySeq, ElementOfSeq DEF JournalInv
      <4> QED
          BY <4>1 DEF Top
    <3>2. Top.pid = "app"
        BY <2>3, <3>1 DEF Sent
    <3>3. Len(handling) \in MineIn(handling) /\ handling[Len(handling)] = Top
        BY <2>1, <3>2, MineTop
    <3>4. <<"daemon", k>> = <<"daemon", Len(handling)>>
        BY <2>3, <3>3, TokenPlaces
    <3> QED
        BY <2>1, <3>3, <3>4
  <2>4. WaitNoted'
      BY <2>1, <2>3
  <2> QED
      BY <2>2, <2>4
<1>7. CASE AnswerReconfigure
  <2>1. /\ handling # <<>> /\ handling' = Pop /\ waiting' \subseteq waiting
        /\ UNCHANGED <<unconfigured, userModified, deaths, foreign>>
      BY <1>7 DEF AnswerReconfigure, Executes, boundVars
  <2>2. \A k \in MineIn(handling') : k \in MineIn(handling) /\ handling'[k] = handling[k]
      BY <2>1, PopMine
  <2> QED
      BY <2>1, <2>2
<1>8. CASE Die
    BY <1>8 DEF Die, BackendTypeOK
<1>9. CASE Start \/ StartFails
    BY <1>9 DEF Start, StartFails, daemonVars, boundVars
<1> QED
    BY <1>1, <1>2, <1>3, <1>4, <1>5, <1>6, <1>7, <1>8, <1>9 DEF BackendNext, DaemonTurn

LEMMA NotedStep ==
    ASSUME TypeOK, JournalInv, Conversation, Remembered, WaitNoted, [Next]_vars,
           ~\E j \in Jobs : Exec(j)
    PROVE  Remembered' /\ WaitNoted'
<1>1. ASSUME UNCHANGED <<job, handling, waiting, userModified, unconfigured, deaths, foreign>>
      PROVE  Remembered' /\ WaitNoted'
    BY <1>1 DEF Remembered, WaitNoted, Counts, Own, MyWaits
<1>2. CASE UserNext \/ LoopNext
    BY <1>1, <1>2, DialogSends DEF daemonVars
<1>3. CASE BackendNext /\ UNCHANGED <<dialogVars, historyVars>>
    BY <1>3, NotedByBackend DEF TypeOK, Conversation, historyVars
<1>4. CASE UNCHANGED vars
    BY <1>1, <1>4 DEF vars, backendVars, daemonVars, boundVars, historyVars
<1> QED
    BY <1>2, <1>3, <1>4 DEF Next

\* After the dialog has taken its turn, all that is out is what it has sent.
LEMMA DoNextConfigures ==
    ASSUME TypeOK, NEW i \in 1..End, NEW m \in BOOLEAN, NEW pg, NEW frames,
           DoNext(i, m, pg, frames), cmd = "UPDATE" => i = End,
           MineIn(requests) = {}, MineIn(handling)' = {}, MySignals' = {},
           open => pg # "COMPLETE"
    PROVE  ConfigRest'
<1>1. page' = pg /\ (open' => open)
  <2>1. page' = pg
      BY DEF DoNext
  <2>2. i = End => (open' => open)
      BY DEF DoNext
  <2>3. i # End => open' = open
      BY Zenon DEF DoNext
  <2> QED
      BY <2>1, <2>2, <2>3
<1>2. ASSUME cmd' = "UPDATE"
      PROVE  \A k \in MineIn(requests)' : requests'[k].method = "reconfigure"
  <2>1. i = End
      BY <1>2, Zenon DEF DoNext
  <2>2. CASE NeedsReconfigure(m)
    <3> DEFINE r == Request("reconfigure", 0, cmd = "UPDATE", FALSE)
    <3>1. r \in Requests
      <4>1. (cmd = "UPDATE") \in BOOLEAN
          OBVIOUS
      <4> QED
          BY <4>1, RequestType, Zenon DEF TypeOK
    <3>2. r.method = "reconfigure" /\ Send(r)
        BY <2>1, <2>2 DEF Request, DoNext
    <3> HIDE DEF r
    <3> QED
        BY <3>1, <3>2, SendTurn DEF TypeOK
  <2>3. CASE ~NeedsReconfigure(m)
    <3>1. requests' = requests
        BY <2>1, <2>3 DEF DoNext
    <3> QED
        BY <3>1 DEF MineIn
  <2> QED
      BY <2>2, <2>3
<1>3. ASSUME cmd' = "UPDATE", NEW t \in Tokens'
      PROVE  RequestOf(t)'.method = "reconfigure"
  <2>1. PICK k \in MineIn(requests)' : t = <<"bus", k>>
      BY DEF Tokens
  <2>2. RequestOf(t)' = requests'[k]
      BY <2>1 DEF RequestOf
  <2> QED
      BY <1>2, <1>3, <2>2
<1> QED
    BY <1>1, <1>3 DEF ConfigRest, MyWaits

\* Not configuring, and neither asking nor done.
LEMMA NothingSent ==
    ASSUME MineIn(requests)' = {}, MineIn(handling)' = {}, MySignals' = {},
           open' => page' # "COMPLETE"
    PROVE  ConfigRest'
<1>1. Tokens' = {} /\ MyWaits' = {}
    BY DEF Tokens, MyWaits
<1> QED
    BY <1>1 DEF ConfigRest

LEMMA ProceedConfigures ==
    ASSUME TypeOK, cmd # "UPDATE", NEW result, NEW i \in 1..End, NEW pg, NEW frames,
           Proceed(result, i, pg, frames), open => pg # "COMPLETE",
           MineIn(requests) = {}, MineIn(handling)' = {}, MySignals' = {}
    PROVE  ConfigRest'
<1>1. End \in 1..End /\ isModified \in BOOLEAN
    BY SentFacts DEF TypeOK, DialogTypeOK, End
<1>2. i # End => NextItem(i) \in 1..End /\ Advance(i) \in 1..End
    BY SentFacts, AfterItemRange DEF NextItem, End, TypeOK, DialogTypeOK
<1>3. CASE UNCHANGED requests /\ page' = "SKIP"
    BY <1>3, NothingSent DEF MineIn
<1> QED
    BY <1>1, <1>2, <1>3, DoNextConfigures DEF Proceed

LEMMA DbusConfigures ==
    ASSUME TypeOK, cmd # "UPDATE", NEW result, NEW frames, DbusStatus(result, frames),
           open => page # "COMPLETE",
           MineIn(requests) = {}, MineIn(handling)' = {}, MySignals' = {}
    PROVE  ConfigRest'
<1>1. it \in 1..End
    BY DEF TypeOK, DialogTypeOK
<1>2. CASE UNCHANGED requests /\ page' = "CANCEL"
    BY <1>2, NothingSent DEF MineIn
<1>3. CASE Proceed(result, it, page, frames)
    BY <1>1, <1>3, ProceedConfigures
<1> QED
    BY <1>2, <1>3 DEF DbusStatus

\* Tokens move and get lost, nothing is added to what has to be configured.
LEMMA ConfigKept ==
    ASSUME ConfigRest, Moves, UNCHANGED <<cmd, job, doNextDue>>,
           open' /\ page' = "COMPLETE" => open /\ page = "COMPLETE",
           deaths' = 0 => deaths = 0,
           cmd = "UPDATE" /\ deaths' = 0 /\ MySignals' # {} => Configured' \/ MySignals # {},
           cmd = "UPDATE" /\ deaths' = 0 /\ MyWaits' # {} => Configured' \/ MyWaits # {},
           cmd = "UPDATE" /\ deaths' = 0 /\ Configured => Configured',
           open /\ page = "COMPLETE" => cmd = "UPDATE"
    PROVE  ConfigRest'
<1>1. PICK f \in [Tokens' -> Tokens] : \A t \in Tokens' : RequestOf(t)' = RequestOf(f[t])
    BY DEF Moves
<1>2. \A t \in Tokens' : f[t] \in Tokens
    BY <1>1
<1>3. cmd' = "UPDATE" => \A t \in Tokens' : RequestOf(t)'.method = "reconfigure"
    BY <1>1, <1>2 DEF ConfigRest
<1>4. Tokens = {} => Tokens' = {}
    BY <1>2
<1> QED
    BY <1>3, <1>4 DEF ConfigRest

\* The daemon's steps.
LEMMA BackendConfigures ==
    ASSUME TypeOK, ConfigRest, Remembered, BackendNext, UNCHANGED <<dialogVars, historyVars>>,
           open /\ page = "COMPLETE" => cmd = "UPDATE"
    PROVE  ConfigRest'
<1>1. Moves
    BY BackendMoves DEF TypeOK
<1>2. UNCHANGED <<cmd, job, doNextDue, open, page>> /\ BackendTypeOK
    BY DEF dialogVars, historyVars, TypeOK
<1>3. ASSUME UNCHANGED deaths, foreign' = 0 => foreign = 0,
             cmd = "UPDATE" => \A r \in unconfigured' : r \in unconfigured \/ r.pid # "app",
             cmd = "UPDATE" /\ deaths = 0 /\ MySignals' # {} => Configured' \/ MySignals # {},
             cmd = "UPDATE" /\ deaths = 0 /\ MyWaits' # {} => Configured' \/ MyWaits # {}
      PROVE  ConfigRest'
  <2>1. cmd = "UPDATE" /\ Configured => Configured'
      BY <1>2, <1>3 DEF Configured, Counts, Own
  <2> QED
      BY <1>1, <1>2, <1>3, <2>1, ConfigKept
<1>4. CASE ForeignRequest
    BY <1>2, <1>3, <1>4 DEF ForeignRequest, daemonVars, MySignals, MyWaits, BackendTypeOK
<1>5. CASE Start \/ StartFails
    BY <1>3, <1>5 DEF Start, StartFails, daemonVars, busVars, boundVars, MySignals, MyWaits
<1>6. CASE Take
  <2>1. MyWaits' # {} => MyWaits # {}
      BY <1>2, <1>6, TakeWaits DEF MyWaits, Take
  <2> QED
      BY <1>3, <1>6, <2>1 DEF Take, boundVars, MySignals
<1>7. CASE Die
  <2>1. deaths' # 0
      BY <1>2, <1>7 DEF Die, BackendTypeOK
  <2> QED
      BY <1>1, <1>2, <2>1, ConfigKept
<1>8. CASE Reconfigure
  <2>1. UNCHANGED <<deaths, foreign, signals>>
      BY <1>8 DEF Reconfigure, busVars, boundVars
  <2>2. deaths = 0 => Configured'
      BY <1>2, <1>8, <2>1 DEF Reconfigure, Remembered, Configured, Counts, Own
  <2>3. \A r \in unconfigured' : r \in unconfigured
      BY <1>8 DEF Reconfigure
  <2> QED
      BY <1>3, <2>1, <2>2, <2>3 DEF MySignals
<1>9. CASE AskHelper
  <2>1. /\ handling # <<>> /\ waiting' = waiting \cup {Len(handling)}
        /\ UNCHANGED <<handling, unconfigured, deaths, foreign, signals>>
        /\ Top.method # "reconfigure"
      BY <1>9 DEF AskHelper, Executes, Helped, busVars, boundVars
  <2>2. cmd = "UPDATE" => MyWaits' = MyWaits
      BY <1>2, <2>1, OthersOnTop DEF MyWaits
  <2> QED
      BY <1>3, <2>1, <2>2 DEF MySignals
<1>10. ASSUME handling # <<>>, handling' = Pop, waiting' \subseteq waiting
       PROVE  MyWaits' # {} => MyWaits # {}
  <2>1. \A k \in MineIn(handling') : k \in MineIn(handling)
      BY <1>2, <1>10, PopMine
  <2> QED
      BY <1>10, <2>1 DEF MyWaits
<1>11. CASE AnswerOk \/ AnswerError \/ HelperAnswers
  <2>1. /\ handling # <<>> /\ handling' = Pop /\ waiting' \subseteq waiting
        /\ Top.method # "reconfigure"
        /\ unconfigured' \subseteq unconfigured \cup {Top} /\ UNCHANGED <<deaths, foreign>>
        /\ \E result \in Results : Reply(result)
      BY <1>11 DEF AnswerOk, AnswerError, HelperAnswers, Executes, ChangeUserFonts, Results,
                   boundVars
  <2>2. cmd = "UPDATE" => Top.pid # "app"
      BY <1>2, <2>1, OthersOnTop
  <2>3. cmd = "UPDATE" /\ MySignals' # {} => MySignals # {}
      BY <1>2, <2>1, <2>2, ReplyMine
  <2>4. MyWaits' # {} => MyWaits # {}
      BY <2>1, <1>10
  <2>5. cmd = "UPDATE" => \A r \in unconfigured' : r \in unconfigured \/ r.pid # "app"
      BY <2>1, <2>2
  <2> QED
      BY <1>3, <2>1, <2>3, <2>4, <2>5
<1>12. CASE AnswerReconfigure
  <2>1. /\ handling # <<>> /\ handling' = Pop /\ waiting' \subseteq waiting
        /\ Len(handling) \in waiting
        /\ UNCHANGED <<unconfigured, deaths, foreign>> /\ Reply("ok")
      BY <1>12 DEF AnswerReconfigure, Executes, Begun, boundVars
  <2>2. Configured' = Configured
      BY <1>2, <2>1 DEF Configured, Counts, Own
  <2>3. ASSUME cmd = "UPDATE", deaths = 0, MySignals' # {}
        PROVE  Configured' \/ MySignals # {}
    <3>1. "ok" \in Results
        BY DEF Results
    <3>2. MySignals # {} \/ Top.pid = "app"
        BY <1>2, <2>1, <2>3, <3>1, ReplyMine
    <3>3. Top.pid = "app" => MyWaits # {}
        BY <1>2, <2>1, MineTop DEF MyWaits
    <3> QED
        BY <2>2, <2>3, <3>2, <3>3 DEF ConfigRest
  <2>4. MyWaits' # {} => MyWaits # {}
      BY <2>1, <1>10
  <2> QED
      BY <1>3, <2>1, <2>3, <2>4
<1> QED
    BY <1>4, <1>5, <1>6, <1>7, <1>8, <1>9, <1>11, <1>12 DEF BackendNext, DaemonTurn

\* A new job finds nothing of its own.
LEMMA ExecConfigures ==
    ASSUME BackendTypeOK, JournalInv, job \in Nat, NEW j \in Jobs, Exec(j), ~late'
    PROVE  Remembered' /\ WaitNoted' /\ ConfigRest'
<1>1. Conversation' /\ NotStarted' /\ page' = "PROGRESS"
    BY FreshJob DEF Exec, NotStarted, Exists
<1>2. Tokens' = {}
    BY <1>1 DEF Conversation, NothingOut
<1>3. MyWaits' = {} /\ MySignals' = {}
  <2>1. /\ \A k \in MineIn(handling)' : <<"daemon", k>> \in Tokens'
        /\ \A k \in MySignals' : <<"answer", k>> \in Tokens'
      BY DEF Tokens
  <2> QED
      BY <1>2, <2>1 DEF MyWaits
<1>4. \A r \in unconfigured' : ~Own(r)'
  <2>1. job' = job + 1 /\ unconfigured' = unconfigured
      BY DEF Exec, backendVars, daemonVars
  <2>2. \A r \in unconfigured : r.job \in Nat /\ (r.pid = "app" => r.job <= job)
      BY DEF BackendTypeOK, JournalInv, Sent, Requests
  <2> QED
      BY <2>1, <2>2 DEF Own
<1> QED
    BY <1>1, <1>2, <1>3, <1>4 DEF ConfigRest, Remembered, WaitNoted, Counts

LEMMA ConfigStep ==
    ASSUME TypeOK, Conversation, ClosingInv, Order, Remembered, ConfigRest, [Next]_vars,
           ~\E j \in Jobs : Exec(j)
    PROVE  ConfigRest'
<1>0. /\ it \in 1..End /\ End \in 1..End /\ isModified \in BOOLEAN
      /\ cmd = "UPDATE" => it = End
      /\ page = "COMPLETE" => cmd = "UPDATE"
    BY SentFacts DEF TypeOK, DialogTypeOK, ClosingInv, Finished, End
<1>2. CASE FirstDoNext
  <2>1. NotStarted
      BY <1>2 DEF FirstDoNext, NotStarted
  <2>2. /\ MineIn(requests) = {} /\ MineIn(handling) = {} /\ MySignals = {}
        /\ open => page # "COMPLETE"
      BY <2>1, QuietWhere DEF ConfigRest, NotStarted
  <2>3. DoNext(it, isModified, page, downloads) /\ UNCHANGED <<handling, signals>>
      BY <1>2 DEF FirstDoNext, daemonVars
  <2>4. MineIn(handling)' = {} /\ MySignals' = {}
      BY <2>2, <2>3 DEF MineIn, MySignals
  <2> QED
      BY <1>0, <2>2, <2>3, <2>4, DoNextConfigures
<1>3. ASSUME UNCHANGED <<requests, handling, waiting, cmd, job, doNextDue, unconfigured,
                         deaths, foreign>>,
             open' /\ page' = "COMPLETE" => open /\ page = "COMPLETE",
             signals' = signals \/ (signals # <<>> /\ signals' = Tail(signals))
      PROVE  ConfigRest'
  <2>1. Moves /\ (MySignals' # {} => MySignals # {})
    <3>1. CASE signals' = signals
        BY <1>3, <3>1, Unmoved DEF MySignals
    <3>2. CASE signals # <<>> /\ signals' = Tail(signals)
        BY <1>3, <3>2, SignalTaken, SignalQueue DEF TypeOK
    <3> QED
        BY <1>3, <3>1, <3>2
  <2>2. Configured' = Configured /\ MyWaits' = MyWaits
      BY <1>3 DEF Configured, Counts, Own, MyWaits
  <2> QED
      BY <1>0, <1>3, <2>1, <2>2, ConfigKept
<1>4. CASE CheckInterface \/ ServiceOwnerChanged \/ IgnoreSignal \/ ProgressCancel
           \/ CloseError \/ CloseComplete
  <2>1. UNCHANGED <<requests, handling, waiting, cmd, job, doNextDue, unconfigured,
                    deaths, foreign>>
      BY <1>4 DEF CheckInterface, ServiceOwnerChanged, IgnoreSignal, Ignore, ProgressCancel,
                  CloseError, CloseComplete, userFrame, dialogVars, historyVars, backendVars,
                  busVars, daemonVars, boundVars
  <2>2. UNCHANGED <<open, page>> \/ ~open' \/ page' = "ERROR"
      BY <1>4 DEF CheckInterface, ServiceOwnerChanged, Abandon, IgnoreSignal, Ignore,
                  ProgressCancel, CloseError, CloseComplete, dialogVars
  <2>3. signals' = signals \/ (signals # <<>> /\ signals' = Tail(signals))
      BY <1>4 DEF CheckInterface, ServiceOwnerChanged, IgnoreSignal, Ignore, ProgressCancel,
                  CloseError, CloseComplete, userFrame, backendVars, busVars
  <2> QED
      BY <1>3, <2>1, <2>2, <2>3
<1>5. CASE ReceiveStatus
  <2>1. /\ signals # <<>> /\ Head(signals) # OwnerLost /\ Mine(Head(signals))
        /\ signals' = Tail(signals) /\ Exists
        /\ DbusStatus(Head(signals).result, downloads)
        /\ UNCHANGED <<handling, job, unconfigured, deaths, foreign, doNextDue>>
      BY <1>5 DEF ReceiveStatus, Status, daemonVars, boundVars
  <2>2. Tokens # {} /\ MineIn(requests) = {} /\ MineIn(handling) = {} /\ MySignals' = {}
      BY <2>1, AnswerTaken DEF Conversation, TypeOK
  <2>3. MineIn(handling)' = {}
      BY <2>1, <2>2 DEF MineIn
  <2>4. CASE cmd # "UPDATE"
      BY <1>0, <2>1, <2>2, <2>3, <2>4, DbusConfigures
  <2>5. CASE cmd = "UPDATE"
    <3>1. UNCHANGED <<requests, cmd>>
        BY <2>1, <2>5 DEF DbusStatus
    <3>2. Tokens' = {}
        BY <2>2, <2>3, <3>1 DEF Tokens, MineIn
    <3>3. MySignals # {}
        BY <2>2 DEF Tokens
    <3>4. ~doNextDue
        BY <2>1, <2>2 DEF Conversation, NothingOut, NotStarted
    <3>5. deaths = 0 => Configured /\ Configured'
        BY <2>1, <2>5, <3>3 DEF ConfigRest, Configured, Counts, Own
    <3>6. MyWaits' = {}
        BY <2>3 DEF MyWaits
    <3> QED
        BY <2>1, <2>2, <3>1, <3>2, <3>4, <3>5, <3>6 DEF ConfigRest
  <2> QED
      BY <2>4, <2>5
<1>6. CASE DownloadDone \/ DownloadFails
  <2>1. downloads # <<>> /\ cmd # "UPDATE" /\ UNCHANGED <<handling, signals>>
      BY <1>6 DEF DownloadDone, DownloadFails, Order, OrderRest, daemonVars
  <2>2. MineIn(requests) = {} /\ MineIn(handling) = {} /\ MySignals = {}
      BY <2>1, QuietWhere
  <2>3. MineIn(handling)' = {} /\ MySignals' = {}
      BY <2>1, <2>2 DEF MineIn, MySignals
  <2>4. CASE DownloadDone
      BY <1>0, <2>1, <2>4 DEF DownloadDone, ConfigRest
  <2>5. CASE DownloadFails
    <3>1. DbusStatus(DownloadFailed, OtherFrames)
        BY <2>5 DEF DownloadFails
    <3> QED
        BY <1>0, <2>1, <2>2, <2>3, <3>1, DbusConfigures
  <2> QED
      BY <1>6, <2>4, <2>5
<1>7. CASE (\E auto \in BOOLEAN : Skip(auto)) \/ SkipCancel \/ \E yes \in BOOLEAN : ConfirmCancel(yes)
  <2>1. Asking /\ UNCHANGED <<handling, signals>>
      BY <1>7 DEF Skip, SkipCancel, ConfirmCancel, Asking, userFrame, daemonVars
  <2>2. MineIn(requests) = {} /\ MineIn(handling) = {} /\ MySignals = {}
      BY <2>1, QuietWhere
  <2>3. MineIn(handling)' = {} /\ MySignals' = {}
      BY <2>1, <2>2 DEF MineIn, MySignals
  <2>4. cmd # "UPDATE"
      BY <1>0, <2>1 DEF Asking, Order, OrderRest
  <2>5. CASE \E auto \in BOOLEAN : Skip(auto)
    <3>1. it # End
        BY <2>5 DEF Skip, Order, OrderRest
    <3>2. DoNext(Advance(it), isModified, "PROGRESS", downloads)
        BY <2>5, <3>1 DEF Skip
    <3>3. Advance(it) \in 1..End
        BY <1>0, <3>1, SentFacts, AfterItemRange DEF End, TypeOK, DialogTypeOK
    <3> QED
        BY <1>0, <2>2, <2>3, <2>4, <3>2, <3>3, DoNextConfigures
  <2>6. CASE SkipCancel
    <3>1. DoNext(End, isModified, "PROGRESS", downloads)
        BY <2>6 DEF SkipCancel
    <3> QED
        BY <1>0, <2>2, <2>3, <2>4, <3>1, DoNextConfigures
  <2>7. CASE \E yes \in BOOLEAN : ConfirmCancel(yes)
    <3>1. PICK yes \in BOOLEAN : ConfirmCancel(yes)
        BY <2>7
    <3>2. Proceed(lastStatus, ResumeAt(yes), "PROGRESS", downloads)
        BY <2>4, <3>1 DEF ConfirmCancel
    <3>3. ResumeAt(yes) \in 1..End
        BY <1>0 DEF ResumeAt
    <3> QED
        BY <2>2, <2>3, <2>4, <3>2, <3>3, ProceedConfigures
  <2> QED
      BY <1>7, <2>5, <2>6, <2>7
<1>8. CASE BackendNext /\ UNCHANGED <<dialogVars, historyVars>>
    BY <1>0, <1>8, BackendConfigures
<1>9. CASE UNCHANGED vars
  <2>1. /\ UNCHANGED <<requests, handling, waiting, signals, cmd, job, doNextDue,
                       unconfigured, deaths, foreign>>
        /\ UNCHANGED <<open, page>>
      BY <1>9 DEF vars, backendVars, busVars, daemonVars, boundVars, dialogVars, historyVars
  <2> QED
      BY <1>3, <2>1
<1> QED
    BY <1>2, <1>4, <1>5, <1>6, <1>7, <1>8, <1>9 DEF Next, UserNext, LoopNext

(* While a job's fonts are being configured nothing else of it is out, and  *)
(* an answer finds the user's changed fonts configured.                     *)
THEOREM ConfiguredInvariant == Spec => []ConfiguredInv
<1>1. Init => ConfiguredInv
  <2> SUFFICES ASSUME Init
               PROVE  ConfiguredInv
      OBVIOUS
  <2>1. unconfigured = {} /\ Tokens = {} /\ MySignals = {} /\ MyWaits = {} /\ ~open
      BY DEF Init, BackendInit, Tokens, MineIn, MySignals, MyWaits
  <2> QED
      BY <2>1 DEF ConfiguredInv, Remembered, WaitNoted, ConfigRest
<1>2. /\ TypeOK /\ ConversationInv /\ ClosingInv /\ OrderInv /\ JournalInv /\ ConfiguredInv
      /\ [Next]_vars
      => ConfiguredInv'
  <2> SUFFICES ASSUME TypeOK, ConversationInv, ClosingInv, OrderInv, JournalInv, ConfiguredInv,
                      [Next]_vars, ~late'
               PROVE  Remembered' /\ WaitNoted' /\ ConfigRest'
      BY DEF ConfiguredInv
  <2>1. CASE \E j \in Jobs : Exec(j)
      BY <2>1, ExecConfigures DEF TypeOK, HistoryTypeOK
  <2>2. CASE ~\E j \in Jobs : Exec(j)
    <3>1. ~late
        BY <2>2, LateStep
    <3>2. Conversation /\ Order /\ Remembered /\ WaitNoted /\ ConfigRest
        BY <3>1, InvFormula DEF ConfiguredInv, OrderInv
    <3> QED
        BY <2>2, <3>2, NotedStep, ConfigStep
  <2> QED
      BY <2>1, <2>2
<1> QED
    BY <1>1, <1>2, TypeCorrect, ConversationInvariant, ClosingInvariant, OrderInvariant,
       JournalInvariant, PTL DEF Spec

(* When the dialog says it has finished, fc-cache has run after every change *)
(* the job made to the user's fonts; for a move, which notes the folder and  *)
(* then waits, when no other process has called the daemon.                  *)
THEOREM CompleteIsConfigured == Spec => []CompleteMeansConfigured
<1>1. ConfiguredInv => CompleteMeansConfigured
    BY DEF ConfiguredInv, ConfigRest, Configured, Counts, Own, CompleteMeansConfigured
<1> QED
    BY <1>1, ConfiguredInvariant, PTL

-----------------------------------------------------------------------------
(* The dialog implements FontJob: every step of it, of the daemon and of   *)
(* the user is a step of a font job or leaves the job as it is.            *)
(*                                                                         *)
(* A job that began with leftovers of an earlier one may do anything that  *)
(* FontJob!Muddle allows.  Any other relies on the invariants: the answer  *)
(* belongs to the current item (ConversationProofs), a finished job stands *)
(* at its end and its items go out in order (OrderProofs), and what counts *)
(* as done was acted on (ActedInv).                                        *)


-----------------------------------------------------------------------------
(* What a step of the dialog can do to a job.                              *)
JobTurn ==
    /\ cmd' = cmd \/ (cmd' = "UPDATE" /\ open' = open)
    /\ done' = done \/ (it # End /\ \E i \in 1..Len(urls) : done' = done \cup {i})
    /\ dispatched' = dispatched \/ it' # End

\* It sends the item whose download has ended, or the one it then stands on.
Dispatch == dispatched' = dispatched \/ it' # End \/ (downloads # <<>> /\ stopped' = stopped)

LEMMA DoNextTurnsJob ==
    ASSUME NEW i, NEW m, NEW pg, NEW frames, DoNext(i, m, pg, frames), UNCHANGED done
    PROVE  JobTurn
<1>1. it' = i
    BY DEF DoNext
<1>2. CASE i = End /\ NeedsReconfigure(m)
    BY <1>2 DEF DoNext, JobTurn
<1>3. CASE i = End /\ ~NeedsReconfigure(m)
    BY <1>3 DEF DoNext, JobTurn
<1>4. CASE i # End
  <2>1. cmd' = cmd
      BY <1>4, Zenon DEF DoNext
  <2> QED
      BY <1>1, <1>4, <2>1 DEF JobTurn
<1> QED
    BY <1>2, <1>3, <1>4

LEMMA ProceedTurnsJob ==
    ASSUME TypeOK, NEW result, NEW i \in 1..End, i \in {it, End}, NEW pg, NEW frames,
           Proceed(result, i, pg, frames)
    PROVE  JobTurn
<1>1. CASE UNCHANGED done /\ \E n, m, p : DoNext(n, m, p, frames)
    BY <1>1, DoNextTurnsJob
<1>2. CASE i # End /\ DoNext(NextItem(i), TRUE, pg, frames) /\ done' = done \cup {i}
  <2>1. i = it /\ i \in 1..Len(urls)
      BY <1>2, SentFacts DEF End
  <2>2. cmd' = cmd \/ (cmd' = "UPDATE" /\ open' = open)
    <3>1. CASE NextItem(i) = End
        BY <1>2, <3>1 DEF DoNext
    <3>2. CASE NextItem(i) # End
        BY <1>2, <3>2, Zenon DEF DoNext
    <3> QED
        BY <3>1, <3>2
  <2>3. dispatched' = dispatched \/ it' # End
    <3>1. it' = NextItem(i)
        BY <1>2 DEF DoNext
    <3>2. NextItem(i) = End => dispatched' = dispatched
        BY <1>2 DEF DoNext
    <3> QED
        BY <3>1, <3>2
  <2> QED
      BY <1>2, <2>1, <2>2, <2>3 DEF JobTurn
<1>3. CASE UNCHANGED <<cmd, done, dispatched>>
    BY <1>3 DEF JobTurn
<1> QED
    BY <1>1, <1>2, <1>3, Zenon DEF Proceed

LEMMA DbusTurnsJob ==
    ASSUME TypeOK, NEW result, NEW frames, DbusStatus(result, frames)
    PROVE  JobTurn
<1>1. it \in 1..End
    BY DEF TypeOK, DialogTypeOK
<1>2. CASE Proceed(result, it, page, frames)
    BY <1>1, <1>2, ProceedTurnsJob
<1>3. CASE UNCHANGED <<cmd, done, dispatched>>
    BY <1>3 DEF JobTurn
<1> QED
    BY <1>2, <1>3, Zenon DEF DbusStatus

\* A step of the dialog.
DialogTurn ==
    /\ UNCHANGED late
    /\ cmd' = cmd \/ (cmd' = "UPDATE" /\ open' = open)
    /\ done' = done \/ (it # End /\ \E i \in 1..Len(urls) : done' = done \cup {i})
    /\ Dispatch
    /\ stopped' = stopped \/ (stopped' = TRUE /\ Asking)
    /\ Exists \/ UNCHANGED <<cmd, open, downloads, dispatched, done, stopped>>

LEMMA DialogTurns ==
    ASSUME TypeOK, ~\E j \in Jobs : Exec(j), UserNext \/ LoopNext
    PROVE  DialogTurn
<1>0. it \in 1..End /\ End \in 1..End /\ stopped \in BOOLEAN
    BY SentFacts DEF TypeOK, DialogTypeOK, HistoryTypeOK, End
<1> USE DEF DialogTurn, Dispatch
<1>1. CASE FirstDoNext
    BY <1>1, DoNextTurnsJob DEF FirstDoNext, JobTurn
<1>2. CASE CheckInterface \/ ServiceOwnerChanged
    BY <1>2 DEF CheckInterface, ServiceOwnerChanged, historyVars
<1>3. CASE IgnoreSignal
    BY <1>3 DEF IgnoreSignal, Ignore, dialogVars, historyVars
<1>4. CASE ReceiveStatus
    BY <1>4, DbusTurnsJob DEF ReceiveStatus, Status, JobTurn
<1>5. CASE DownloadDone
    BY <1>5 DEF DownloadDone, Exists
<1>6. CASE DownloadFails
    BY <1>6, DbusTurnsJob DEF DownloadFails, JobTurn, Exists
<1>7. CASE ProgressCancel \/ CloseError \/ CloseComplete
    BY <1>7 DEF ProgressCancel, CloseError, CloseComplete, userFrame, Exists
<1>8. CASE \E auto \in BOOLEAN : Skip(auto)
  <2>1. UNCHANGED <<late, done, stopped>> /\ Exists
      BY <1>8 DEF Skip, userFrame, Exists
  <2>2. CASE \E i, m, p, f : DoNext(i, m, p, f)
      BY <2>1, <2>2, DoNextTurnsJob DEF JobTurn
  <2>3. CASE UNCHANGED <<cmd, dispatched>>
      BY <2>1, <2>3
  <2> QED
      BY <1>8, <2>2, <2>3, Zenon DEF Skip
<1>9. CASE SkipCancel
  <2>1. UNCHANGED <<late, done>> /\ stopped' = TRUE /\ Asking /\ Exists
      BY <1>9 DEF SkipCancel, userFrame, Asking, Exists
  <2>2. \E i, m, p, f : DoNext(i, m, p, f)
      BY <1>9 DEF SkipCancel
  <2> QED
      BY <2>1, <2>2, DoNextTurnsJob DEF JobTurn
<1>10. CASE \E yes \in BOOLEAN : ConfirmCancel(yes)
  <2>1. PICK yes \in BOOLEAN : ConfirmCancel(yes)
      BY <1>10
  <2>2. /\ UNCHANGED late /\ Asking /\ Exists
        /\ stopped' = (stopped \/ yes)
      BY <2>1 DEF ConfirmCancel, userFrame, Asking, Exists
  <2>3. stopped' = stopped \/ stopped' = TRUE
      BY <1>0, <2>2
  <2>4. CASE Proceed(lastStatus, ResumeAt(yes), "PROGRESS", downloads)
    <3>1. ResumeAt(yes) \in 1..End /\ ResumeAt(yes) \in {it, End}
        BY <1>0 DEF ResumeAt
    <3> QED
        BY <2>2, <2>3, <2>4, <3>1, ProceedTurnsJob DEF JobTurn
  <2>5. CASE UNCHANGED <<cmd, done, dispatched>>
      BY <2>2, <2>3, <2>5
  <2> QED
      BY <2>1, <2>4, <2>5, Zenon DEF ConfirmCancel
<1> QED
    BY <1>1, <1>2, <1>3, <1>4, <1>5, <1>6, <1>7, <1>8, <1>9, <1>10 DEF UserNext, LoopNext

-----------------------------------------------------------------------------
(* The mapping.                                                            *)

\* All that the steps below rely on.
JobInv == TypeOK /\ ConversationInv /\ ClosingInv /\ OrderInv /\ JournalInv /\ ActedInv

JobStep == [FontJob!Next]_(FontJob!jobVars)

LEMMA StageIs ==
    /\ Stage = "closed" <=> ~Exists
    /\ Stage = "configuring" <=> Exists /\ cmd = "UPDATE"
    /\ Stage = "working" <=> Exists /\ cmd # "UPDATE"
BY DEF Stage

LEMMA ActedOnIs ==
    \A i : i \in ActedOn <=> WasActedOn(i)
BY DEF ActedOn, WasActedOn

\* A new job: nothing that was acted on is of it.
LEMMA ExecBegins ==
    ASSUME TypeOK, TypeOK', JournalInv, NEW j \in Jobs, Exec(j)
    PROVE  FontJob!Begin
<1>1. /\ Stage = "closed" /\ Stage' \in {"working", "configuring"}
      /\ dispatched' = <<>> /\ done' = {} /\ stopped' = FALSE /\ job' = job + 1
      /\ UNCHANGED <<acted, deaths>>
    BY DEF Exec, Stage, Exists, backendVars, daemonVars, boundVars
<1>2. Len(urls)' \in Nat /\ late' \in BOOLEAN
    BY LenProperties DEF TypeOK, DialogTypeOK, HistoryTypeOK
<1>3. ActedOn' = {}
  <2>1. \A r \in acted : r.pid = "app" => r.job <= job
      BY DEF JournalInv, Sent
  <2>2. job \in Int /\ \A r \in acted : r.job \in Int
      BY DEF TypeOK, HistoryTypeOK, BackendTypeOK, Requests
  <2>3. \A r \in acted : r.pid = "app" => r.job # job'
      BY <1>1, <2>1, <2>2
  <2> QED
      BY <1>1, <2>3 DEF ActedOn
<1> QED
    BY <1>1, <1>2, <1>3 DEF FontJob!Begin

\* A step of the dialog leaves this alone.
Steady == UNCHANGED <<job, urls, acted, deaths, late>>

LEMMA SteadyJob ==
    ASSUME Steady
    PROVE  UNCHANGED <<job, Len(urls), late, ActedOn, deaths > 0>>
BY DEF Steady, ActedOn

LEMMA MuddledTurn ==
    ASSUME DialogTurn, Steady, late, Exists
    PROVE  FontJob!Muddle
<1>1. Stage # "closed" /\ done \subseteq done' /\ ActedOn \subseteq ActedOn'
    BY StageIs, SteadyJob DEF DialogTurn
<1> QED
    BY <1>1, SteadyJob DEF FontJob!Muddle, Steady

\* While the fonts are configured nothing happens to the items.
LEMMA ConfiguringTurn ==
    ASSUME TypeOK, ClosingInv, ClosingInv', Order, DialogTurn, Steady, Exists, cmd = "UPDATE"
    PROVE  FontJob!Close \/ UNCHANGED FontJob!jobVars
<1>1. it = End /\ cmd' = "UPDATE" /\ it' = End'
    BY DEF ClosingInv, Finished, DialogTurn
<1>2. downloads = <<>> /\ ~Asking
    BY <1>1 DEF Order, OrderRest, Asking
<1>3. UNCHANGED <<dispatched, done, stopped>>
  <2>1. dispatched' = dispatched
      BY <1>1, <1>2 DEF DialogTurn, Dispatch, Steady, End
  <2>2. done' = done
      BY <1>1 DEF DialogTurn
  <2>3. stopped' = stopped
      BY <1>2, Zenon DEF DialogTurn
  <2> QED
      BY <2>1, <2>2, <2>3
<1>4. CASE Exists'
  <2>1. Stage' = Stage
      BY <1>1, <1>4 DEF Stage
  <2> QED
      BY <1>3, <2>1, SteadyJob DEF FontJob!jobVars, Steady
<1>5. CASE ~Exists'
  <2>1. Stage = "configuring" /\ Stage' = "closed"
      BY <1>5 DEF Stage
  <2> QED
      BY <1>3, <2>1, SteadyJob DEF FontJob!Close, Steady
<1> QED
    BY <1>4, <1>5

LEMMA WorkingTurn ==
    ASSUME TypeOK, ClosingInv, ClosingInv', Order, Order', TypeOK', ResultInv', DialogTurn,
           Steady, Sends, Exists, cmd # "UPDATE"
    PROVE  FontJob!Proceed
<1>1. Stage = "working" /\ Stage' \in {"working", "configuring", "closed"}
    BY DEF Stage
<1>2. stopped' \in {stopped, TRUE}
    BY DEF DialogTurn
<1>3. UNCHANGED done \/ \E i \in ActedOn : done' = done \cup {i}
  <2>1. ASSUME NEW i, done' = done \cup {i}
        PROVE  i \in ActedOn
    <3>1. WasActedOn(i)'
        BY <2>1 DEF ResultInv
    <3> QED
        BY <3>1, ActedOnIs DEF WasActedOn, Steady
  <2> QED
      BY <2>1 DEF DialogTurn
<1>4. \/ UNCHANGED dispatched
      \/ /\ ~stopped'
         /\ \E i \in 1..Len(urls) : /\ \A k \in DOMAIN dispatched : dispatched[k] < i
                                    /\ dispatched' = Append(dispatched, i)
  <2> SUFFICES ASSUME dispatched' # dispatched
               PROVE  /\ ~stopped'
                      /\ \E i \in 1..Len(urls) :
                           /\ \A k \in DOMAIN dispatched : dispatched[k] < i
                           /\ dispatched' = Append(dispatched, i)
      OBVIOUS
  <2>1. PICK i \in 1..Len(urls) : dispatched' = Append(dispatched, i)
      BY DEF Sends, SendItem
  <2>2. \A k \in DOMAIN dispatched : dispatched[k] < i
    <3>1. /\ DOMAIN dispatched' = 1..(Len(dispatched) + 1)
          /\ \A k \in 1..Len(dispatched) : dispatched'[k] = dispatched[k]
          /\ dispatched'[Len(dispatched) + 1] = i
        BY <2>1, SendFacts
    <3>2. \A k, l \in DOMAIN dispatched' : k < l => dispatched'[k] < dispatched'[l]
        BY DEF Order, OrderRest
    <3>3. Len(dispatched) \in Nat /\ DOMAIN dispatched = 1..Len(dispatched)
        BY SentFacts
    <3> QED
        BY <3>1, <3>2, <3>3
  <2>3. ~stopped'
    <3>1. it' # End' => ~stopped'
        BY DEF ClosingInv, Finished
    <3>2. End' = End
        BY DEF Steady, End
    <3>3. downloads # <<>> => ~stopped
        BY DEF Order, OrderRest
    <3> QED
        BY <3>1, <3>2, <3>3 DEF DialogTurn, Dispatch
  <2> QED
      BY <2>1, <2>2, <2>3
<1>5. Stage' = "closed" /\ ~(deaths > 0) => done' = {}
  <2> SUFFICES ASSUME ~open', ~(deaths > 0), done' # {}
               PROVE  FALSE
      BY DEF Stage, Exists
  <2>1. deaths = 0 /\ deaths' = 0
      BY DEF Steady, TypeOK, BackendTypeOK
  <2>2. cmd' = "UPDATE"
      BY <2>1 DEF ClosingInv
  <2>3. ~open
      BY <2>2 DEF DialogTurn
  <2>4. it = End
      BY <2>3 DEF ClosingInv, Finished
  <2>5. done' = done
      BY <2>4 DEF DialogTurn
  <2> QED
      BY <2>1, <2>3, <2>5 DEF ClosingInv
<1> QED
    BY <1>1, <1>2, <1>3, <1>4, <1>5, SteadyJob
       DEF FontJob!Proceed, FontJob!CountDone, FontJob!HandOver, Steady

\* The steps of the daemon.
LEMMA BackendJob ==
    ASSUME TypeOK, TypeOK', JournalInv, BackendNext, UNCHANGED <<dialogVars, historyVars>>
    PROVE  JobStep
<1>1. UNCHANGED <<job, urls, late, dispatched, done, stopped, Stage>>
    BY DEF dialogVars, historyVars, Stage, Exists
<1>2. ASSUME NEW r \in Sent, r.method # "reconfigure", r.pid = "app", r.job = job
      PROVE  \E k \in DOMAIN dispatched : dispatched[k] = r.pos
    BY <1>2 DEF Sent
<1>3. CASE UNCHANGED <<acted, deaths>>
  <2>1. UNCHANGED ActedOn
      BY <1>1, <1>3 DEF ActedOn
  <2> QED
      BY <1>1, <1>3, <2>1 DEF JobStep, FontJob!jobVars
<1>4. ASSUME NEW r \in Sent, r.method # "reconfigure", acted' = acted \cup {r},
             UNCHANGED deaths
      PROVE  JobStep
  <2>1. CASE r.pid = "app" /\ r.job = job
    <3>1. ActedOn' = ActedOn \cup {r.pos}
        BY <1>1, <1>4, <2>1 DEF ActedOn
    <3>2. PICK k \in DOMAIN dispatched : dispatched[k] = r.pos
        BY <1>2, <1>4, <2>1
    <3>3. FontJob!Act
        BY <1>1, <1>4, <3>1, <3>2 DEF FontJob!Act
    <3> QED
        BY <3>3 DEF JobStep, FontJob!Next
  <2>2. CASE ~(r.pid = "app" /\ r.job = job)
    <3>1. UNCHANGED ActedOn
        BY <1>1, <1>4, <2>2 DEF ActedOn
    <3> QED
        BY <1>1, <1>4, <3>1 DEF JobStep, FontJob!jobVars
  <2> QED
      BY <2>1, <2>2
<1>5. CASE AnswerOk \/ AnswerError \/ HelperAnswers
  <2>1. Top \in Sent /\ Top.method # "reconfigure" /\ UNCHANGED deaths
    <3>1. handling # <<>>
        BY <1>5 DEF AnswerOk, AnswerError, HelperAnswers, Executes
    <3>2. Len(handling) \in Nat \ {0} /\ \A i \in 1..Len(handling) : handling[i] \in Sent
        BY <3>1, EmptySeq, ElementOfSeq DEF JournalInv
    <3> QED
        BY <1>5, <3>2 DEF Top, AnswerOk, AnswerError, HelperAnswers, boundVars
  <2>2. acted' = acted \/ acted' = acted \cup {Top}
      BY <1>5 DEF AnswerOk, AnswerError, HelperAnswers
  <2> QED
      BY <1>3, <1>4, <2>1, <2>2
<1>6. CASE Die
  <2>1. PICK d \in SUBSET {r \in {handling[i] : i \in 1..Len(handling)} :
                              r.method # "reconfigure"} : acted' = acted \cup d
      BY <1>6 DEF Die
  <2>2. \A r \in d : r \in Sent /\ r.method # "reconfigure"
      BY ElementOfSeq DEF JournalInv
  <2> DEFINE some == {r.pos : r \in {a \in d : a.pid = "app" /\ a.job = job}}
  <2>3. some \in SUBSET {dispatched[k] : k \in DOMAIN dispatched}
      BY <1>2, <2>2
  <2>4. ActedOn' = ActedOn \cup some
      BY <1>1, <2>1 DEF ActedOn
  <2>5. (deaths > 0)' = TRUE
      BY <1>6 DEF Die, TypeOK, BackendTypeOK
  <2> HIDE DEF some
  <2>6. FontJob!Die
      BY <1>1, <2>3, <2>4, <2>5 DEF FontJob!Die
  <2> QED
      BY <2>6 DEF JobStep, FontJob!Next
<1>7. CASE ForeignRequest \/ Take \/ AskHelper \/ Reconfigure \/ AnswerReconfigure
           \/ Start \/ StartFails
    BY <1>3, <1>7 DEF ForeignRequest, Take, AskHelper, Reconfigure, AnswerReconfigure, Start,
                      StartFails, daemonVars, boundVars
<1> QED
    BY <1>5, <1>6, <1>7 DEF BackendNext, DaemonTurn

LEMMA JobStepHolds ==
    ASSUME JobInv, JobInv', [Next]_vars
    PROVE  JobStep
<1> USE DEF JobInv
<1>1. CASE \E j \in Jobs : Exec(j)
    BY <1>1, ExecBegins DEF JobStep, FontJob!Next
<1>2. CASE (UserNext \/ LoopNext) /\ ~\E j \in Jobs : Exec(j)
  <2>1. DialogTurn /\ Sends /\ Steady
      BY <1>2, DialogTurns, DialogSends DEF Steady, DialogTurn, daemonVars
  <2>2. CASE ~Exists
    <3>1. UNCHANGED <<cmd, open, downloads, dispatched, done, stopped>>
        BY <2>1, <2>2 DEF DialogTurn
    <3>2. UNCHANGED Stage
        BY <3>1 DEF Stage, Exists
    <3> QED
        BY <2>1, <3>1, <3>2, SteadyJob DEF JobStep, FontJob!jobVars, Steady
  <2>3. CASE Exists /\ late
      BY <2>1, <2>3, MuddledTurn DEF JobStep, FontJob!Next
  <2>4. CASE Exists /\ ~late
    <3>1. ~late' /\ Order /\ Order' /\ ResultInv'
        BY <2>1, <2>4 DEF Steady, OrderInv, ActedInv
    <3>2. CASE cmd = "UPDATE"
        BY <2>1, <2>4, <3>1, <3>2, ConfiguringTurn DEF JobStep, FontJob!Next
    <3>3. CASE cmd # "UPDATE"
        BY <2>1, <2>4, <3>1, <3>3, WorkingTurn DEF JobStep, FontJob!Next
    <3> QED
        BY <3>2, <3>3
  <2> QED
      BY <2>2, <2>3, <2>4
<1>3. CASE BackendNext /\ UNCHANGED <<dialogVars, historyVars>>
    BY <1>3, BackendJob
<1>4. CASE UNCHANGED vars
  <2>1. UNCHANGED <<job, urls, late, dispatched, done, stopped, Stage, ActedOn, deaths>>
      BY <1>4 DEF vars, backendVars, daemonVars, boundVars, dialogVars, historyVars, Stage,
                  Exists, ActedOn
  <2> QED
      BY <2>1 DEF JobStep, FontJob!jobVars
<1> QED
    BY <1>1, <1>2, <1>3, <1>4 DEF Next

(* The dialog, the daemon and the bus together keep what FontJob promises   *)
(* the user of a font job.                                                  *)
THEOREM DialogIsFontJob == Spec => IsFontJob
<1>1. Init => FontJob!Init
  <2> SUFFICES ASSUME Init
               PROVE  FontJob!Init
      OBVIOUS
  <2>1. /\ job = 0 /\ Len(urls) = 0 /\ late = FALSE /\ dispatched = <<>> /\ done = {}
        /\ stopped = FALSE /\ ~Exists /\ deaths = 0 /\ acted = {}
      BY DEF Init, BackendInit, Exists
  <2>2. ActedOn = {} /\ Stage = "closed" /\ (deaths > 0) = FALSE
      BY <2>1 DEF ActedOn, Stage
  <2> QED
      BY <2>1, <2>2 DEF FontJob!Init
<1>2. JobInv /\ JobInv' /\ [Next]_vars => [FontJob!Next]_(FontJob!jobVars)
    BY JobStepHolds DEF JobStep
<1>3. Spec => []JobInv
    BY TypeCorrect, ConversationInvariant, ClosingInvariant, OrderInvariant, JournalInvariant,
       ActedInvariant, PTL DEF JobInv
<1> QED
    BY <1>1, <1>2, <1>3, PTL DEF Spec, IsFontJob, FontJob!Spec
=============================================================================
