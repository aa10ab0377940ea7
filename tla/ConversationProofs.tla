-------------------------- MODULE ConversationProofs --------------------------
(***************************************************************************)
(* The conversation of the font job dialog with the daemon: unless a job   *)
(* began with leftovers of an earlier one, at most one of its requests is  *)
(* out, and the status that comes back belongs to the item the iterator    *)
(* stands on.                                                              *)
(*                                                                         *)
(* The argument follows the tokens: a token is a request of this process   *)
(* on the bus, in the daemon's hands, or already turned into a signal.  The*)
(* daemon moves tokens from one place to the next and may lose them; it    *)
(* makes none.  The dialog makes one only where it holds none: after it has*)
(* consumed a status, when a download has ended, before the first doNext() *)
(* and on the pages that ask the user.                                     *)
(***************************************************************************)
EXTENDS JobRunnerProofs

-----------------------------------------------------------------------------
(* Tokens, place by place.                                                 *)
LEMMA TokenPlaces ==
    /\ \A t \in Tokens :
         \/ \E k \in MineIn(requests) : t = <<"bus", k>>
         \/ \E k \in MineIn(handling) : t = <<"daemon", k>>
         \/ \E k \in MySignals : t = <<"answer", k>>
    /\ \A k \in MineIn(requests) : <<"bus", k>> \in Tokens
    /\ \A k \in MineIn(handling) : <<"daemon", k>> \in Tokens
    /\ \A k \in MySignals : <<"answer", k>> \in Tokens
BY DEF Tokens

LEMMA TokenRequests ==
    /\ \A k : RequestOf(<<"bus", k>>) = requests[k]
    /\ \A k : RequestOf(<<"daemon", k>>) = handling[k]
    /\ \A k : RequestOf(<<"answer", k>>) = signals[k].of
BY DEF RequestOf

\* A step that moves and loses tokens: each one there is afterwards was there
\* before, for the same request.
Moves ==
    \E f \in [Tokens' -> Tokens] :
        /\ \A s, t \in Tokens' : f[s] = f[t] => s = t
        /\ \A t \in Tokens' : RequestOf(t)' = RequestOf(f[t])

(* What the dialog relies on survives such a step.                         *)
LEMMA MovesKeep ==
    ASSUME Moves
    PROVE  /\ (\A a, b \in Tokens : a = b) => (\A a, b \in Tokens' : a = b)
           /\ Tokens = {} => Tokens' = {}
           /\ \A j, p : (\A t \in Tokens : RequestOf(t).job = j /\ RequestOf(t).pos = p)
                 => (\A t \in Tokens' : RequestOf(t)'.job = j /\ RequestOf(t)'.pos = p)
<1>1. PICK f \in [Tokens' -> Tokens] :
          /\ \A s, t \in Tokens' : f[s] = f[t] => s = t
          /\ \A t \in Tokens' : RequestOf(t)' = RequestOf(f[t])
    BY DEF Moves
<1>2. \A t \in Tokens' : f[t] \in Tokens
    BY <1>1
<1>3. ASSUME \A a, b \in Tokens : a = b,
             NEW a \in Tokens', NEW b \in Tokens'
      PROVE  a = b
  <2>1. f[a] = f[b]
      BY <1>2, <1>3
  <2> QED
      BY <1>1, <2>1
<1>4. Tokens = {} => Tokens' = {}
    BY <1>2
<1>5. ASSUME NEW j, NEW p,
             \A t \in Tokens : RequestOf(t).job = j /\ RequestOf(t).pos = p,
             NEW t \in Tokens'
      PROVE  RequestOf(t)'.job = j /\ RequestOf(t)'.pos = p
    BY <1>1, <1>2, <1>5
<1> QED
    BY <1>3, <1>4, <1>5

\* Tokens are told by place and index: the map, given place by place.
ByPlace(bus, daemon, answer) ==
    /\ \A k \in MineIn(requests)' : bus[k] \in Tokens /\ requests'[k] = RequestOf(bus[k])
    /\ \A k \in MineIn(handling)' : daemon[k] \in Tokens /\ handling'[k] = RequestOf(daemon[k])
    /\ \A k \in MySignals' : answer[k] \in Tokens /\ signals'[k].of = RequestOf(answer[k])
    /\ \A k, l \in MineIn(requests)' : bus[k] = bus[l] => k = l
    /\ \A k, l \in MineIn(handling)' : daemon[k] = daemon[l] => k = l
    /\ \A k, l \in MySignals' : answer[k] = answer[l] => k = l
    /\ \A k \in MineIn(requests)', l \in MineIn(handling)' : bus[k] # daemon[l]
    /\ \A k \in MineIn(requests)', l \in MySignals' : bus[k] # answer[l]
    /\ \A k \in MineIn(handling)', l \in MySignals' : daemon[k] # answer[l]

LEMMA MovesByPlace ==
    ASSUME NEW bus, NEW daemon, NEW answer, ByPlace(bus, daemon, answer)
    PROVE  Moves
<1> DEFINE f == [t \in Tokens' |-> CASE t[1] = "bus" -> bus[t[2]]
                                     [] t[1] = "daemon" -> daemon[t[2]]
                                     [] OTHER -> answer[t[2]]]
<1>1. /\ \A t \in Tokens' :
           \/ \E k \in MineIn(requests)' : t = <<"bus", k>>
           \/ \E k \in MineIn(handling)' : t = <<"daemon", k>>
           \/ \E k \in MySignals' : t = <<"answer", k>>
    BY DEF Tokens
<1>2. \A t \in Tokens' :
          \/ \E k \in MineIn(requests)' : t = <<"bus", k>> /\ f[t] = bus[k]
          \/ \E k \in MineIn(handling)' : t = <<"daemon", k>> /\ f[t] = daemon[k]
          \/ \E k \in MySignals' : t = <<"answer", k>> /\ f[t] = answer[k]
    BY <1>1
<1> USE DEF ByPlace
<1>3. f \in [Tokens' -> Tokens]
  <2>1. \A t \in Tokens' : f[t] \in Tokens
      BY <1>2
  <2> QED
      BY <2>1
<1>4. \A s, t \in Tokens' : f[s] = f[t] => s = t
  <2> HIDE DEF f
  <2> QED
      BY <1>2
<1>5. \A t \in Tokens' : RequestOf(t)' = RequestOf(f[t])
  <2>1. /\ \A k : RequestOf(<<"bus", k>>)' = requests'[k]
        /\ \A k : RequestOf(<<"daemon", k>>)' = handling'[k]
        /\ \A k : RequestOf(<<"answer", k>>)' = signals'[k].of
      BY DEF RequestOf
  <2> HIDE DEF f
  <2> QED
      BY <1>2, <2>1
<1> HIDE DEF f
<1> QED
    BY <1>3, <1>4, <1>5 DEF Moves

-----------------------------------------------------------------------------
(* The channels: what taking the head, appending and dropping leave.       *)
LEMMA MineElements ==
    ASSUME BackendTypeOK
    PROVE  /\ \A k \in MineIn(requests) : k \in 1..Len(requests) /\ requests[k].pid = "app"
           /\ \A k \in MineIn(handling) : k \in 1..Len(handling) /\ handling[k].pid = "app"
           /\ \A k \in MySignals : /\ k \in 1..Len(signals)
                                   /\ signals[k] # OwnerLost /\ signals[k].of.pid = "app"
BY LenProperties DEF BackendTypeOK, MineIn, MySignals

LEMMA SignalQueue ==
    ASSUME BackendTypeOK, signals # <<>>, signals' = Tail(signals)
    PROVE  /\ 1 \in DOMAIN signals /\ Head(signals) = signals[1]
           /\ \A k \in MySignals' :
                k \in Int /\ k + 1 \in MySignals /\ k + 1 # 1 /\ signals'[k] = signals[k + 1]
<1>1. /\ Len(signals) \in Nat \ {0} /\ Len(signals') = Len(signals) - 1
      /\ DOMAIN signals = 1..Len(signals) /\ DOMAIN signals' = 1..(Len(signals) - 1)
      /\ \A k \in 1..(Len(signals) - 1) : signals'[k] = signals[k + 1]
      /\ Head(signals) = signals[1]
    BY LenProperties, EmptySeq, HeadTailProperties DEF BackendTypeOK
<1> QED
    BY <1>1 DEF MySignals

\* The next signal has been taken.
LEMMA SignalTaken ==
    ASSUME BackendTypeOK, signals # <<>>, signals' = Tail(signals),
           UNCHANGED <<requests, handling>>
    PROVE  Moves
<1>1. \A k \in MySignals' :
          k \in Int /\ k + 1 \in MySignals /\ k + 1 # 1 /\ signals'[k] = signals[k + 1]
    BY SignalQueue
<1>2. MineIn(requests)' = MineIn(requests) /\ MineIn(handling)' = MineIn(handling)
    BY DEF MineIn
<1> DEFINE bus == [k \in MineIn(requests)' |-> <<"bus", k>>]
           daemon == [k \in MineIn(handling)' |-> <<"daemon", k>>]
           answer == [k \in MySignals' |-> <<"answer", k + 1>>]
<1>3. \A k \in MineIn(requests)' : bus[k] \in Tokens /\ requests'[k] = RequestOf(bus[k])
    BY <1>2, TokenPlaces, TokenRequests
<1>4. \A k \in MineIn(handling)' : daemon[k] \in Tokens /\ handling'[k] = RequestOf(daemon[k])
    BY <1>2, TokenPlaces, TokenRequests
<1>5. \A k \in MySignals' : answer[k] \in Tokens /\ signals'[k].of = RequestOf(answer[k])
    BY <1>1, TokenPlaces, TokenRequests
<1>6. /\ \A k, l \in MineIn(requests)' : bus[k] = bus[l] => k = l
      /\ \A k, l \in MineIn(handling)' : daemon[k] = daemon[l] => k = l
      /\ \A k, l \in MySignals' : answer[k] = answer[l] => k = l
    BY <1>1
<1>7. /\ \A k \in MineIn(requests)', l \in MineIn(handling)' : bus[k] # daemon[l]
      /\ \A k \in MineIn(requests)', l \in MySignals' : bus[k] # answer[l]
      /\ \A k \in MineIn(handling)', l \in MySignals' : daemon[k] # answer[l]
    OBVIOUS
<1> HIDE DEF bus, daemon, answer
<1>8. ByPlace(bus, daemon, answer)
    BY <1>3, <1>4, <1>5, <1>6, <1>7, Zenon DEF ByPlace
<1> QED
    BY <1>8, MovesByPlace, Zenon

\* The answer that has been taken was the only token.
LEMMA AnswerTaken ==
    ASSUME BackendTypeOK, signals # <<>>, signals' = Tail(signals),
           Head(signals) # OwnerLost, Mine(Head(signals)), \A a, b \in Tokens : a = b
    PROVE  /\ Tokens # {}
           /\ MineIn(requests) = {} /\ MineIn(handling) = {} /\ MySignals' = {}
<1>1. 1 \in MySignals
    BY SignalQueue DEF Mine, MySignals
<1>2. MineIn(requests) = {} /\ MineIn(handling) = {}
    BY <1>1, TokenPlaces
<1>3. ASSUME NEW k \in MySignals'
      PROVE  FALSE
  <2>1. k + 1 \in MySignals /\ k + 1 # 1
      BY SignalQueue
  <2> QED
      BY <1>1, <2>1, TokenPlaces
<1> QED
    BY <1>1, <1>2, <1>3, TokenPlaces

-----------------------------------------------------------------------------
(* The daemon's steps move tokens.                                         *)

\* Nothing of this process's moves; some of it may be lost.
LEMMA SomeKept ==
    ASSUME \A k \in MineIn(requests)' : k \in MineIn(requests) /\ requests'[k] = requests[k],
           \A k \in MineIn(handling)' : k \in MineIn(handling) /\ handling'[k] = handling[k],
           \A k \in MySignals' : k \in MySignals /\ signals'[k] = signals[k]
    PROVE  Moves
<1> DEFINE bus == [k \in MineIn(requests)' |-> <<"bus", k>>]
           daemon == [k \in MineIn(handling)' |-> <<"daemon", k>>]
           answer == [k \in MySignals' |-> <<"answer", k>>]
<1>1. \A k \in MineIn(requests)' : bus[k] \in Tokens /\ requests'[k] = RequestOf(bus[k])
    BY TokenPlaces, TokenRequests
<1>2. \A k \in MineIn(handling)' : daemon[k] \in Tokens /\ handling'[k] = RequestOf(daemon[k])
    BY TokenPlaces, TokenRequests
<1>3. \A k \in MySignals' : answer[k] \in Tokens /\ signals'[k].of = RequestOf(answer[k])
    BY TokenPlaces, TokenRequests
<1>4. /\ \A k, l \in MineIn(requests)' : bus[k] = bus[l] => k = l
      /\ \A k, l \in MineIn(handling)' : daemon[k] = daemon[l] => k = l
      /\ \A k, l \in MySignals' : answer[k] = answer[l] => k = l
    OBVIOUS
<1>5. /\ \A k \in MineIn(requests)', l \in MineIn(handling)' : bus[k] # daemon[l]
      /\ \A k \in MineIn(requests)', l \in MySignals' : bus[k] # answer[l]
      /\ \A k \in MineIn(handling)', l \in MySignals' : daemon[k] # answer[l]
    OBVIOUS
<1> HIDE DEF bus, daemon, answer
<1>6. ByPlace(bus, daemon, answer)
    BY <1>1, <1>2, <1>3, <1>4, <1>5, Zenon DEF ByPlace
<1> QED
    BY <1>6, MovesByPlace, Zenon

LEMMA TakeMoves ==
    ASSUME BackendTypeOK, Take
    PROVE  Moves
<1> DEFINE n == Len(handling)
           bus == [k \in MineIn(requests)' |-> <<"bus", k + 1>>]
           daemon == [k \in MineIn(handling)' |-> IF k = n + 1 THEN <<"bus", 1>> ELSE <<"daemon", k>>]
           answer == [k \in MySignals' |-> <<"answer", k>>]
<1>1. /\ Len(requests) \in Nat \ {0} /\ n \in Nat
      /\ DOMAIN requests = 1..Len(requests) /\ DOMAIN handling = 1..n
      /\ DOMAIN requests' = 1..(Len(requests) - 1) /\ DOMAIN handling' = 1..(n + 1)
      /\ \A k \in 1..(Len(requests) - 1) : requests'[k] = requests[k + 1]
      /\ \A k \in 1..n : handling'[k] = handling[k]
      /\ handling'[n + 1] = requests[1]
  <2>1. requests \in Seq(Requests) /\ handling \in Seq(Requests) /\ requests # <<>>
      BY DEF BackendTypeOK, Take
  <2>2. Head(requests) \in Requests /\ Head(requests) = requests[1]
      BY <2>1, HeadTailProperties
  <2>3. requests' = Tail(requests) /\ handling' = Append(handling, Head(requests))
      BY DEF Take
  <2>4. /\ Len(requests) \in Nat \ {0} /\ DOMAIN requests = 1..Len(requests)
        /\ Len(requests') = Len(requests) - 1 /\ requests' \in Seq(Requests)
        /\ \A k \in 1..(Len(requests) - 1) : requests'[k] = requests[k + 1]
      BY <2>1, <2>3, EmptySeq, LenProperties, HeadTailProperties
  <2>5. /\ n \in Nat /\ DOMAIN handling = 1..n
        /\ handling' \in Seq(Requests) /\ Len(handling') = n + 1
        /\ \A k \in 1..n : handling'[k] = handling[k]
        /\ handling'[n + 1] = requests[1]
      BY <2>1, <2>2, <2>3, LenProperties, AppendProperties
  <2> QED
      BY <2>4, <2>5, LenProperties
<1>2. \A k \in MineIn(requests)' : k \in Int /\ k + 1 \in MineIn(requests) /\ k + 1 # 1
                                   /\ requests'[k] = requests[k + 1]
    BY <1>1 DEF MineIn
<1>3. \A k \in MineIn(handling)' :
          \/ k # n + 1 /\ k \in MineIn(handling) /\ handling'[k] = handling[k]
          \/ k = n + 1 /\ 1 \in MineIn(requests) /\ handling'[k] = requests[1]
    BY <1>1 DEF MineIn
<1>4. MySignals' = MySignals /\ signals' = signals
    BY DEF Take, MySignals
<1>5. \A k \in MineIn(requests)' : bus[k] \in Tokens /\ requests'[k] = RequestOf(bus[k])
    BY <1>2, TokenPlaces, TokenRequests
<1>6. \A k \in MineIn(handling)' : daemon[k] \in Tokens /\ handling'[k] = RequestOf(daemon[k])
    BY <1>3, TokenPlaces, TokenRequests
<1>7. \A k \in MySignals' : answer[k] \in Tokens /\ signals'[k].of = RequestOf(answer[k])
    BY <1>4, TokenPlaces, TokenRequests
<1>8. /\ \A k, l \in MineIn(requests)' : bus[k] = bus[l] => k = l
      /\ \A k, l \in MineIn(handling)' : daemon[k] = daemon[l] => k = l
      /\ \A k, l \in MySignals' : answer[k] = answer[l] => k = l
    BY <1>2
<1>9. /\ \A k \in MineIn(requests)', l \in MineIn(handling)' : bus[k] # daemon[l]
      /\ \A k \in MineIn(requests)', l \in MySignals' : bus[k] # answer[l]
      /\ \A k \in MineIn(handling)', l \in MySignals' : daemon[k] # answer[l]
    BY <1>2
<1> HIDE DEF bus, daemon, answer
<1>10. ByPlace(bus, daemon, answer)
    BY <1>5, <1>6, <1>7, <1>8, <1>9, Zenon DEF ByPlace
<1> QED
    BY <1>10, MovesByPlace, Zenon

LEMMA ReplyMoves ==
    ASSUME BackendTypeOK, handling # <<>>, handling' = Pop, NEW result \in Results,
           Reply(result), requests' = requests
    PROVE  Moves
<1> DEFINE n == Len(handling)
           m == Len(signals)
           bus == [k \in MineIn(requests)' |-> <<"bus", k>>]
           daemon == [k \in MineIn(handling)' |-> <<"daemon", k>>]
           answer == [k \in MySignals' |-> IF k = m + 1 THEN <<"daemon", n>> ELSE <<"answer", k>>]
<1>1. /\ n \in Nat \ {0} /\ m \in Nat
      /\ DOMAIN handling = 1..n /\ DOMAIN signals = 1..m
      /\ DOMAIN handling' = 1..(n - 1) /\ DOMAIN signals' = 1..(m + 1)
      /\ \A k \in 1..(n - 1) : handling'[k] = handling[k]
      /\ \A k \in 1..m : signals'[k] = signals[k]
      /\ signals'[m + 1].of = handling[n]
  <2>1. handling \in Seq(Requests) /\ signals \in Seq(Signals)
      BY DEF BackendTypeOK
  <2>2. /\ n \in Nat \ {0} /\ DOMAIN handling = 1..n
        /\ \A k \in 1..n : handling[k] \in Requests
      BY <2>1, EmptySeq, LenProperties, ElementOfSeq
  <2>3. /\ DOMAIN handling' = 1..(n - 1)
        /\ \A k \in 1..(n - 1) : handling'[k] = handling[k]
    <3>1. \A k \in 1..(n - 1) : handling[k] \in Requests
        BY <2>2
    <3>2. handling' = SubSeq(handling, 1, n - 1)
        BY DEF Pop
    <3>3. /\ handling' \in Seq(Requests) /\ Len(handling') = n - 1
          /\ \A k \in 1..(n - 1) : handling'[k] = handling[k]
        BY <2>2, <3>1, <3>2, SubSeqProperties
    <3> QED
        BY <3>3, LenProperties
  <2>4. /\ m \in Nat /\ DOMAIN signals = 1..m /\ DOMAIN signals' = 1..(m + 1)
        /\ \A k \in 1..m : signals'[k] = signals[k]
        /\ signals'[m + 1].of = handling[n]
    <3> DEFINE s == [kind |-> "status", result |-> result, of |-> Top]
    <3>1. s \in Signals /\ s.of = handling[n]
      <4>1. Top \in Requests
          BY TopPopType
      <4> QED
          BY <4>1 DEF Signals, Statuses, Top
    <3>2. signals' = Append(signals, s)
        BY DEF Reply
    <3> HIDE DEF s
    <3>3. /\ signals' \in Seq(Signals) /\ Len(signals') = m + 1
          /\ \A k \in 1..m : signals'[k] = signals[k]
          /\ signals'[m + 1] = s
        BY <2>1, <3>1, <3>2, LenProperties, AppendProperties
    <3> QED
        BY <2>1, <3>1, <3>3, LenProperties
  <2> QED
      BY <2>2, <2>3, <2>4
<1>2. \A k \in MineIn(handling)' : k \in MineIn(handling) /\ k # n /\ handling'[k] = handling[k]
    BY <1>1 DEF MineIn
<1>3. \A k \in MySignals' :
          \/ k # m + 1 /\ k \in MySignals /\ signals'[k] = signals[k]
          \/ k = m + 1 /\ n \in MineIn(handling) /\ signals'[k].of = handling[n]
    BY <1>1 DEF MineIn, MySignals
<1>4. MineIn(requests)' = MineIn(requests)
    BY DEF MineIn
<1>5. \A k \in MineIn(requests)' : bus[k] \in Tokens /\ requests'[k] = RequestOf(bus[k])
    BY <1>4, TokenPlaces, TokenRequests
<1>6. \A k \in MineIn(handling)' : daemon[k] \in Tokens /\ handling'[k] = RequestOf(daemon[k])
    BY <1>2, TokenPlaces, TokenRequests
<1>7. \A k \in MySignals' : answer[k] \in Tokens /\ signals'[k].of = RequestOf(answer[k])
    BY <1>3, TokenPlaces, TokenRequests
<1>8. /\ \A k, l \in MineIn(requests)' : bus[k] = bus[l] => k = l
      /\ \A k, l \in MineIn(handling)' : daemon[k] = daemon[l] => k = l
      /\ \A k, l \in MySignals' : answer[k] = answer[l] => k = l
    OBVIOUS
<1>9. /\ \A k \in MineIn(requests)', l \in MineIn(handling)' : bus[k] # daemon[l]
      /\ \A k \in MineIn(requests)', l \in MySignals' : bus[k] # answer[l]
      /\ \A k \in MineIn(handling)', l \in MySignals' : daemon[k] # answer[l]
    BY <1>2
<1> HIDE DEF bus, daemon, answer
<1>10. ByPlace(bus, daemon, answer)
    BY <1>5, <1>6, <1>7, <1>8, <1>9, Zenon DEF ByPlace
<1> QED
    BY <1>10, MovesByPlace, Zenon

LEMMA DieMoves ==
    ASSUME BackendTypeOK, Die
    PROVE  Moves
<1>1. PICK d \in 0..Len(requests) : requests' = SubSeq(requests, d + 1, Len(requests))
    BY DEF Die
<1> DEFINE bus == [k \in MineIn(requests)' |-> <<"bus", k + d>>]
           daemon == [k \in MineIn(handling)' |-> <<"daemon", k>>]
           answer == [k \in MySignals' |-> <<"answer", k>>]
<1>2. /\ Len(requests) \in Nat /\ d \in Nat /\ DOMAIN requests = 1..Len(requests)
      /\ DOMAIN requests' = 1..(Len(requests) - d)
      /\ \A k \in 1..(Len(requests) - d) : requests'[k] = requests[k + d]
  <2>1. /\ Len(requests) \in Nat /\ d \in Nat /\ d <= Len(requests)
        /\ DOMAIN requests = 1..Len(requests)
        /\ \A i \in 1..Len(requests) : requests[i] \in Requests
      BY LenProperties, ElementOfSeq DEF BackendTypeOK
  <2>2. d + 1 \in Int /\ \A i \in (d + 1)..Len(requests) : requests[i] \in Requests
      BY <2>1
  <2>3. /\ requests' \in Seq(Requests) /\ Len(requests') = Len(requests) - d
        /\ \A k \in 1..(Len(requests) - d) : requests'[k] = requests[k + d]
    <3>1. /\ requests' \in Seq(Requests)
          /\ Len(requests') = IF d + 1 <= Len(requests) THEN Len(requests) - (d + 1) + 1 ELSE 0
          /\ \A k \in 1..(Len(requests) - (d + 1) + 1) : requests'[k] = requests[(d + 1) + k - 1]
        BY <1>1, <2>1, <2>2, SubSeqProperties
    <3>2. Len(requests') = Len(requests) - d
      <4>1. \A n \in Nat : \A k \in 0..n :
                (IF k + 1 <= n THEN n - (k + 1) + 1 ELSE 0) = n - k
          OBVIOUS
      <4>2. Len(requests) \in Nat /\ d \in 0..Len(requests)
          BY <2>1
      <4> QED
          BY <3>1, <4>1, <4>2, Zenon
    <3>3. ASSUME NEW k \in 1..(Len(requests) - d)
          PROVE  requests'[k] = requests[k + d]
      <4>1. k \in 1..(Len(requests) - (d + 1) + 1) /\ (d + 1) + k - 1 = k + d
          BY <2>1
      <4> QED
          BY <3>1, <4>1
    <3> QED
        BY <3>1, <3>2, <3>3
  <2> QED
      BY <2>1, <2>3, LenProperties
<1>3. \A k \in MineIn(requests)' : k \in Int /\ k + d \in MineIn(requests)
                                   /\ requests'[k] = requests[k + d]
    BY <1>2 DEF MineIn
<1>4. MineIn(handling)' = {}
    BY DEF Die, MineIn
<1>5. \A k \in MySignals' : k \in MySignals /\ signals'[k] = signals[k]
  <2> DEFINE x == OwnerLost
  <2>1. signals \in Seq(Signals) /\ x \in Signals /\ signals' = Append(signals, x)
      BY DEF BackendTypeOK, Signals, Die
  <2> HIDE DEF x
  <2>2. /\ DOMAIN signals = 1..Len(signals) /\ Len(signals) \in Nat
        /\ DOMAIN signals' = 1..(Len(signals) + 1)
        /\ \A k \in 1..Len(signals) : signals'[k] = signals[k]
        /\ signals'[Len(signals) + 1] = x
      BY <2>1, LenProperties, AppendProperties
  <2> QED
      BY <2>2 DEF MySignals, x
<1>6. \A k \in MineIn(requests)' : bus[k] \in Tokens /\ requests'[k] = RequestOf(bus[k])
    BY <1>3, TokenPlaces, TokenRequests
<1>7. \A k \in MineIn(handling)' : daemon[k] \in Tokens /\ handling'[k] = RequestOf(daemon[k])
    BY <1>4
<1>8. \A k \in MySignals' : answer[k] \in Tokens /\ signals'[k].of = RequestOf(answer[k])
    BY <1>5, TokenPlaces, TokenRequests
<1>9. /\ \A k, l \in MineIn(requests)' : bus[k] = bus[l] => k = l
      /\ \A k, l \in MineIn(handling)' : daemon[k] = daemon[l] => k = l
      /\ \A k, l \in MySignals' : answer[k] = answer[l] => k = l
    BY <1>2, <1>3
<1>10. /\ \A k \in MineIn(requests)', l \in MineIn(handling)' : bus[k] # daemon[l]
       /\ \A k \in MineIn(requests)', l \in MySignals' : bus[k] # answer[l]
       /\ \A k \in MineIn(handling)', l \in MySignals' : daemon[k] # answer[l]
    BY <1>4
<1> HIDE DEF bus, daemon, answer
<1>11. ByPlace(bus, daemon, answer)
    BY <1>6, <1>7, <1>8, <1>9, <1>10, Zenon DEF ByPlace
<1> QED
    BY <1>11, MovesByPlace, Zenon

\* A request of another process is not among ours.
LEMMA ForeignMoves ==
    ASSUME BackendTypeOK, ForeignRequest
    PROVE  Moves
<1>1. PICK m \in {"uninstall", "move", "reconfigure"}, f \in Folders :
          Send([method |-> m, pid |-> "other", job |-> 0, pos |-> 0, folder |-> f,
                metric |-> FALSE, force |-> FALSE, createAfm |-> FALSE])
    BY DEF ForeignRequest
<1> DEFINE r == [method |-> m, pid |-> "other", job |-> 0, pos |-> 0, folder |-> f,
                 metric |-> FALSE, force |-> FALSE, createAfm |-> FALSE]
<1>2. r.pid # "app"
    OBVIOUS
<1>3. r \in Requests
    BY DEF Requests, ItemMethods, Pids
<1>4. requests' = Append(requests, r)
    BY <1>1 DEF Send
<1> HIDE DEF r
<1>5. /\ Len(requests) \in Nat
      /\ DOMAIN requests = 1..Len(requests) /\ DOMAIN requests' = 1..(Len(requests) + 1)
      /\ \A k \in 1..Len(requests) : requests'[k] = requests[k]
      /\ requests'[Len(requests) + 1] = r
  <2>1. requests \in Seq(Requests)
      BY DEF BackendTypeOK
  <2> QED
      BY <1>3, <1>4, <2>1, LenProperties, AppendProperties
<1>6. \A k \in MineIn(requests)' : k \in MineIn(requests) /\ requests'[k] = requests[k]
    BY <1>2, <1>5 DEF MineIn
<1>7. handling' = handling /\ signals' = signals
    BY DEF ForeignRequest, daemonVars
<1> QED
    BY <1>6, <1>7, SomeKept DEF MineIn, MySignals

\* Steps that leave the three channels alone.
LEMMA Unmoved ==
    ASSUME UNCHANGED <<requests, handling, signals>>
    PROVE  Moves
BY SomeKept DEF MineIn, MySignals

LEMMA BackendMoves ==
    ASSUME BackendTypeOK, BackendNext
    PROVE  Moves
<1>1. CASE ForeignRequest
    BY <1>1, ForeignMoves
<1>2. CASE Take
    BY <1>2, TakeMoves
<1>3. CASE AnswerOk
    BY <1>3, ReplyMoves DEF AnswerOk, Executes, Results
<1>4. CASE AnswerError
    BY <1>4, ReplyMoves DEF AnswerError, Executes, Results
<1>5. CASE HelperAnswers
    BY <1>5, ReplyMoves DEF HelperAnswers, Executes, Results
<1>9. CASE AnswerReconfigure
    BY <1>9, ReplyMoves DEF AnswerReconfigure, Executes, Results
<1>10. CASE AskHelper \/ Reconfigure
    BY <1>10, Unmoved DEF AskHelper, Reconfigure, busVars
<1>6. CASE Die
    BY <1>6, DieMoves
<1>7. CASE Start
    BY <1>7, Unmoved DEF Start, busVars
<1>8. CASE StartFails
  <2>1. requests' = <<>> /\ handling' = handling /\ signals' = signals
      BY <1>8 DEF StartFails, daemonVars
  <2>2. MineIn(requests)' = {}
      BY <2>1 DEF MineIn
  <2> QED
      BY <2>1, <2>2, SomeKept DEF MineIn, MySignals
<1> QED
    BY <1>1, <1>2, <1>3, <1>4, <1>5, <1>6, <1>7, <1>8, <1>9, <1>10 DEF BackendNext, DaemonTurn

-----------------------------------------------------------------------------
(* The dialog's turn: what doNext(), dbusStatus() and the buttons may do   *)
(* when nothing is out.                                                    *)

Conversation ==
    (\A a, b \in Tokens : a = b) /\ NothingOut /\ OneDownload /\ OutForCurrentItem

Turn ==
    /\ \A k, l \in MineIn(requests)' : k = l
    /\ \A k \in MineIn(requests)' :
         it' # End' => requests'[k].job = job' /\ requests'[k].pos = it'
    /\ downloads' = <<>> \/ (downloads' = <<it'>> /\ MineIn(requests)' = {})
    /\ Asking' => MineIn(requests)' = {} /\ downloads' = <<>>

LEMMA TurnKeeps ==
    ASSUME Turn, MineIn(handling)' = {}, MySignals' = {}, ~NotStarted'
    PROVE  Conversation'
<1>1. \A t \in Tokens' : \E k \in MineIn(requests)' : t = <<"bus", k>>
    BY DEF Tokens
<1>2. \A t \in Tokens' : \A k : t = <<"bus", k>> => RequestOf(t)' = requests'[k]
    BY DEF RequestOf
<1>3. (\A a, b \in Tokens : a = b)'
    BY <1>1 DEF Turn
<1>4. NothingOut'
    BY <1>1 DEF Turn, NothingOut
<1>5. OneDownload'
  <2>1. Len(downloads') <= 1
    <3>1. Len(<<>>) = 0 /\ Len(<<it'>>) = 1
        OBVIOUS
    <3>2. downloads' = <<>> \/ downloads' = <<it'>>
        BY Zenon DEF Turn
    <3>3. CASE downloads' = <<>>
        BY <3>1, <3>3
    <3>4. CASE downloads' = <<it'>>
        BY <3>1, <3>4
    <3> QED
        BY <3>2, <3>3, <3>4
  <2> QED
      BY <2>1 DEF Turn, OneDownload
<1>6. OutForCurrentItem'
    BY <1>1, <1>2 DEF Turn, OutForCurrentItem
<1> QED
    BY <1>3, <1>4, <1>5, <1>6 DEF Conversation

\* A step that sends nothing, suspends nothing and does not turn to the user.
LEMMA StayKeeps ==
    ASSUME Conversation, Moves, UNCHANGED <<downloads, doNextDue, job, urls>>,
           open' => open, it' = it \/ it' = End, Asking' => Asking
    PROVE  Conversation'
<1>1. (\A a, b \in Tokens : a = b)'
    BY MovesKeep DEF Conversation
<1>2. Exists' => Exists
    BY DEF Exists
<1>3. NotStarted' => NotStarted
    BY <1>2 DEF NotStarted
<1>4. NothingOut'
    BY <1>3, MovesKeep DEF Conversation, NothingOut
<1>5. OneDownload'
    BY <1>3 DEF Conversation, OneDownload
<1>6. OutForCurrentItem'
  <2> SUFFICES ASSUME Exists', it' # End'
               PROVE  /\ \A t \in Tokens' : RequestOf(t)'.job = job' /\ RequestOf(t)'.pos = it'
                      /\ \A k \in DOMAIN downloads' : downloads'[k] = it'
      BY DEF OutForCurrentItem
  <2>1. End' = End /\ it' = it /\ it # End /\ Exists
      BY <1>2 DEF End
  <2>2. \A t \in Tokens : RequestOf(t).job = job /\ RequestOf(t).pos = it
      BY <2>1 DEF Conversation, OutForCurrentItem
  <2>3. \A t \in Tokens' : RequestOf(t)'.job = job /\ RequestOf(t)'.pos = it
      BY <2>2, MovesKeep
  <2> QED
      BY <2>1, <2>3 DEF Conversation, OutForCurrentItem
<1> QED
    BY <1>1, <1>4, <1>5, <1>6 DEF Conversation

LEMMA SendTurn ==
    ASSUME BackendTypeOK, MineIn(requests) = {}, NEW r \in Requests, Send(r)
    PROVE  \A k \in MineIn(requests)' : k = Len(requests) + 1 /\ requests'[k] = r
<1>1. requests \in Seq(Requests) /\ requests' = Append(requests, r)
    BY DEF BackendTypeOK, Send
<1>2. /\ Len(requests) \in Nat
      /\ DOMAIN requests = 1..Len(requests) /\ DOMAIN requests' = 1..(Len(requests) + 1)
      /\ \A k \in 1..Len(requests) : requests'[k] = requests[k]
      /\ requests'[Len(requests) + 1] = r
    BY <1>1, LenProperties, AppendProperties
<1> QED
    BY <1>2 DEF MineIn

LEMMA DoNextTurn ==
    ASSUME TypeOK, MineIn(requests) = {}, NEW i \in 1..End, NEW m \in BOOLEAN, NEW pg,
           DoNext(i, m, pg, <<>>), UNCHANGED <<urls, job>>,
           open => pg \notin {"SKIP", "CANCEL"}
    PROVE  Turn
<1>1. it' = i /\ page' = pg /\ End' = End /\ Len(urls) \in Nat
    BY LenProperties DEF DoNext, End, TypeOK, DialogTypeOK
<1>2. ~Asking'
    BY <1>1 DEF DoNext, Asking
<1>3. CASE i = End /\ NeedsReconfigure(m)
  <2>1. Request("reconfigure", 0, cmd = "UPDATE", FALSE) \in Requests
      BY RequestType DEF TypeOK
  <2>2. Send(Request("reconfigure", 0, cmd = "UPDATE", FALSE)) /\ downloads' = <<>>
      BY <1>1, <1>3 DEF DoNext
  <2>3. \A k \in MineIn(requests)' : k = Len(requests) + 1
      BY <2>1, <2>2, SendTurn, Zenon DEF TypeOK
  <2> QED
      BY <1>1, <1>2, <1>3, <2>2, <2>3 DEF Turn
<1>4. CASE i = End /\ ~NeedsReconfigure(m)
    BY <1>1, <1>2, <1>4 DEF DoNext, Turn, MineIn
<1>5. CASE i # End /\ cmd = "INSTALL" /\ urls[i].remote
  <2>1. downloads' = Append(<<>>, i) /\ requests' = requests
      BY <1>5 DEF DoNext
  <2>2. downloads' = <<it'>>
      BY <1>1, <2>1
  <2> QED
      BY <1>2, <2>1, <2>2 DEF Turn, MineIn
<1>6. CASE i # End /\ ~(cmd = "INSTALL" /\ urls[i].remote)
  <2>1. SendItem(i, CreateAfm(i)) /\ downloads' = <<>>
      BY <1>6 DEF DoNext
  <2>2. CreateAfm(i) \in BOOLEAN /\ i \in Nat /\ i \in 1..Len(urls)
      BY <1>1, <1>6 DEF CreateAfm, End
  <2>3. Request(Method(i), i, FALSE, CreateAfm(i)) \in Requests
      BY <2>2, MethodType, RequestType, Zenon DEF TypeOK
  <2>4. \A k \in MineIn(requests)' :
            k = Len(requests) + 1 /\ requests'[k] = Request(Method(i), i, FALSE, CreateAfm(i))
      BY <2>1, <2>3, SendTurn, Zenon DEF SendItem, TypeOK
  <2>5. \A afm : /\ Request(Method(i), i, FALSE, afm).pos = i
                 /\ Request(Method(i), i, FALSE, afm).job = job
      BY DEF Request
  <2>6. \A k \in MineIn(requests)' :
            k = Len(requests) + 1 /\ requests'[k].pos = i /\ requests'[k].job = job
      BY <2>4, <2>5, Zenon
  <2> QED
      BY <1>1, <1>2, <2>1, <2>6 DEF Turn
<1> QED
    BY <1>3, <1>4, <1>5, <1>6

LEMMA ProceedTurn ==
    ASSUME TypeOK, MineIn(requests) = {}, NEW result, NEW i \in 1..End, NEW pg,
           Proceed(result, i, pg, <<>>), UNCHANGED <<urls, job>>,
           open => pg \notin {"SKIP", "CANCEL"}
    PROVE  Turn
<1>1. Len(urls) \in Nat /\ End \in 1..End /\ urls \in Seq(Items) /\ isModified \in BOOLEAN
    BY LenProperties DEF TypeOK, DialogTypeOK, End
<1>2. i # End => NextItem(i) \in 1..End /\ Advance(i) \in 1..End
    BY <1>1, AfterItemRange DEF NextItem, End
<1>3. CASE DoNext(End, isModified, pg, <<>>)
    BY <1>1, <1>3, DoNextTurn
<1>4. CASE i # End /\ DoNext(NextItem(i), TRUE, pg, <<>>)
    BY <1>2, <1>4, DoNextTurn
<1>5. CASE i # End /\ DoNext(Advance(i), isModified, pg, <<>>)
    BY <1>1, <1>2, <1>5, DoNextTurn
<1>6. CASE DoNext(End, isModified, "ERROR", <<>>)
    BY <1>1, <1>6, DoNextTurn
<1>7. CASE downloads' = <<>> /\ requests' = requests
    BY <1>7 DEF Turn, MineIn
<1> QED
    BY <1>3, <1>4, <1>5, <1>6, <1>7 DEF Proceed

LEMMA DbusTurn ==
    ASSUME TypeOK, MineIn(requests) = {}, NEW result, DbusStatus(result, <<>>),
           UNCHANGED <<urls, job>>, open => page \notin {"SKIP", "CANCEL"}
    PROVE  Turn
<1>1. CASE downloads' = <<>> /\ requests' = requests
    BY <1>1 DEF Turn, MineIn
<1>2. CASE Proceed(result, it, page, <<>>)
  <2>1. it \in 1..End
      BY DEF TypeOK, DialogTypeOK
  <2> QED
      BY <1>2, <2>1, ProceedTurn
<1> QED
    BY <1>1, <1>2 DEF DbusStatus

\* Where a file is being downloaded or the user is asked, it is the dialog's turn.
LEMMA QuietWhere ==
    ASSUME TypeOK, Conversation, downloads # <<>> \/ Asking \/ NotStarted
    PROVE  /\ MineIn(requests) = {} /\ MineIn(handling) = {} /\ MySignals = {}
           /\ Asking \/ NotStarted => downloads = <<>>
           /\ downloads # <<>> => OtherFrames = <<>> /\ Frame = downloads[1] /\ 1 \in DOMAIN downloads
<1>1. Tokens = {}
    BY DEF Conversation, NothingOut
<1>2. ASSUME downloads # <<>>
      PROVE  Len(downloads) = 1 /\ DOMAIN downloads = 1..1
  <2>1. downloads \in Seq(1..Len(urls))
      BY DEF TypeOK, DialogTypeOK
  <2>2. Len(downloads) \in Nat \ {0}
      BY <1>2, <2>1, EmptySeq
  <2>3. Len(downloads) <= 1
      BY DEF Conversation, OneDownload
  <2>4. \A n \in Nat \ {0} : n <= 1 => n = 1
      OBVIOUS
  <2>5. Len(downloads) = 1
      BY <2>2, <2>3, <2>4, Zenon
  <2> QED
      BY <2>1, <2>5, LenProperties
<1>3. ASSUME downloads # <<>>
      PROVE  OtherFrames = <<>>
  <2>1. Len(downloads) = 1
      BY <1>2, <1>3
  <2>2. Len(downloads) - 1 \in Int /\ Len(downloads) - 1 < 1 /\ 1 \in Int
      BY <2>1
  <2> QED
      BY <2>2, SubSeqEmpty, Zenon DEF OtherFrames
<1>4. MineIn(requests) = {} /\ MineIn(handling) = {} /\ MySignals = {}
    BY <1>1, TokenPlaces
<1>5. downloads # <<>> => Frame = downloads[1] /\ 1 \in DOMAIN downloads
    BY <1>2 DEF Frame
<1> QED
    BY <1>3, <1>4, <1>5 DEF Conversation, OneDownload

-----------------------------------------------------------------------------
(* A job that inherits nothing starts with nothing out.                    *)
LEMMA FreshJob ==
    ASSUME NEW j \in Jobs, Exec(j), ~late'
    PROVE  Conversation'
<1>1. ~InFlight /\ UNCHANGED <<requests, handling, signals>> /\ downloads' = <<>>
    BY DEF Exec, backendVars, busVars, daemonVars, Exists
<1>2. MineIn(requests)' = {} /\ MineIn(handling)' = {} /\ MySignals' = {}
    BY <1>1 DEF InFlight, MineIn, MySignals
<1>3. Tokens' = {}
    BY <1>2 DEF Tokens
<1>4. page' = "PROGRESS"
    BY DEF Exec
<1>5. Len(<<>>) = 0 /\ DOMAIN <<>> = {}
    BY EmptySeq, LenProperties
<1>6. OneDownload'
    BY <1>1, <1>4, <1>5 DEF OneDownload, Asking
<1>7. OutForCurrentItem'
    BY <1>1, <1>3, <1>5 DEF OutForCurrentItem
<1> QED
    BY <1>3, <1>6, <1>7 DEF Conversation, NothingOut

LEMMA ConversationStep ==
    ASSUME TypeOK, Conversation, [Next]_vars, ~late, ~late'
    PROVE  Conversation'
<1>1. ASSUME NEW j \in Jobs, Exec(j)
      PROVE  Conversation'
    BY <1>1, FreshJob
<1>2. ASSUME FirstDoNext
      PROVE  Conversation'
  <2>1. NotStarted /\ ~Asking
      BY <1>2 DEF FirstDoNext, NotStarted, Conversation, OneDownload
  <2>2. /\ MineIn(requests) = {} /\ MineIn(handling) = {} /\ MySignals = {}
        /\ downloads = <<>>
      BY <2>1, QuietWhere
  <2>3. /\ DoNext(it, isModified, page, <<>>) /\ UNCHANGED <<urls, job>>
        /\ it \in 1..End /\ isModified \in BOOLEAN
      BY <1>2, <2>2 DEF FirstDoNext, TypeOK, DialogTypeOK
  <2>4. Turn
      BY <2>1, <2>2, <2>3, DoNextTurn DEF Asking
  <2>5. MineIn(handling)' = {} /\ MySignals' = {} /\ ~NotStarted'
      BY <1>2, <2>2 DEF FirstDoNext, daemonVars, MineIn, MySignals, NotStarted
  <2> QED
      BY <2>4, <2>5, TurnKeeps
<1>3. ASSUME CheckInterface
      PROVE  Conversation'
  <2>1. Moves
      BY <1>3, Unmoved DEF CheckInterface, backendVars, busVars, daemonVars
  <2>2. UNCHANGED <<downloads, doNextDue, job, urls>> /\ open' = open
      BY <1>3 DEF CheckInterface, historyVars
  <2>3. (it' = it \/ it' = End) /\ (page' = page \/ page' = "ERROR")
      BY <1>3 DEF CheckInterface, Abandon
  <2> QED
      BY <2>1, <2>2, <2>3, StayKeeps DEF Asking
<1>4. ASSUME ServiceOwnerChanged
      PROVE  Conversation'
  <2>1. Moves
      BY <1>4, SignalTaken DEF ServiceOwnerChanged, daemonVars, TypeOK
  <2>2. UNCHANGED <<downloads, doNextDue, job, urls>> /\ open' = open
      BY <1>4 DEF ServiceOwnerChanged, historyVars
  <2>3. (it' = it \/ it' = End) /\ (page' = page \/ page' = "ERROR")
      BY <1>4 DEF ServiceOwnerChanged, Abandon
  <2> QED
      BY <2>1, <2>2, <2>3, StayKeeps DEF Asking
<1>5. ASSUME ReceiveStatus
      PROVE  Conversation'
  <2>1. /\ signals # <<>> /\ Head(signals) # OwnerLost /\ Mine(Head(signals))
        /\ signals' = Tail(signals) /\ Exists
        /\ DbusStatus(Head(signals).result, downloads)
        /\ UNCHANGED <<urls, job, doNextDue, handling>>
      BY <1>5 DEF ReceiveStatus, Status, daemonVars
  <2>2. /\ Tokens # {}
        /\ MineIn(requests) = {} /\ MineIn(handling) = {} /\ MySignals' = {}
      BY <2>1, AnswerTaken DEF Conversation, TypeOK
  <2>3. downloads = <<>> /\ ~Asking /\ ~NotStarted
      BY <2>2 DEF Conversation, NothingOut
  <2>4. Turn
      BY <2>1, <2>2, <2>3, DbusTurn DEF Asking
  <2>5. MineIn(handling)' = {} /\ ~NotStarted'
      BY <2>1, <2>2, <2>3 DEF MineIn, NotStarted
  <2> QED
      BY <2>2, <2>4, <2>5, TurnKeeps
<1>6. ASSUME IgnoreSignal
      PROVE  Conversation'
  <2>1. Moves
      BY <1>6, SignalTaken DEF IgnoreSignal, Ignore, daemonVars, TypeOK
  <2>2. UNCHANGED <<downloads, doNextDue, job, urls, open, it, page>>
      BY <1>6 DEF IgnoreSignal, Ignore, dialogVars, historyVars
  <2> QED
      BY <2>1, <2>2, StayKeeps DEF Asking
<1>7. ASSUME DownloadDone
      PROVE  Conversation'
  <2>1. downloads # <<>> /\ ~Asking /\ ~NotStarted
      BY <1>7 DEF DownloadDone, Conversation, OneDownload
  <2>2. /\ MineIn(requests) = {} /\ MineIn(handling) = {} /\ MySignals = {}
        /\ OtherFrames = <<>> /\ Frame = downloads[1] /\ 1 \in DOMAIN downloads
      BY <2>1, QuietWhere
  <2>3. UNCHANGED <<urls, job, it, open, page, doNextDue, handling, signals>> /\ downloads' = <<>>
      BY <1>7, <2>2 DEF DownloadDone, daemonVars
  <2>4. Exists /\ ~NotStarted' /\ ~Asking'
      BY <2>1, <2>3 DEF Exists, NotStarted, Asking
  <2>5. Frame \in 1..Len(urls) /\ Len(urls) \in Nat
      BY <2>1, FramesType, LenProperties DEF TypeOK, DialogTypeOK
  <2>6. it # End => Frame = it
      BY <2>2, <2>4 DEF Conversation, OutForCurrentItem
  <2>7. PICK afm \in BOOLEAN : SendItem(Frame, afm)
    <3>1. CreateAfm(it) \in BOOLEAN
        BY DEF CreateAfm
    <3> QED
        BY <1>7, <3>1 DEF DownloadDone
  <2>8. Request(Method(Frame), Frame, FALSE, afm) \in Requests
    <3>1. Frame \in Nat /\ Frame \in 1..Len(urls)
        BY <2>5
    <3> QED
        BY <3>1, MethodType, RequestType, Zenon DEF TypeOK
  <2>9. \A k \in MineIn(requests)' :
            /\ k = Len(requests) + 1
            /\ requests'[k] = Request(Method(Frame), Frame, FALSE, afm)
      BY <2>2, <2>7, <2>8, SendTurn, Zenon DEF SendItem, TypeOK
  <2>10. Request(Method(Frame), Frame, FALSE, afm).pos = Frame
         /\ Request(Method(Frame), Frame, FALSE, afm).job = job
      BY DEF Request
  <2>11. \A k \in MineIn(requests)' :
            k = Len(requests) + 1 /\ requests'[k].pos = Frame /\ requests'[k].job = job
      BY <2>9, <2>10, Zenon
  <2>12. it' # End' => Frame = it' /\ job' = job
      BY <2>3, <2>6 DEF End
  <2>13. Turn
      BY <2>3, <2>4, <2>11, <2>12 DEF Turn
  <2>14. MineIn(handling)' = {} /\ MySignals' = {}
      BY <2>2, <2>3 DEF MineIn, MySignals
  <2> QED
      BY <2>4, <2>13, <2>14, TurnKeeps
<1>8. ASSUME DownloadFails
      PROVE  Conversation'
  <2>1. downloads # <<>> /\ ~Asking /\ ~NotStarted
      BY <1>8 DEF DownloadFails, Conversation, OneDownload
  <2>2. /\ MineIn(requests) = {} /\ MineIn(handling) = {} /\ MySignals = {}
        /\ OtherFrames = <<>>
      BY <2>1, QuietWhere
  <2>3. UNCHANGED <<urls, job, doNextDue, handling, signals>>
      BY <1>8 DEF DownloadFails, daemonVars
  <2>4. DbusStatus(DownloadFailed, <<>>)
      BY <1>8, <2>2 DEF DownloadFails
  <2>5. Turn
      BY <2>1, <2>2, <2>3, <2>4, DbusTurn DEF Asking
  <2>6. MineIn(handling)' = {} /\ MySignals' = {} /\ ~NotStarted'
      BY <2>1, <2>2, <2>3 DEF MineIn, MySignals, NotStarted, Exists
  <2> QED
      BY <2>5, <2>6, TurnKeeps
<1>9. ASSUME ProgressCancel
      PROVE  Conversation'
  <2>1. Moves
      BY <1>9, Unmoved DEF ProgressCancel, userFrame, daemonVars
  <2>2. UNCHANGED <<downloads, doNextDue, job, urls, open, it, page>>
      BY <1>9 DEF ProgressCancel, userFrame
  <2> QED
      BY <2>1, <2>2, StayKeeps DEF Asking
<1>10. ASSUME Asking, UNCHANGED userFrame, Turn
       PROVE  Conversation'
  <2>1. MineIn(handling) = {} /\ MySignals = {} /\ ~NotStarted
      BY <1>10, QuietWhere DEF Conversation, OneDownload
  <2>2. MineIn(handling)' = {} /\ MySignals' = {} /\ ~NotStarted'
      BY <1>10, <2>1
         DEF userFrame, daemonVars, MineIn, MySignals, NotStarted, Exists, Asking
  <2> QED
      BY <1>10, <2>2, TurnKeeps
<1>11. ASSUME NEW auto \in BOOLEAN, Skip(auto)
       PROVE  Conversation'
  <2>1. Asking /\ UNCHANGED userFrame
      BY <1>11 DEF Skip, Asking
  <2>2. MineIn(requests) = {} /\ downloads = <<>>
      BY <2>1, QuietWhere
  <2>3. ASSUME it # End, DoNext(Advance(it), isModified, "PROGRESS", downloads)
        PROVE  Turn
    <3>1. urls \in Seq(Items) /\ it \in 1..Len(urls) /\ isModified \in BOOLEAN
        BY <2>3, LenProperties DEF End, TypeOK, DialogTypeOK
    <3>2. Advance(it) \in 1..End
        BY <3>1, AfterItemRange
    <3>3. UNCHANGED <<urls, job>>
        BY <2>1 DEF userFrame
    <3> QED
        BY <2>2, <2>3, <3>1, <3>2, <3>3, DoNextTurn
  <2>4. ASSUME UNCHANGED <<requests, cmd, it, prev, isModified, page, open, downloads,
                           dispatched>>
        PROVE  Turn
      BY <2>2, <2>4 DEF Turn, MineIn
  <2> QED
      BY <1>10, <1>11, <2>1, <2>3, <2>4 DEF Skip
<1>12. ASSUME SkipCancel
       PROVE  Conversation'
  <2>1. Asking /\ UNCHANGED userFrame
      BY <1>12 DEF SkipCancel, Asking
  <2>2. MineIn(requests) = {} /\ downloads = <<>>
      BY <2>1, QuietWhere
  <2>3. DoNext(End, isModified, "PROGRESS", <<>>) /\ UNCHANGED <<urls, job>>
      BY <1>12, <2>2 DEF SkipCancel, userFrame
  <2>4. End \in 1..End /\ isModified \in BOOLEAN
      BY LenProperties DEF End, TypeOK, DialogTypeOK
  <2>5. Turn
      BY <2>2, <2>3, <2>4, DoNextTurn
  <2> QED
      BY <1>10, <2>1, <2>5
<1>13. ASSUME NEW yes \in BOOLEAN, ConfirmCancel(yes)
       PROVE  Conversation'
  <2>1. Asking /\ UNCHANGED userFrame
      BY <1>13 DEF ConfirmCancel, Asking
  <2>2. MineIn(requests) = {} /\ downloads = <<>>
      BY <2>1, QuietWhere
  <2>3. ASSUME Proceed(lastStatus, ResumeAt(yes), "PROGRESS", downloads)
        PROVE  Turn
    <3>1. ResumeAt(yes) \in 1..End
        BY LenProperties DEF ResumeAt, End, TypeOK, DialogTypeOK
    <3>2. UNCHANGED <<urls, job>>
        BY <2>1 DEF userFrame
    <3> QED
        BY <2>2, <2>3, <3>1, <3>2, ProceedTurn
  <2>4. ASSUME UNCHANGED <<requests, downloads>>
        PROVE  Turn
      BY <2>2, <2>4 DEF Turn, MineIn
  <2>5. Turn
      BY <1>13, <2>3, <2>4 DEF ConfirmCancel
  <2> QED
      BY <1>10, <2>1, <2>5
<1>14. ASSUME CloseError \/ CloseComplete
       PROVE  Conversation'
  <2>1. Moves
      BY <1>14, Unmoved DEF CloseError, CloseComplete, userFrame, daemonVars
  <2>2. UNCHANGED <<downloads, doNextDue, job, urls, it>> /\ open' = FALSE
      BY <1>14 DEF CloseError, CloseComplete, userFrame
  <2> QED
      BY <2>1, <2>2, StayKeeps DEF Asking
<1>15. ASSUME BackendNext, UNCHANGED <<dialogVars, historyVars>>
       PROVE  Conversation'
  <2>1. Moves
      BY <1>15, BackendMoves DEF TypeOK
  <2>2. UNCHANGED <<downloads, doNextDue, job, urls, open, it, page>>
      BY <1>15 DEF dialogVars, historyVars
  <2> QED
      BY <2>1, <2>2, StayKeeps DEF Asking
<1>16. ASSUME UNCHANGED vars
       PROVE  Conversation'
  <2>1. Moves
      BY <1>16, Unmoved DEF vars, backendVars, busVars, daemonVars
  <2>2. UNCHANGED <<downloads, doNextDue, job, urls, open, it, page>>
      BY <1>16 DEF vars, dialogVars, historyVars
  <2> QED
      BY <2>1, <2>2, StayKeeps DEF Asking
<1> QED
    BY <1>1, <1>2, <1>3, <1>4, <1>5, <1>6, <1>7, <1>8, <1>9, <1>11, <1>12, <1>13, <1>14,
       <1>15, <1>16 DEF Next, UserNext, LoopNext

(* Only the start of a job sets the mark of leftovers, and clears it when  *)
(* nothing is in flight.                                                   *)
LEMMA LateStep ==
    ASSUME [Next]_vars, late, ~late'
    PROVE  \E j \in Jobs : Exec(j)
BY DEF Next, UserNext, LoopNext, FirstDoNext, CheckInterface, ServiceOwnerChanged,
       ReceiveStatus, Status, IgnoreSignal, Ignore, DownloadDone, DownloadFails,
       ProgressCancel, Skip, SkipCancel, ConfirmCancel, CloseError, CloseComplete,
       userFrame, historyVars, vars

LEMMA InvFormula ==
    ConversationInv <=> (~late => Conversation)
BY DEF ConversationInv, Conversation, OneOutstanding

(* Nothing is out while the dialog asks, downloads or has not begun; what is *)
(* out belongs to the item the iterator stands on: the inductive invariant   *)
(* of the conversation between dbusStatus(), doNext() and the daemon.        *)
THEOREM ConversationInvariant == Spec => []ConversationInv
<1>1. Init => ConversationInv
  <2> SUFFICES ASSUME Init
               PROVE  Conversation
      BY InvFormula
  <2>1. MineIn(requests) = {} /\ MineIn(handling) = {} /\ MySignals = {}
      BY DEF Init, BackendInit, MineIn, MySignals
  <2>2. Tokens = {} /\ downloads = <<>> /\ ~Exists
      BY <2>1 DEF Tokens, Init, Exists
  <2>3. Len(<<>>) = 0
      BY EmptySeq
  <2> QED
      BY <2>2, <2>3
         DEF Conversation, NothingOut, OneDownload, OutForCurrentItem, NotStarted, Asking, Exists
<1>2. TypeOK /\ ConversationInv /\ [Next]_vars => ConversationInv'
  <2> SUFFICES ASSUME TypeOK, ConversationInv, [Next]_vars, ~late'
               PROVE  Conversation'
      BY InvFormula DEF ConversationInv, Conversation, OneOutstanding
  <2>1. CASE late
    <3>1. PICK j \in Jobs : Exec(j)
        BY <2>1, LateStep
    <3> QED
        BY <3>1, FreshJob
  <2>2. CASE ~late
      BY <2>2, InvFormula, ConversationStep
  <2> QED
      BY <2>1, <2>2
<1> QED
    BY <1>1, <1>2, TypeCorrect, PTL DEF Spec

(* The dialog never has two requests out: not when the daemon dies and is  *)
(* started again, not when the user cancels, resumes or skips, and not when*)
(* a download gives control back in the middle of doNext().                *)
THEOREM OneRequestOut == Spec => []OneOutstanding
<1>1. ConversationInv => OneOutstanding
    BY DEF ConversationInv, OneOutstanding
<1> QED
    BY <1>1, ConversationInvariant, PTL

(* dbusStatus() applies a status to the item whose request it answers.     *)
THEOREM AnswersForCurrentItem == Spec => []AnswersMatch
<1>1. ConversationInv => AnswersMatch
  <2> SUFFICES ASSUME ConversationInv, Exists, ~late, it # End,
                      NEW k \in DOMAIN signals,
                      signals[k] # OwnerLost, signals[k].of.pid = "app"
               PROVE  signals[k].of.job = job /\ signals[k].of.pos = it
      BY DEF AnswersMatch
  <2>1. <<"answer", k>> \in Tokens
      BY TokenPlaces DEF MySignals
  <2>2. RequestOf(<<"answer", k>>) = signals[k].of
      BY TokenRequests
  <2> QED
      BY <2>1, <2>2 DEF ConversationInv, OutForCurrentItem
<1> QED
    BY <1>1, ConversationInvariant, PTL
=============================================================================
