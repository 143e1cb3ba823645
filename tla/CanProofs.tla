----------------------------- MODULE CanProofs ------------------------------
(***************************************************************************)
(* Proofs about the CAN control frame, for every error limit, timeout,     *)
(* counter width, payload and configuration.                               *)
(***************************************************************************)
EXTENDS CanHistory, FiniteSetTheorems, TLAPS

-----------------------------------------------------------------------------
(* A latched receiver takes over nothing.                                  *)

\* Once latched, CanReceive is never on the path that writes the values: the
\* frame that latches it is itself turned away.
LatchInv == canErrors = MaxErrors => rxStep \in {"idle", "latched"}

LEMMA LatchInvInit == Init => LatchInv
BY DEF Init, LatchInv

LEMMA LatchInvStep == LatchInv /\ [Next]_vars => LatchInv'
<1> SUFFICES ASSUME LatchInv, [Next]_vars
             PROVE  LatchInv'
  OBVIOUS
<1>1. CASE Receive
  BY <1>1, FrameAssumption DEF Receive, LatchInv
<1>2. CASE RxStamp \/ RxIo \/ RxPot
  BY <1>2 DEF RxStamp, RxIo, RxPot, LatchInv, judge
<1>3. CASE RxCruise \/ RxLatched
  BY <1>3 DEF RxCruise, RxLatched, RxDone, LatchInv, judge
<1>4. CASE UNCHANGED <<judge, receiver>>
  BY <1>4 DEF LatchInv, judge, receiver
<1>5. CASE Send \/ Hang \/ Lose \/ Damage \/ Elapse \/ Ms10Task \/ CruiseControl
  BY <1>4, <1>5 DEF Send, Hang, Lose, Damage, Elapse, Ms10Task, CruiseControl
<1> QED
  BY <1>1, <1>2, <1>3, <1>4, <1>5 DEF Next, CanReceive, vars

LEMMA LatchedStep ==
  ASSUME LatchInv, [Next]_vars, canErrors = MaxErrors
  PROVE  canErrors' = MaxErrors /\ pot' = pot /\ canio' \subseteq canio
<1>1. CASE Receive
  BY <1>1 DEF Receive, CountErrors, values
<1>2. CASE RxLatched
  BY <1>2 DEF RxLatched, judge
<1>3. ~(RxStamp \/ RxIo \/ RxPot \/ RxCruise)
  BY DEF LatchInv, RxStamp, RxIo, RxPot, RxCruise
<1>4. CASE Ms10Task
  <2>1. canio' = canio \/ canio' = {}
    BY <1>4 DEF Ms10Task, GetDigInputs
  <2> QED
    BY <1>4, <2>1 DEF Ms10Task, judge
<1>5. CASE CruiseControl
  BY <1>5 DEF CruiseControl, judge
<1>6. CASE Send \/ Hang \/ Lose \/ Damage \/ Elapse
  BY <1>6 DEF Send, Hang, Lose, Damage, Elapse, judge, values
<1>7. CASE UNCHANGED vars
  BY <1>7 DEF vars, judge, values
<1> QED
  BY <1>1, <1>2, <1>3, <1>4, <1>5, <1>6, <1>7 DEF Next, CanReceive

\* Whatever frames arrive after the error count has latched, no value of theirs
\* is taken over, and the count stays where it is.
THEOREM LatchIsFinal == Spec => LatchedTakesNothing
<1>1. LatchInv /\ [Next]_vars
        => [canErrors = MaxErrors
              => canErrors' = MaxErrors /\ pot' = pot /\ canio' \subseteq canio]_vars
  BY LatchedStep
<1> QED
  BY <1>1, LatchInvInit, LatchInvStep, PTL DEF Spec, LatchedTakesNothing

-----------------------------------------------------------------------------
(* Type correctness.                                                       *)

\* A rolling counter stays within its bits.
LEMMA CounterStep ==
  ASSUME NEW c \in Counters
  PROVE  (c + 1) % CounterMod \in Counters
BY FrameAssumption DEF Counters

\* The error count stays between 0 and the limit.
LEMMA CountErrorsType ==
  ASSUME canErrors \in 0 .. MaxErrors, NEW f
  PROVE  CountErrors(f) \in 0 .. MaxErrors
BY FrameAssumption DEF CountErrors

LEMMA TypeInit == Init => TypeOK
<1> SUFFICES ASSUME Init
             PROVE  TypeOK
  OBVIOUS
<1>1. 0 \in Counters /\ canErrors \in 0 .. MaxErrors /\ age \in 0 .. CanTimeout
  BY FrameAssumption DEF Init, Counters
<1>2. regenpreset \in 0 .. 100 /\ {pot, throttle} \subseteq Nat
        /\ cruisespeed \in Nat \cup {-1} /\ cruise \in Nat \cup {-1}
  BY DEF Init
<1>3. {stuck, clean, canIoActive} \subseteq BOOLEAN
  BY DEF Init
<1> QED
  BY <1>1, <1>2, <1>3 DEF Init, TypeOK

\* The bus only ever carries frames.
LEMMA BusType ==
  ASSUME TypeOK, [Next]_vars
  PROVE  bus' \in Frames \cup {NoFrame}
<1>1. CASE Send
  <2>1. PICK data \in Payloads :
          bus' = [ctr1 |-> sent', ctr2 |-> sent', crc |-> TRUE, data |-> data]
    BY <1>1 DEF Send
  <2>2. sent' \in Counters
    BY <1>1, CounterStep DEF Send, TypeOK
  <2> QED
    BY <2>1, <2>2 DEF Frames
<1>2. CASE Damage
  <2>1. PICK ctr1 \in Counters, ctr2 \in Counters, data \in Payloads :
          bus' = [ctr1 |-> ctr1, ctr2 |-> ctr2, crc |-> FALSE, data |-> data]
    BY <1>2 DEF Damage
  <2> QED
    BY <2>1 DEF Frames
<1>3. CASE Lose
  BY <1>3 DEF Lose
<1>4. CASE Receive
  BY <1>4 DEF Receive, TypeOK
<1>5. CASE UNCHANGED bus
  BY <1>5 DEF TypeOK
<1> QED
  BY <1>1, <1>2, <1>3, <1>4, <1>5
  DEF Next, CanReceive, Hang, RxStamp, RxIo, RxPot, RxCruise, RxLatched, Elapse,
      Ms10Task, CruiseControl, vars, sender

\* What the receiver's steps leave in the judge, the frame and the values.
LEMMA ReceiverType ==
  ASSUME TypeOK, CanReceive
  PROVE  /\ canErrors' \in 0 .. MaxErrors
         /\ seqCounter' \in Counters
         /\ rxStep' \in {"idle", "stamp", "io", "pot", "cruise", "latched"}
         /\ rx' \in IF rxStep' = "idle" THEN {NoFrame} ELSE Frames
         /\ age' \in 0 .. CanTimeout
         /\ canio' \in SUBSET IoBits
         /\ regenpreset' \in 0 .. 100
         /\ pot' \in Nat
         /\ cruisespeed' \in Nat \cup {-1}
<1> USE DEF judge, receiver, values
<1>1. CASE Receive
  <2>1. bus \in Frames
    BY <1>1 DEF Receive, TypeOK
  <2>2. bus.ctr1 \in Counters
    BY <2>1 DEF Frames
  <2>3. canErrors' \in 0 .. MaxErrors
    BY <1>1, CountErrorsType DEF Receive, TypeOK
  <2> QED
    BY <1>1, <2>1, <2>2, <2>3 DEF Receive, TypeOK
<1>2. CASE RxStamp
  BY <1>2, FrameAssumption DEF RxStamp, TypeOK
<1>3. CASE RxIo \/ RxPot \/ RxCruise
  <2>1. rx.data \in PayloadType
    <3>1. rx \in Frames
      BY <1>3 DEF TypeOK, RxIo, RxPot, RxCruise
    <3> QED
      BY <3>1, FrameAssumption DEF Frames
  <2>2. /\ rx.data.io \in SUBSET IoBits
        /\ rx.data.regen \in 0 .. 100
        /\ rx.data.pot \in Nat
        /\ rx.data.speed \in Nat
    BY <2>1 DEF PayloadType
  <2> QED
    BY <1>3, <2>2 DEF RxIo, RxPot, RxCruise, RxDone, TypeOK
<1>4. CASE RxLatched
  BY <1>4 DEF RxLatched, RxDone, TypeOK
<1> QED
  BY <1>1, <1>2, <1>3, <1>4 DEF CanReceive

\* What every other step leaves there.
LEMMA OthersType ==
  ASSUME TypeOK, [Next]_vars, ~CanReceive
  PROVE  /\ UNCHANGED <<judge, receiver, regenpreset, pot>>
         /\ age' \in 0 .. CanTimeout
         /\ canio' \in SUBSET IoBits
         /\ cruisespeed' \in Nat \cup {-1}
<1> USE DEF judge, receiver, values, users, sender
<1>1. CASE Elapse
  BY <1>1, FrameAssumption DEF Elapse, Older, TypeOK
<1>2. CASE Ms10Task
  BY <1>2 DEF Ms10Task, GetDigInputs, TypeOK
<1>3. CASE CruiseControl
  BY <1>3 DEF CruiseControl, TypeOK
<1>4. CASE Send \/ Hang \/ Lose \/ Damage \/ UNCHANGED vars
  BY <1>4 DEF Send, Hang, Lose, Damage, TypeOK, vars
<1> QED
  BY <1>1, <1>2, <1>3, <1>4 DEF Next

\* The sender's variables and what the tasks make of the values.
LEMMA UsersType ==
  ASSUME TypeOK, [Next]_vars
  PROVE  /\ sent' \in Counters
         /\ {stuck', clean', canIoActive'} \subseteq BOOLEAN
         /\ din' \in SUBSET IoBits
         /\ throttle' \in Nat
         /\ cruise' \in Nat \cup {-1}
<1> USE DEF judge, receiver, values, users, sender
<1>1. CASE Send
  BY <1>1, CounterStep DEF Send, TypeOK
<1>2. CASE Hang \/ Lose \/ Damage \/ Elapse
  BY <1>2 DEF Hang, Lose, Damage, Elapse, TypeOK
<1>3. CASE CanReceive
  BY <1>3 DEF CanReceive, Receive, RxStamp, RxIo, RxPot, RxCruise, RxLatched, TypeOK
<1>4. CASE Ms10Task
  <2>1. din' \in SUBSET IoBits /\ throttle' \in Nat
    BY <1>4, FrameAssumption DEF Ms10Task, GetDigInputs, GetUserThrottleCommand, TypeOK
  <2>2. canIoActive' \in BOOLEAN
    BY <1>4 DEF Ms10Task, GetDigInputs
  <2> QED
    BY <1>4, <2>1, <2>2 DEF Ms10Task, TypeOK
<1>5. CASE CruiseControl
  BY <1>5 DEF CruiseControl, TypeOK
<1>6. CASE UNCHANGED vars
  BY <1>6 DEF vars, TypeOK
<1> QED
  BY <1>1, <1>2, <1>3, <1>4, <1>5, <1>6 DEF Next

LEMMA TypeStep == TypeOK /\ [Next]_vars => TypeOK'
<1> SUFFICES ASSUME TypeOK, [Next]_vars
             PROVE  TypeOK'
  OBVIOUS
<1>1. CASE CanReceive
  BY <1>1, BusType, UsersType, ReceiverType DEF TypeOK
<1>2. CASE ~CanReceive
  BY <1>2, BusType, UsersType, OthersType DEF TypeOK, judge, receiver
<1> QED
  BY <1>1, <1>2

\* Counters, counts, ages and values stay in their ranges, whatever the bus does.
THEOREM CanTypeCorrect == Spec => []TypeOK
BY TypeInit, TypeStep, PTL DEF Spec

-----------------------------------------------------------------------------
(* A clean bus: the sender's counter, the frame under way and the counter  *)
(* the receiver remembers. The first frame may carry the counter the       *)
(* receiver booted with; no later one repeats the counter before it.       *)

CleanInv ==
  clean =>
    /\ ~stuck
    /\ canErrors <= 1
    /\ bus = NoFrame => canErrors = 0 \/ seqCounter = sent
    /\ bus # NoFrame =>
         /\ bus.crc
         /\ bus.ctr1 = sent
         /\ bus.ctr2 = sent
         /\ canErrors = 0 \/ seqCounter # sent

\* A rolling counter that moves on changes.
LEMMA CounterMoves ==
  ASSUME NEW c \in Counters
  PROVE  (c + 1) % CounterMod # c
<1>1. CASE c + 1 < CounterMod
  BY <1>1, FrameAssumption DEF Counters
<1>2. CASE c + 1 = CounterMod
  <2>1. CounterMod % CounterMod = 0
    BY FrameAssumption
  <2> QED
    BY <1>2, <2>1, FrameAssumption DEF Counters
<1> QED
  BY <1>1, <1>2, FrameAssumption DEF Counters

\* Only CanReceive's first step judges a frame, only the sender and the bus touch
\* the frame under way.
LEMMA JudgeFrame ==
  ASSUME [Next]_vars, ~Receive
  PROVE  UNCHANGED judge
BY DEF Next, Send, Hang, Lose, Damage, CanReceive, RxStamp, RxIo, RxPot, RxCruise,
       RxLatched, Elapse, Ms10Task, CruiseControl, vars

LEMMA SenderFrame ==
  ASSUME [Next]_vars, ~(Send \/ Hang \/ Lose \/ Damage \/ Receive)
  PROVE  UNCHANGED sender
BY DEF Next, CanReceive, RxStamp, RxIo, RxPot, RxCruise, RxLatched, Elapse,
       Ms10Task, CruiseControl, vars

LEMMA CleanInvStep ==
  ASSUME TypeOK, CleanInv, [Next]_vars
  PROVE  CleanInv'
<1> USE DEF CleanInv, judge, sender
<1>1. CASE Send
  <2> SUFFICES ASSUME clean'
               PROVE  CleanInv'
    OBVIOUS
  <2>1. clean /\ ~stuck /\ ~stuck' /\ UNCHANGED <<canErrors, seqCounter>>
    BY <1>1 DEF Send
  <2>2. sent' # sent
    BY <1>1, <2>1, CounterMoves DEF Send, TypeOK
  <2>3. bus'.crc /\ bus'.ctr1 = sent' /\ bus'.ctr2 = sent'
    BY <1>1 DEF Send
  <2>4. bus' # NoFrame
    <3>1. PICK data \in Payloads :
            bus' = [ctr1 |-> sent', ctr2 |-> sent', crc |-> TRUE, data |-> data]
      BY <1>1 DEF Send
    <3> QED
      BY <3>1 DEF NoFrame
  <2>5. canErrors = 0 \/ seqCounter = sent
    BY <1>1, <2>1 DEF Send
  <2> QED
    BY <2>1, <2>2, <2>3, <2>4, <2>5
<1>2. CASE Hang \/ Lose \/ Damage
  BY <1>2 DEF Hang, Lose, Damage
<1>3. CASE Receive
  <2> SUFFICES ASSUME clean'
               PROVE  CleanInv'
    OBVIOUS
  <2>1. /\ clean
        /\ bus' = NoFrame
        /\ seqCounter' = sent
        /\ UNCHANGED <<sent, stuck>>
        /\ canErrors' = CountErrors(bus)
        /\ bus # NoFrame
    BY <1>3 DEF Receive
  <2>2. canErrors \in 0 .. 1 /\ canErrors \in 0 .. MaxErrors
    BY <2>1 DEF TypeOK
  <2>3. CountErrors(bus) <= 1
    <3>1. CASE canErrors = 0
      BY <3>1 DEF CountErrors
    <3>2. CASE canErrors = 1
      <4>1. ~Bad(bus)
        BY <2>1, <3>2 DEF Bad, CounterWrong
      <4> QED
        BY <3>2, <4>1 DEF CountErrors
    <3> QED
      BY <2>2, <3>1, <3>2
  <2> QED
    BY <2>1, <2>3
<1>4. CASE ~(Send \/ Hang \/ Lose \/ Damage \/ Receive)
  BY <1>4, JudgeFrame, SenderFrame
<1> QED
  BY <1>1, <1>2, <1>3, <1>4

\* For every error limit and counter width: as long as nothing goes wrong on the
\* bus or at the sender the error count never passes one.
THEOREM CleanBusCorrect == Spec => []CleanBusNeverLatches
<1>1. Init => CleanInv
  BY DEF Init, CleanInv
<1>2. TypeOK /\ CleanInv /\ [Next]_vars => CleanInv'
  BY CleanInvStep
<1>3. CleanInv => CleanBusNeverLatches
  BY DEF CleanInv, CleanBusNeverLatches
<1> QED
  BY <1>1, <1>2, <1>3, CanTypeCorrect, PTL DEF Spec

-----------------------------------------------------------------------------
(* The error count and the log of verdicts. Counts over stretches of a     *)
(* log are cardinalities; one more verdict adds one to one of them.        *)

Verdicts(s, v, i, j) == {k \in i .. j : s[k] = v}

LEMMA VerdictsFinite ==
  ASSUME NEW s, NEW v, NEW i \in Int, NEW j \in Int
  PROVE  /\ IsFiniteSet(Verdicts(s, v, i, j))
         /\ Cardinality(Verdicts(s, v, i, j)) \in Nat
<1>1. IsFiniteSet(i .. j) /\ Verdicts(s, v, i, j) \subseteq i .. j
  BY FS_Interval DEF Verdicts
<1>2. IsFiniteSet(Verdicts(s, v, i, j))
  BY <1>1, FS_Subset
<1> QED
  BY <1>2, FS_CardinalityType

\* Stretches that end before the new verdict keep their count, ...
LEMMA VerdictsKept ==
  ASSUME NEW s \in Seq(BOOLEAN), NEW x \in BOOLEAN, NEW v,
         NEW i \in Nat \ {0}, NEW j \in 0 .. Len(s)
  PROVE  Verdicts(Append(s, x), v, i, j) = Verdicts(s, v, i, j)
<1>1. \A k \in i .. j : Append(s, x)[k] = s[k]
  OBVIOUS
<1> QED
  BY <1>1 DEF Verdicts

\* ... stretches up to the new verdict count it, ...
LEMMA VerdictsNext ==
  ASSUME NEW s \in Seq(BOOLEAN), NEW x \in BOOLEAN, NEW v \in BOOLEAN,
         NEW i \in 1 .. Len(s) + 1
  PROVE  Cardinality(Verdicts(Append(s, x), v, i, Len(s) + 1))
           = Cardinality(Verdicts(s, v, i, Len(s))) + (IF x = v THEN 1 ELSE 0)
<1> DEFINE n == Len(s)
<1>1. n \in Nat
  OBVIOUS
<1>2. Append(s, x)[n + 1] = x /\ \A k \in i .. n : Append(s, x)[k] = s[k]
  OBVIOUS
<1>3. i .. n + 1 = (i .. n) \cup {n + 1} /\ n + 1 \notin i .. n
  BY <1>1
<1>4. CASE x = v
  <2>1. Verdicts(Append(s, x), v, i, n + 1) = Verdicts(s, v, i, n) \cup {n + 1}
    BY <1>2, <1>3, <1>4 DEF Verdicts
  <2>2. n + 1 \notin Verdicts(s, v, i, n)
    BY <1>3 DEF Verdicts
  <2> QED
    BY <1>1, <1>4, <2>1, <2>2, VerdictsFinite, FS_AddElement
<1>5. CASE x # v
  <2>1. Verdicts(Append(s, x), v, i, n + 1) = Verdicts(s, v, i, n)
    BY <1>2, <1>3, <1>5 DEF Verdicts
  <2> QED
    BY <1>1, <1>5, <2>1, VerdictsFinite
<1> QED
  BY <1>4, <1>5

\* ... and an empty stretch counts nothing.
LEMMA VerdictsNone ==
  ASSUME NEW s, NEW v, NEW i \in Int, NEW j \in Int, j < i
  PROVE  Cardinality(Verdicts(s, v, i, j)) = 0
<1>1. Verdicts(s, v, i, j) = {}
  BY DEF Verdicts
<1> QED
  BY <1>1, FS_EmptySet

\* By how much bad frames outnumber good ones from the i-th frame to the j-th.
NetOf(s, i, j) ==
  Cardinality(Verdicts(s, FALSE, i, j)) - Cardinality(Verdicts(s, TRUE, i, j))

LEMMA NetOfAppend ==
  ASSUME NEW s \in Seq(BOOLEAN), NEW x \in BOOLEAN
  PROVE  /\ \A i \in Nat \ {0}, j \in 0 .. Len(s) :
              NetOf(s, i, j) \in Int /\ NetOf(Append(s, x), i, j) = NetOf(s, i, j)
         /\ \A i \in 1 .. Len(s) + 1 :
              NetOf(Append(s, x), i, Len(s) + 1)
                = NetOf(s, i, Len(s)) + (IF x THEN -1 ELSE 1)
         /\ \A i, j \in Int : j < i => NetOf(Append(s, x), i, j) = 0
<1>1. ASSUME NEW i \in Nat \ {0}, NEW j \in 0 .. Len(s)
      PROVE  NetOf(s, i, j) \in Int /\ NetOf(Append(s, x), i, j) = NetOf(s, i, j)
  <2> DEFINE bad == Cardinality(Verdicts(s, FALSE, i, j))
             good == Cardinality(Verdicts(s, TRUE, i, j))
  <2>1. bad \in Nat /\ good \in Nat
    <3>1. i \in Int /\ j \in Int
      OBVIOUS
    <3> QED
      BY <3>1, VerdictsFinite
  <2>2. NetOf(s, i, j) = bad - good
    BY DEF NetOf
  <2>3. NetOf(Append(s, x), i, j) = bad - good
    <3>1. Verdicts(Append(s, x), FALSE, i, j) = Verdicts(s, FALSE, i, j)
      BY VerdictsKept
    <3>2. Verdicts(Append(s, x), TRUE, i, j) = Verdicts(s, TRUE, i, j)
      BY VerdictsKept
    <3> QED
      BY <3>1, <3>2, Zenon DEF NetOf
  <2> HIDE DEF bad, good
  <2> QED
    BY <2>1, <2>2, <2>3
<1>2. ASSUME NEW i \in 1 .. Len(s) + 1
      PROVE  NetOf(Append(s, x), i, Len(s) + 1)
               = NetOf(s, i, Len(s)) + (IF x THEN -1 ELSE 1)
  <2> DEFINE bad == Cardinality(Verdicts(s, FALSE, i, Len(s)))
             good == Cardinality(Verdicts(s, TRUE, i, Len(s)))
             bad1 == Cardinality(Verdicts(Append(s, x), FALSE, i, Len(s) + 1))
             good1 == Cardinality(Verdicts(Append(s, x), TRUE, i, Len(s) + 1))
  <2>1. bad \in Nat /\ good \in Nat
    <3>1. i \in Int /\ Len(s) \in Int
      OBVIOUS
    <3> QED
      BY <3>1, VerdictsFinite
  <2>2. NetOf(s, i, Len(s)) = bad - good
    BY DEF NetOf
  <2>3. NetOf(Append(s, x), i, Len(s) + 1) = bad1 - good1
    BY DEF NetOf
  <2>4. CASE x
    <3>1. bad1 = bad + 0 /\ good1 = good + 1
      BY <2>4, VerdictsNext
    <3> HIDE DEF bad, good, bad1, good1
    <3>2. bad1 - good1 = (bad - good) + -1
      BY <2>1, <3>1
    <3> QED
      BY <2>2, <2>3, <2>4, <3>2
  <2>5. CASE ~x
    <3>1. bad1 = bad + 1 /\ good1 = good + 0
      BY <2>5, VerdictsNext
    <3> HIDE DEF bad, good, bad1, good1
    <3> QED
      BY <2>1, <2>2, <2>3, <2>5, <3>1
  <2> QED
    BY <2>4, <2>5
<1>3. ASSUME NEW i \in Int, NEW j \in Int, j < i
      PROVE  NetOf(Append(s, x), i, j) = 0
  <2>1. /\ Cardinality(Verdicts(Append(s, x), FALSE, i, j)) = 0
        /\ Cardinality(Verdicts(Append(s, x), TRUE, i, j)) = 0
    BY <1>3, VerdictsNone
  <2>2. NetOf(Append(s, x), i, j) = 0 - 0
    BY <2>1, Zenon DEF NetOf
  <2> QED
    BY <2>2
<1> QED
  BY <1>1, <1>2, <1>3

\* By how much the last frames may outnumber: until it latches, the error count
\* is the greatest excess of bad over good frames over any stretch that ends
\* now, the empty one included, and no stretch so far reached the limit.
HistoryInv ==
  /\ log \in Seq(BOOLEAN)
  /\ canErrors < MaxErrors =>
       /\ \E i \in 1 .. Len(log) + 1 : NetOf(log, i, Len(log)) = canErrors
       /\ \A i \in 1 .. Len(log) + 1 : NetOf(log, i, Len(log)) <= canErrors
       /\ \A i, j \in DOMAIN log : NetOf(log, i, j) < MaxErrors
  /\ canErrors = MaxErrors =>
       \E i, j \in DOMAIN log : NetOf(log, i, j) >= MaxErrors

LEMMA HistoryInvInit == HistoryInit => HistoryInv
<1> SUFFICES ASSUME HistoryInit
             PROVE  HistoryInv
  OBVIOUS
<1>1. log = <<>> /\ canErrors = 0
  BY DEF HistoryInit, Init
<1>2. Len(log) = 0 /\ DOMAIN log = {} /\ log \in Seq(BOOLEAN)
  BY <1>1
<1>3. /\ Cardinality(Verdicts(log, FALSE, 1, 0)) = 0
      /\ Cardinality(Verdicts(log, TRUE, 1, 0)) = 0
  <2>1. 1 \in Int /\ 0 \in Int /\ 0 < 1
    OBVIOUS
  <2> QED
    BY <2>1, VerdictsNone
<1>4. NetOf(log, 1, 0) = 0 - 0
  BY <1>3, Zenon DEF NetOf
<1>5. 1 .. Len(log) + 1 = {1}
  BY <1>2
<1> QED
  BY <1>1, <1>2, <1>4, <1>5, FrameAssumption DEF HistoryInv

\* A frame judged adds its verdict to the log and moves the count.
LEMMA HistoryReceive ==
  ASSUME TypeOK, HistoryInv, Receive, log' = Append(log, ~Bad(bus))
  PROVE  HistoryInv'
<1> DEFINE n == Len(log)
           good == ~Bad(bus)
<1>1. log \in Seq(BOOLEAN) /\ n \in Nat /\ good \in BOOLEAN
  BY DEF HistoryInv
<1>2. /\ log' \in Seq(BOOLEAN)
      /\ Len(log') = n + 1
      /\ DOMAIN log = 1 .. n
      /\ DOMAIN log' = 1 .. n + 1
  BY <1>1
<1>3. /\ canErrors \in 0 .. MaxErrors
      /\ MaxErrors \in Nat \ {0}
      /\ canErrors' = CountErrors(bus)
  BY FrameAssumption DEF TypeOK, Receive
<1>4. /\ \A i \in 1 .. n + 1, j \in 0 .. n :
           NetOf(log, i, j) \in Int /\ NetOf(log', i, j) = NetOf(log, i, j)
      /\ \A i \in 1 .. n + 1 :
           NetOf(log', i, n + 1) = NetOf(log, i, n) + (IF good THEN -1 ELSE 1)
      /\ \A i, j \in Int : j < i => NetOf(log', i, j) = 0
  <2>1. log' = Append(log, good)
    OBVIOUS
  <2> HIDE DEF good
  <2>2. /\ \A i \in Nat \ {0}, j \in 0 .. n :
             /\ NetOf(log, i, j) \in Int
             /\ NetOf(Append(log, good), i, j) = NetOf(log, i, j)
        /\ \A i \in 1 .. n + 1 :
             NetOf(Append(log, good), i, n + 1)
               = NetOf(log, i, n) + (IF good THEN -1 ELSE 1)
        /\ \A i, j \in Int : j < i => NetOf(Append(log, good), i, j) = 0
    BY <1>1, NetOfAppend, Zenon
  <2>3. 1 .. n + 1 \subseteq Nat \ {0}
    BY <1>1
  <2> QED
    BY <2>1, <2>2, <2>3, Zenon
<1>5. ASSUME canErrors = MaxErrors
      PROVE  HistoryInv'
  <2>1. canErrors' = MaxErrors
    BY <1>3, <1>5 DEF CountErrors
  <2>2. PICK i \in 1 .. n, j \in 1 .. n : NetOf(log, i, j) >= MaxErrors
    BY <1>2, <1>5 DEF HistoryInv
  <2>3. i \in 1 .. n + 1 /\ j \in 1 .. n + 1 /\ j \in 0 .. n
    BY <1>1
  <2>4. NetOf(log', i, j) >= MaxErrors
    BY <1>4, <2>2, <2>3
  <2> QED
    BY <1>2, <1>3, <2>1, <2>3, <2>4 DEF HistoryInv
<1>6. ASSUME canErrors < MaxErrors
      PROVE  HistoryInv'
  <2>1. PICK k \in 1 .. n + 1 : NetOf(log, k, n) = canErrors
    BY <1>6 DEF HistoryInv
  <2>2. \A i \in 1 .. n + 1 : NetOf(log, i, n) <= canErrors
    BY <1>6 DEF HistoryInv
  <2>3. \A i, j \in 1 .. n : NetOf(log, i, j) < MaxErrors
    BY <1>2, <1>6 DEF HistoryInv
  \* Stretches that end before the frame have not reached the limit.
  <2>4. \A i \in 1 .. n + 1, j \in 1 .. n : NetOf(log', i, j) < MaxErrors
    <3> SUFFICES ASSUME NEW i \in 1 .. n + 1, NEW j \in 1 .. n
                 PROVE  NetOf(log', i, j) < MaxErrors
      OBVIOUS
    <3>1. CASE i \in 1 .. n
      <4>1. NetOf(log', i, j) = NetOf(log, i, j)
        BY <1>1, <1>4
      <4> QED
        BY <2>3, <3>1, <4>1
    <3>2. CASE i = n + 1
      BY <1>1, <1>3, <1>4, <3>2
    <3> QED
      BY <1>1, <3>1, <3>2
  <2>5. NetOf(log', n + 2, n + 1) = 0
    BY <1>1, <1>4
  <2>6. CASE ~good
    <3>1. canErrors' = canErrors + 1
      BY <1>3, <1>6, <2>6 DEF CountErrors
    <3>2. \A i \in 1 .. n + 1 : NetOf(log', i, n + 1) <= canErrors'
      <4> SUFFICES ASSUME NEW i \in 1 .. n + 1
                   PROVE  NetOf(log', i, n + 1) <= canErrors'
        OBVIOUS
      <4>1. NetOf(log, i, n) \in Int /\ NetOf(log', i, n + 1) = NetOf(log, i, n) + 1
        BY <1>1, <1>4, <2>6
      <4>2. NetOf(log, i, n) <= canErrors
        BY <2>2
      <4> QED
        BY <1>3, <3>1, <4>1, <4>2
    <3>3. NetOf(log', k, n + 1) = canErrors'
      BY <1>4, <2>1, <2>6, <3>1
    <3>4. CASE canErrors' = MaxErrors
      <4>1. NetOf(log', k, n + 1) >= MaxErrors
        BY <1>3, <3>3, <3>4
      <4>2. k \in DOMAIN log' /\ n + 1 \in DOMAIN log'
        BY <1>1, <1>2
      <4> QED
        BY <1>2, <1>3, <3>4, <4>1, <4>2 DEF HistoryInv
    <3>5. CASE canErrors' < MaxErrors
      <4>1. \A i \in 1 .. n + 2 : NetOf(log', i, n + 1) <= canErrors'
        BY <1>1, <1>3, <2>5, <3>1, <3>2
      <4>2. \A i, j \in 1 .. n + 1 : NetOf(log', i, j) < MaxErrors
        <5> SUFFICES ASSUME NEW i \in 1 .. n + 1, NEW j \in 1 .. n + 1
                     PROVE  NetOf(log', i, j) < MaxErrors
          OBVIOUS
        <5>1. CASE j = n + 1
          <6>1. /\ NetOf(log', i, n + 1) \in Int
                /\ NetOf(log', i, n + 1) <= canErrors'
            BY <1>1, <1>4, <2>6, <3>2
          <6> QED
            BY <1>3, <3>1, <3>5, <5>1, <6>1
        <5>2. CASE j \in 1 .. n
          BY <2>4, <5>2
        <5> QED
          BY <1>1, <5>1, <5>2
      <4>3. k \in 1 .. n + 2 /\ Len(log') + 1 = n + 2
        BY <1>1, <1>2
      <4> QED
        BY <1>2, <1>3, <3>3, <3>5, <4>1, <4>2, <4>3 DEF HistoryInv
    <3> QED
      BY <1>3, <1>6, <3>1, <3>4, <3>5
  <2>7. CASE good
    <3>1. canErrors' = IF canErrors > 0 THEN canErrors - 1 ELSE 0
      BY <1>3, <1>6, <2>7 DEF CountErrors
    <3>2. \A i \in 1 .. n + 1 :
            NetOf(log', i, n + 1) \in Int /\ NetOf(log', i, n + 1) <= canErrors - 1
      <4> SUFFICES ASSUME NEW i \in 1 .. n + 1
                   PROVE  /\ NetOf(log', i, n + 1) \in Int
                          /\ NetOf(log', i, n + 1) <= canErrors - 1
        OBVIOUS
      <4>1. NetOf(log, i, n) \in Int /\ NetOf(log', i, n + 1) = NetOf(log, i, n) + -1
        BY <1>1, <1>4, <2>7
      <4>2. NetOf(log, i, n) <= canErrors
        BY <2>2
      <4> QED
        BY <1>3, <4>1, <4>2
    <3>3. canErrors' \in Int /\ 0 <= canErrors' /\ canErrors - 1 <= canErrors'
            /\ canErrors' < MaxErrors
      BY <1>3, <1>6, <3>1
    <3>4. \A i \in 1 .. n + 2 : NetOf(log', i, n + 1) <= canErrors'
      <4> SUFFICES ASSUME NEW i \in 1 .. n + 2
                   PROVE  NetOf(log', i, n + 1) <= canErrors'
        OBVIOUS
      <4>1. CASE i = n + 2
        BY <2>5, <3>3, <4>1
      <4>2. CASE i \in 1 .. n + 1
        BY <1>3, <3>2, <3>3, <4>2
      <4> QED
        BY <1>1, <4>1, <4>2
    <3>5. \A i, j \in 1 .. n + 1 : NetOf(log', i, j) < MaxErrors
      <4> SUFFICES ASSUME NEW i \in 1 .. n + 1, NEW j \in 1 .. n + 1
                   PROVE  NetOf(log', i, j) < MaxErrors
        OBVIOUS
      <4>1. CASE j = n + 1
        BY <1>3, <1>6, <3>2, <4>1
      <4>2. CASE j \in 1 .. n
        BY <2>4, <4>2
      <4> QED
        BY <1>1, <4>1, <4>2
    <3>6. \E i \in 1 .. n + 2 : NetOf(log', i, n + 1) = canErrors'
      <4>1. CASE canErrors > 0
        <5>1. NetOf(log', k, n + 1) = canErrors + -1
          BY <1>4, <2>1, <2>7
        <5>2. k \in 1 .. n + 2
          BY <1>1
        <5> QED
          BY <1>3, <3>1, <4>1, <5>1, <5>2
      <4>2. CASE canErrors = 0
        <5>1. n + 2 \in 1 .. n + 2
          BY <1>1
        <5> QED
          BY <2>5, <3>1, <4>2, <5>1
      <4> QED
        BY <1>3, <4>1, <4>2
    <3>7. Len(log') + 1 = n + 2 /\ canErrors' # MaxErrors
      BY <1>1, <1>2, <1>3, <3>3
    <3> QED
      BY <1>2, <3>3, <3>4, <3>5, <3>6, <3>7 DEF HistoryInv
  <2> QED
    BY <2>6, <2>7
<1> QED
  BY <1>3, <1>5, <1>6

LEMMA HistoryInvStep ==
  ASSUME TypeOK, HistoryInv, [HistoryNext]_hvars
  PROVE  HistoryInv'
<1>1. CASE HistoryNext /\ Receive
  BY <1>1, HistoryReceive DEF HistoryNext
<1>2. CASE ~(HistoryNext /\ Receive)
  <2>1. [Next]_vars /\ log' = log
    BY <1>2 DEF HistoryNext, hvars
  <2>2. canErrors' = canErrors
    <3>1. CASE ~Receive
      BY <2>1, <3>1, JudgeFrame DEF judge
    <3>2. CASE UNCHANGED hvars
      BY <3>2 DEF hvars, vars, judge
    <3> QED
      BY <1>2, <3>1, <3>2
  <2> QED
    BY <2>1, <2>2 DEF HistoryInv
<1> QED
  BY <1>1, <1>2

\* The log is only watched: what holds of the frame's specification holds of it.
LEMMA HistoryIsSpec == HistorySpec => Spec
<1>1. HistoryInit => Init
  BY DEF HistoryInit
<1>2. [HistoryNext]_hvars => [Next]_vars
  BY DEF HistoryNext, hvars
<1> QED
  BY <1>1, <1>2, PTL DEF HistorySpec, Spec

\* For every error limit and every sequence of frames: reception has latched
\* exactly when bad frames outnumbered good ones by the limit over some stretch
\* of the frames received.
THEOREM LatchCorrect == HistorySpec => []LatchedIffExcess
<1>1. HistoryInit => HistoryInv
  BY HistoryInvInit
<1>2. TypeOK /\ HistoryInv /\ [HistoryNext]_hvars => HistoryInv'
  BY HistoryInvStep
<1>3. TypeOK /\ HistoryInv => LatchedIffExcess
  <2> SUFFICES ASSUME TypeOK, HistoryInv
               PROVE  LatchedIffExcess
    OBVIOUS
  <2>1. \A i, j \in DOMAIN log :
          NetOf(log, i, j) = Count(FALSE, i, j) - Count(TRUE, i, j)
    BY DEF NetOf, Count, Verdicts
  <2>2. Excess <=> \E i, j \in DOMAIN log : NetOf(log, i, j) >= MaxErrors
    BY <2>1 DEF Excess
  <2>3. CASE canErrors = MaxErrors
    BY <2>2, <2>3 DEF HistoryInv, LatchedIffExcess
  <2>4. CASE canErrors < MaxErrors
    <3>1. \A i, j \in DOMAIN log : NetOf(log, i, j) < MaxErrors
      BY <2>4 DEF HistoryInv
    <3>2. \A i, j \in DOMAIN log : NetOf(log, i, j) \in Int
      <4>1. DOMAIN log \subseteq Nat \ {0} /\ DOMAIN log \subseteq 0 .. Len(log)
              /\ log \in Seq(BOOLEAN)
        BY DEF HistoryInv
      <4> QED
        BY <4>1, NetOfAppend
    <3>3. ~Excess
      BY <2>2, <3>1, <3>2, FrameAssumption
    <3>4. canErrors # MaxErrors
      BY <2>4, FrameAssumption DEF TypeOK
    <3> QED
      BY <3>3, <3>4 DEF LatchedIffExcess
  <2> QED
    BY <2>3, <2>4, FrameAssumption DEF TypeOK
<1> QED
  BY <1>1, <1>2, <1>3, HistoryIsSpec, CanTypeCorrect, PTL DEF HistorySpec
=============================================================================
