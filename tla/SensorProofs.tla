---------------------------- MODULE SensorProofs -----------------------------
(***************************************************************************)
(* Proofs about what is measured: the encoder's accumulation, for every    *)
(* angle resolution, sampling step, start-up delay and number of pole      *)
(* pairs; its counting of pulses, for every size of the ring, number of    *)
(* pulses and threshold; and the temperatures, for every reading of every  *)
(* sensor.                                                                 *)
(***************************************************************************)
EXTENDS Encoder, PulseEncoder, Temperature, FiniteSetTheorems, WellFoundedInduction, TLAPS

-----------------------------------------------------------------------------
(* Angles.                                                                 *)

\* An angle moved by less than half a turn is again an angle.
LEMMA WrapIsAngle ==
  ASSUME NEW a \in 0 .. TwoPi - 1, NEW step \in -MaxStep .. MaxStep
  PROVE  Wrap(a + step) \in 0 .. TwoPi - 1
BY EncoderAssumption DEF Wrap, TwoPi

\* The sampling theorem of UpdateTurns: from two samples of a rotor that moved
\* less than half a turn it recovers the movement exactly, whichever way round.
THEOREM UpdateTurnsIsExact ==
  ASSUME NEW a \in 0 .. TwoPi - 1, NEW step \in -MaxStep .. MaxStep
  PROVE  UpdateTurns(Wrap(a + step), a) = step
BY EncoderAssumption DEF UpdateTurns, Wrap, Magnitude, Sign, TwoPi

\* The timer's count is the movement in the direction of the last count, or a turn
\* more.
LEMMA CountedTurnsUpToATurn ==
  ASSUME NEW a \in 0 .. TwoPi - 1, NEW step \in -MaxStep .. MaxStep,
         NEW direction \in {-1, 1}
  PROVE  \/ CountedTurns(Wrap(a + step), a, direction) = direction * step
         \/ CountedTurns(Wrap(a + step), a, direction) = direction * step + TwoPi
<1>1. CASE direction = 1
  BY <1>1, EncoderAssumption DEF CountedTurns, Wrap, TwoPi
<1>2. CASE direction = -1
  BY <1>2, EncoderAssumption DEF CountedTurns, Wrap, TwoPi
<1> QED
  BY <1>1, <1>2
-----------------------------------------------------------------------------
(* The inductive invariant.                                                *)

\* What an angle sensor has accumulated is where the rotor went: in the
\* accumulator, in the task's copy and in the distance.
AngleInv ==
  encMode \in AngleModes =>
    /\ turnsSinceLastSample = moved
    /\ turns = window
    /\ distance = IF pc = "drained" THEN driven - turns ELSE driven

\* What the timer has accumulated exceeds the movement by whole turns.
CounterInv ==
  encMode \in CounterModes =>
    /\ turnsSinceLastSample >= 0
    /\ turns >= 0
    /\ \E k \in 0 .. backlog : turnsSinceLastSample = moved + k * TwoPi

\* The delay runs down by one for every sample since the reset.
DelayInv == startupDelay + sinceReset = StartupDelay

MovementInv == AngleInv /\ CounterInv /\ DelayInv

\* The parts of EncoderTypeOK, as memberships the provers take apart.
LEMMA EncoderUnfolded ==
  ASSUME EncoderTypeOK
  PROVE  /\ turnsSinceLastSample \in Int /\ distance \in Int /\ turns \in Int
         /\ travel \in Int /\ moved \in Int /\ window \in Int /\ driven \in Int
BY DEF EncoderTypeOK

\* A rotor's movement scaled to a frequency.
LEMMA HzIsNat ==
  ASSUME NEW t \in Nat
  PROVE  Hz(t) \in Nat
<1>1. CallingFrequency * t \in Nat
  BY EncoderAssumption
<1> QED
  BY <1>1, EncoderAssumption DEF Hz

LEMMA CountFullTurnType ==
  ASSUME EncoderTypeOK, NEW last \in Int, CountFullTurn(last)
  PROVE  poleCounter' \in 0 .. PolePairs /\ fullTurns' \in Nat
BY EncoderAssumption DEF EncoderTypeOK, CountFullTurn, counters

LEMMA MovesType ==
  ASSUME EncoderTypeOK, NEW step \in -MaxStep .. MaxStep, Moves(step)
  PROVE  /\ angle' \in 0 .. TwoPi - 1
         /\ travel' \in Int /\ backlog' \in Nat /\ sinceReset' \in 0 .. StartupDelay
<1>1. angle' \in 0 .. TwoPi - 1
  BY WrapIsAngle DEF Moves, EncoderTypeOK
<1> QED
  BY <1>1, EncoderUnfolded, EncoderAssumption DEF Moves, EncoderTypeOK

LEMMA CountDownType ==
  ASSUME EncoderTypeOK, CountDown
  PROVE  startupDelay' \in 0 .. StartupDelay
BY EncoderAssumption DEF EncoderTypeOK, CountDown

\* One more sample, one less to wait for.
LEMMA CountDownKeepsDelay ==
  ASSUME EncoderTypeOK, DelayInv, CountDown, NEW step \in -MaxStep .. MaxStep, Moves(step)
  PROVE  DelayInv'
BY EncoderAssumption DEF EncoderTypeOK, DelayInv, CountDown, Moves

LEMMA EncoderTypeInit == EncoderInit => EncoderTypeOK
BY EncoderAssumption DEF EncoderInit, EncoderTypeOK, TwoPi

LEMMA MovementInit == EncoderInit => MovementInv
<1> SUFFICES ASSUME EncoderInit PROVE MovementInv
  OBVIOUS
<1>1. AngleInv
  BY DEF EncoderInit, AngleInv
<1>2. CounterInv
  <2>1. 0 \in 0 .. backlog /\ turnsSinceLastSample = moved + 0 * TwoPi
    BY EncoderAssumption DEF EncoderInit, TwoPi
  <2> QED
    BY <2>1 DEF EncoderInit, CounterInv
<1>3. DelayInv
  BY EncoderAssumption DEF EncoderInit, DelayInv
<1> QED
  BY <1>1, <1>2, <1>3 DEF MovementInv

-----------------------------------------------------------------------------
(* One lemma per action.                                                   *)

LEMMA SampleAngleStep ==
  ASSUME EncoderTypeOK, MovementInv, SampleAngle
  PROVE  EncoderTypeOK' /\ MovementInv'
<1>1. PICK step \in -MaxStep .. MaxStep : Moves(step) /\ moved' = moved + step
  BY DEF SampleAngle
<1>2. angle \in 0 .. TwoPi - 1 /\ angle' = Wrap(angle + step) /\ step \in Int
  BY <1>1, EncoderAssumption DEF EncoderTypeOK, Moves
<1>3. turnsSinceLastSample' = turnsSinceLastSample + step
  BY <1>2, UpdateTurnsIsExact DEF SampleAngle
<1>4. UNCHANGED <<encMode, distance, turns, lastFrequency, detectedDirection, pc, window, driven>>
  BY <1>1 DEF SampleAngle, speed, Moves
<1>5. EncoderTypeOK'
  <2>1. angle' \in 0 .. TwoPi - 1 /\ travel' \in Int /\ backlog' \in Nat
        /\ sinceReset' \in 0 .. StartupDelay
    BY <1>1, MovesType
  <2>2. poleCounter' \in 0 .. PolePairs /\ fullTurns' \in Nat
    BY <1>2, CountFullTurnType, EncoderAssumption DEF SampleAngle, TwoPi
  <2>3. startupDelay' \in 0 .. StartupDelay
    BY CountDownType DEF SampleAngle
  <2>4. turnsSinceLastSample' \in Int /\ moved' \in Int
    BY <1>1, <1>2, <1>3, EncoderUnfolded
  <2> QED
    BY <2>1, <2>2, <2>3, <2>4, <1>4 DEF EncoderTypeOK
<1>6. AngleInv'
  BY <1>1, <1>3, <1>4 DEF MovementInv, AngleInv
<1>7. CounterInv'
  BY <1>4 DEF SampleAngle, CounterInv, AngleModes, CounterModes
<1>8. DelayInv'
  BY <1>1, CountDownKeepsDelay DEF SampleAngle, MovementInv
<1> QED
  BY <1>5, <1>6, <1>7, <1>8 DEF MovementInv

LEMMA SampleCounterStep ==
  ASSUME EncoderTypeOK, MovementInv, SampleCounter
  PROVE  EncoderTypeOK' /\ MovementInv'
<1> DEFINE dir == detectedDirection'
<1>1. PICK step \in -MaxStep .. MaxStep : Moves(step) /\ moved' = moved + dir * step
  BY DEF SampleCounter
<1>2. angle \in 0 .. TwoPi - 1 /\ angle' = Wrap(angle + step) /\ step \in Int /\ dir \in {-1, 1}
  BY <1>1, EncoderAssumption DEF EncoderTypeOK, Moves, SampleCounter
<1>3. dir * step \in Int
  BY <1>2
<1>4. \/ turnsSinceLastSample' = turnsSinceLastSample + dir * step
      \/ turnsSinceLastSample' = turnsSinceLastSample + (dir * step + TwoPi)
  <2>1. turnsSinceLastSample' = turnsSinceLastSample + CountedTurns(angle', angle, dir)
    BY DEF SampleCounter
  <2> QED
    BY <2>1, <1>2, CountedTurnsUpToATurn
<1>5. UNCHANGED <<encMode, distance, turns, lastFrequency, pc, window, driven>>
  BY <1>1 DEF SampleCounter, Moves
<1>6. EncoderTypeOK'
  <2>1. angle' \in 0 .. TwoPi - 1 /\ travel' \in Int /\ backlog' \in Nat
        /\ sinceReset' \in 0 .. StartupDelay
    BY <1>1, MovesType
  <2>2. poleCounter' \in 0 .. PolePairs /\ fullTurns' \in Nat
    BY <1>2, CountFullTurnType, EncoderAssumption DEF SampleCounter, TwoPi
  <2>3. startupDelay' \in 0 .. StartupDelay
    BY CountDownType DEF SampleCounter
  <2>4. turnsSinceLastSample' \in Int /\ moved' \in Int
    BY <1>1, <1>3, <1>4, EncoderUnfolded, EncoderAssumption DEF TwoPi
  <2> QED
    BY <2>1, <2>2, <2>3, <2>4, <1>2, <1>5 DEF EncoderTypeOK
<1>7. AngleInv'
  BY <1>5 DEF SampleCounter, AngleInv, AngleModes, CounterModes
<1>8. CounterInv'
  <2>1. PICK k \in 0 .. backlog : turnsSinceLastSample = moved + k * TwoPi
    BY DEF MovementInv, CounterInv, SampleCounter
  <2>2. turnsSinceLastSample >= 0 /\ turns >= 0
    BY DEF MovementInv, CounterInv, SampleCounter
  <2>3. backlog \in Nat /\ backlog' = backlog + 1 /\ k \in Nat
    BY <1>1 DEF EncoderTypeOK, Moves
  <2>4. turnsSinceLastSample' >= 0
    <3>1. CountedTurns(angle', angle, dir) \in Nat
      <4>1. angle' \in 0 .. TwoPi - 1
        BY <1>2, WrapIsAngle
      <4>2. CASE dir = 1
        BY <4>1, <4>2, <1>2, EncoderAssumption DEF CountedTurns, Wrap, TwoPi
      <4>3. CASE dir = -1
        BY <4>1, <4>3, <1>2, EncoderAssumption DEF CountedTurns, Wrap, TwoPi
      <4> QED
        BY <4>2, <4>3, <1>2
    <3> QED
      BY <3>1, <2>2, EncoderUnfolded DEF SampleCounter
  <2>5. CASE turnsSinceLastSample' = turnsSinceLastSample + dir * step
    <3>1. k \in 0 .. backlog' /\ turnsSinceLastSample' = moved' + k * TwoPi
      BY <2>5, <2>1, <2>3, <1>1, <1>3, EncoderUnfolded, EncoderAssumption DEF TwoPi
    <3> QED
      BY <3>1, <2>2, <2>4, <1>5 DEF CounterInv
  <2>6. CASE turnsSinceLastSample' = turnsSinceLastSample + (dir * step + TwoPi)
    <3>1. k + 1 \in 0 .. backlog' /\ turnsSinceLastSample' = moved' + (k + 1) * TwoPi
      BY <2>6, <2>1, <2>3, <1>1, <1>3, EncoderUnfolded, EncoderAssumption DEF TwoPi
    <3> QED
      BY <3>1, <2>2, <2>4, <1>5 DEF CounterInv
  <2> QED
    BY <2>5, <2>6, <1>4
<1>9. DelayInv'
  BY <1>1, CountDownKeepsDelay DEF SampleCounter, MovementInv
<1> QED
  BY <1>6, <1>7, <1>8, <1>9 DEF MovementInv

LEMMA DrainStep ==
  ASSUME EncoderTypeOK, MovementInv, Drain
  PROVE  EncoderTypeOK' /\ MovementInv'
<1>1. turnsSinceLastSample' = 0 /\ turns' = turnsSinceLastSample
  BY EncoderUnfolded DEF Drain
<1>2. EncoderTypeOK'
  BY <1>1, EncoderUnfolded DEF Drain, EncoderTypeOK, speed, counters
<1>3. AngleInv'
  BY <1>1, EncoderUnfolded DEF Drain, MovementInv, AngleInv
<1>4. CounterInv'
  <2>1. 0 \in 0 .. backlog' /\ turnsSinceLastSample' = moved' + 0 * TwoPi
    BY <1>1, EncoderAssumption DEF Drain, TwoPi
  <2> QED
    BY <1>1, <2>1 DEF Drain, MovementInv, CounterInv
<1>5. DelayInv'
  BY DEF Drain, MovementInv, DelayInv
<1> QED
  BY <1>2, <1>3, <1>4, <1>5 DEF MovementInv

LEMMA MeasureStep ==
  ASSUME EncoderTypeOK, MovementInv, Measure
  PROVE  EncoderTypeOK' /\ MovementInv'
<1>1. lastFrequency' \in Nat /\ detectedDirection' \in {-1, 0, 1}
  <2>1. CASE encMode \in AngleModes /\ MeasureAngle
    <3>1. Magnitude(turns) \in Nat
      BY EncoderUnfolded DEF Magnitude
    <3> QED
      BY <2>1, <3>1, HzIsNat DEF MeasureAngle, EncoderTypeOK
  <2>2. CASE /\ encMode \in CounterModes
             /\ lastFrequency' = Hz(turns)
             /\ UNCHANGED detectedDirection
    <3>1. turns \in Nat
      BY <2>2, EncoderUnfolded DEF MovementInv, CounterInv
    <3> QED
      BY <2>2, <3>1, HzIsNat DEF EncoderTypeOK
  <2> QED
    BY <2>1, <2>2 DEF Measure
<1>2. EncoderTypeOK'
  BY <1>1, EncoderUnfolded DEF Measure, EncoderTypeOK, counters, history
<1>3. AngleInv'
  BY EncoderUnfolded DEF Measure, MovementInv, AngleInv, history
<1>4. CounterInv'
  BY DEF Measure, MovementInv, CounterInv, history
<1>5. DelayInv'
  BY DEF Measure, MovementInv, DelayInv, history
<1> QED
  BY <1>2, <1>3, <1>4, <1>5 DEF MovementInv

LEMMA ResetStep ==
  ASSUME EncoderTypeOK, MovementInv, EncoderReset
  PROVE  EncoderTypeOK' /\ MovementInv'
<1>1. EncoderTypeOK'
  BY EncoderAssumption DEF EncoderReset, EncoderTypeOK, accumulation, counters
<1>2. AngleInv'
  BY DEF EncoderReset, MovementInv, AngleInv, accumulation
<1>3. CounterInv'
  BY DEF EncoderReset, MovementInv, CounterInv, accumulation
<1>4. DelayInv'
  BY EncoderAssumption DEF EncoderReset, DelayInv
<1> QED
  BY <1>1, <1>2, <1>3, <1>4 DEF MovementInv

LEMMA ResetDistanceStep ==
  ASSUME EncoderTypeOK, MovementInv, ResetDistance
  PROVE  EncoderTypeOK' /\ MovementInv'
<1>1. EncoderTypeOK'
  BY EncoderUnfolded DEF ResetDistance, EncoderTypeOK, speed, counters
<1>2. AngleInv'
  BY DEF ResetDistance, MovementInv, AngleInv
<1>3. CounterInv'
  BY DEF ResetDistance, MovementInv, CounterInv
<1>4. DelayInv'
  BY DEF ResetDistance, MovementInv, DelayInv
<1> QED
  BY <1>1, <1>2, <1>3, <1>4 DEF MovementInv

LEMMA StutterStep ==
  ASSUME EncoderTypeOK, MovementInv, UNCHANGED encoderVars
  PROVE  EncoderTypeOK' /\ MovementInv'
<1>1. EncoderTypeOK'
  BY DEF encoderVars, accumulation, speed, counters, history, EncoderTypeOK
<1>2. AngleInv' /\ CounterInv' /\ DelayInv'
  BY DEF encoderVars, accumulation, speed, counters, history, MovementInv, AngleInv, CounterInv, DelayInv
<1> QED
  BY <1>1, <1>2 DEF MovementInv

LEMMA EveryStep ==
  EncoderTypeOK /\ MovementInv /\ [EncoderNext]_encoderVars => EncoderTypeOK' /\ MovementInv'
BY SampleAngleStep, SampleCounterStep, DrainStep, MeasureStep, ResetStep,
   ResetDistanceStep, StutterStep DEF EncoderNext

-----------------------------------------------------------------------------
(* Theorems.                                                               *)

\* The inductive invariant holds throughout.
LEMMA InvariantHolds == EncoderSpec => [](EncoderTypeOK /\ MovementInv)
<1>1. EncoderInit => EncoderTypeOK /\ MovementInv
  BY EncoderTypeInit, MovementInit
<1> QED
  BY <1>1, EveryStep, PTL DEF EncoderSpec

\* The encoder's variables keep their types; in particular the unsigned frequency
\* is never computed from a negative count.
THEOREM EncoderTypeCorrect == EncoderSpec => []EncoderTypeOK
BY InvariantHolds, PTL

\* No interleaving of the PWM interrupt and the 10 ms task loses a movement.
THEOREM MovementIsConserved == EncoderSpec => []NoMovementLost
<1>1. MovementInv => NoMovementLost
  BY DEF MovementInv, AngleInv, CounterInv, NoMovementLost
<1> QED
  BY <1>1, InvariantHolds, PTL

\* After a reset no frequency is reported before the samples of the start-up delay.
THEOREM ResetIsQuiet == EncoderSpec => []QuietAfterReset
<1>1. EncoderInit => QuietAfterReset
  BY EncoderAssumption DEF EncoderInit, QuietAfterReset
<1>2. EncoderTypeOK /\ MovementInv /\ QuietAfterReset /\ [EncoderNext]_encoderVars => QuietAfterReset'
  <2> SUFFICES ASSUME EncoderTypeOK, DelayInv, QuietAfterReset, [EncoderNext]_encoderVars
               PROVE  QuietAfterReset'
    BY DEF MovementInv
  <2>1. ASSUME SampleAngle \/ SampleCounter PROVE QuietAfterReset'
    <3>1. UNCHANGED <<encMode, lastFrequency>>
      BY <2>1 DEF SampleAngle, SampleCounter, speed
    <3>2. sinceReset' = IF sinceReset < StartupDelay THEN sinceReset + 1 ELSE sinceReset
      BY <2>1 DEF SampleAngle, SampleCounter, Moves
    <3> QED
      BY <3>1, <3>2, EncoderAssumption DEF QuietAfterReset, EncoderTypeOK
  <2>2. CASE Measure
    <3>1. ASSUME encMode \in AngleModes, sinceReset < StartupDelay
          PROVE  lastFrequency' = 0
      <4>1. MeasureAngle
        BY <2>2, <3>1 DEF Measure, AngleModes, CounterModes
      <4>2. startupDelay # 0
        BY <3>1, EncoderAssumption DEF EncoderTypeOK, DelayInv
      <4> QED
        BY <4>1, <4>2 DEF MeasureAngle
    <3> QED
      BY <3>1, <2>2 DEF QuietAfterReset, Measure, history
  <2>3. CASE Drain \/ ResetDistance
    BY <2>3 DEF QuietAfterReset, Drain, ResetDistance, speed
  <2>4. CASE EncoderReset
    BY <2>4 DEF QuietAfterReset, EncoderReset
  <2>5. CASE UNCHANGED encoderVars
    BY <2>5 DEF QuietAfterReset, encoderVars, speed, history
  <2> QED
    BY <2>1, <2>2, <2>3, <2>4, <2>5 DEF EncoderNext
<1> QED
  BY <1>1, <1>2, InvariantHolds, PTL DEF EncoderSpec

\* A reported frequency and direction are those of the rotor's true movement.
THEOREM FrequencyIsCorrect == EncoderSpec => []FrequencyIsTrue
<1>1. EncoderInit => FrequencyIsTrue
  BY DEF EncoderInit, FrequencyIsTrue
<1>2. EncoderTypeOK /\ MovementInv /\ FrequencyIsTrue /\ [EncoderNext]_encoderVars => FrequencyIsTrue'
  <2> SUFFICES ASSUME EncoderTypeOK, AngleInv, FrequencyIsTrue, [EncoderNext]_encoderVars
               PROVE  FrequencyIsTrue'
    BY DEF MovementInv
  <2>1. CASE SampleAngle
    BY <2>1 DEF FrequencyIsTrue, SampleAngle, Moves, speed, Hz, Magnitude, Sign
  <2>2. CASE SampleCounter
    BY <2>2 DEF FrequencyIsTrue, SampleCounter, AngleModes, CounterModes
  <2>3. CASE Drain
    BY <2>3 DEF FrequencyIsTrue, Drain
  <2>4. CASE Measure
    <3>1. ASSUME encMode \in AngleModes, lastFrequency' # 0
          PROVE  /\ lastFrequency' = Hz(Magnitude(window))
                 /\ detectedDirection' = Sign(window)
      <4>1. MeasureAngle /\ turns = window /\ turns \in Int
        BY <2>4, <3>1, EncoderUnfolded DEF Measure, AngleModes, CounterModes, AngleInv
      <4>2. Magnitude(turns) > 0
        BY <4>1, <3>1, EncoderAssumption DEF MeasureAngle, Magnitude
      <4>3. (IF turns > 0 THEN 1 ELSE -1) = Sign(turns)
        BY <4>1, <4>2 DEF Sign, Magnitude
      <4> QED
        BY <4>1, <4>3, <3>1 DEF MeasureAngle
    <3> QED
      BY <3>1, <2>4 DEF FrequencyIsTrue, Measure, history, Hz, Magnitude, Sign
  <2>5. CASE EncoderReset
    BY <2>5 DEF FrequencyIsTrue, EncoderReset
  <2>6. CASE ResetDistance
    BY <2>6 DEF FrequencyIsTrue, ResetDistance, speed, Hz, Magnitude, Sign
  <2>7. CASE UNCHANGED encoderVars
    BY <2>7 DEF FrequencyIsTrue, encoderVars, speed, history, Hz, Magnitude, Sign
  <2> QED
    BY <2>1, <2>2, <2>3, <2>4, <2>5, <2>6, <2>7 DEF EncoderNext
<1> QED
  BY <1>1, <1>2, InvariantHolds, PTL DEF EncoderSpec

-----------------------------------------------------------------------------
(* The pulse encoder.                                                      *)

RingOK ==
  /\ slot \in RingSlots
  /\ lastN \in 1 .. MaxRevCnt
  /\ passed \in 0 .. MaxRevCnt - 1

\* The place in the ring tells the pulses since the last interrupt.
RingTellsPulses == RingOK /\ (~rearmed => Counted = passed)

LEMMA NextSlot ==
  ASSUME NEW s \in RingSlots
  PROVE  (s + 1) % MaxRevCnt = IF s = MaxRevCnt - 1 THEN 0 ELSE s + 1
<1>1. MaxRevCnt \in Nat \ {0}
  BY PulseAssumption DEF PulseAssumption
<1>2. CASE s = MaxRevCnt - 1
  BY <1>1, <1>2
<1>3. CASE s # MaxRevCnt - 1
  <2> DEFINE x == s + 1
  <2>1. x \in 0 .. MaxRevCnt - 1
    BY <1>1, <1>3 DEF RingSlots
  <2> HIDE DEF x
  <2>2. x % MaxRevCnt = x
    BY <1>1, <2>1
  <2>3. QED
    BY <1>3, <2>1, <2>2 DEF x
<1>4. QED
  BY <1>2, <1>3

LEMMA RingInit == PulseInit => RingTellsPulses
  BY PulseAssumption DEF PulseInit, PulseAssumption, RingTellsPulses, RingOK, RingSlots,
     Counted, NumberOfData

LEMMA RingKept == RingTellsPulses /\ [PulseNext]_pulseVars => RingTellsPulses'
<1> SUFFICES ASSUME RingTellsPulses, [PulseNext]_pulseVars
             PROVE  RingTellsPulses'
  OBVIOUS
<1> USE DEF RingTellsPulses, RingOK, RingSlots, Counted, NumberOfData
<1>0. MaxRevCnt \in Nat \ {0}
  BY PulseAssumption DEF PulseAssumption
<1>1. CASE Pulse
  <2>1. slot' = IF slot = MaxRevCnt - 1 THEN 0 ELSE slot + 1
    BY <1>1, NextSlot DEF Pulse
  <2>2. passed < MaxRevCnt - 1 /\ passed' = passed + 1 /\ lastN' = lastN
    BY <1>1 DEF Pulse, filter
  <2>3. rearmed' = rearmed
    BY <1>1 DEF Pulse
  <2>4. RingOK'
    BY <1>0, <2>1, <2>2
  <2>5. CASE rearmed
    BY <2>3, <2>4, <2>5
  <2>6. CASE ~rearmed
    <3>1. Counted' = passed'
      BY <1>0, <2>1, <2>2, <2>6
    <3>2. QED
      BY <2>4, <3>1
  <2>7. QED
    BY <2>5, <2>6
<1>2. CASE SetImpulsesPerTurn
  BY <1>0, <1>2 DEF SetImpulsesPerTurn, filter
<1>3. CASE SamplePulses
  <2>1. lastN' = MaxRevCnt - slot /\ slot' = slot /\ passed' = 0
    BY <1>3 DEF SamplePulses, UpdateRotorAngle, GetPulseTimeFiltered
  <2>2. QED
    BY <1>0, <2>1
<1>4. CASE TimerCounts \/ ResetPulses
  <2>1. UNCHANGED <<slot, lastN, passed, rearmed>>
    BY <1>4 DEF TimerCounts, ResetPulses, filter, pulseHistory
  <2>2. QED
    BY <2>1
<1>5. CASE UNCHANGED pulseVars
  <2>1. UNCHANGED <<slot, lastN, passed, rearmed>>
    BY <1>5 DEF pulseVars, hardware, filter, pulseHistory
  <2>2. QED
    BY <2>1
<1>6. QED
  BY <1>1, <1>2, <1>3, <1>4, <1>5 DEF PulseNext

LEMMA AngleKept ==
  RingTellsPulses /\ PulsesCounted /\ [PulseNext]_pulseVars => PulsesCounted'
<1> SUFFICES ASSUME RingTellsPulses, PulsesCounted, [PulseNext]_pulseVars
             PROVE  PulsesCounted'
  OBVIOUS
<1>1. CASE SamplePulses
  <2>1. PICK dir \in Directions : UpdateRotorAngle(dir)
    BY <1>1 DEF SamplePulses
  <2>2. accumulatedAngle' = (accumulatedAngle + dir * Counted * AnglePerPulse) % TimerTurn
    BY <2>1 DEF UpdateRotorAngle
  <2>3. trueAngle' = IF rearmed THEN accumulatedAngle'
                     ELSE (trueAngle + dir * passed * AnglePerPulse) % TimerTurn
    BY <2>1 DEF UpdateRotorAngle
  <2>4. ~rearmed => Counted = passed
    BY DEF RingTellsPulses
  <2> HIDE DEF Counted
  <2>5. QED
    BY <2>2, <2>3, <2>4, Zenon DEF PulsesCounted
<1>2. CASE Pulse \/ SetImpulsesPerTurn \/ TimerCounts \/ ResetPulses \/ UNCHANGED pulseVars
  BY <1>2 DEF Pulse, SetImpulsesPerTurn, TimerCounts, ResetPulses, pulseVars, pulseAngle,
     pulseHistory, PulsesCounted
<1>3. QED
  BY <1>1, <1>2 DEF PulseNext

\* For every size of the ring, number of pulses and order of pulses and interrupts,
\* the angle is that of the pulses that came.
THEOREM PulsesAlwaysCounted == PulseSpec => []PulsesCounted
<1>1. PulseInit => RingTellsPulses /\ PulsesCounted
  BY RingInit DEF PulseInit, PulsesCounted
<1>2. RingTellsPulses /\ PulsesCounted /\ [PulseNext]_pulseVars
        => (RingTellsPulses /\ PulsesCounted)'
  BY RingKept, AngleKept
<1>3. QED
  BY <1>1, <1>2, PTL DEF PulseSpec

TimesOK ==
  /\ timer \in Nat
  /\ capture \in Nat
  /\ pulsesPerTurn \in Impulses
  /\ lastPulseTimespan \in Nat \ {0}
  /\ noMovement \in Nat
  /\ silent \in Nat

\* The encoder has counted at least the interrupts without a pulse.
SilenceCounted == TimesOK /\ silent <= noMovement

LEMMA Positive2 == ASSUME NEW m \in Nat \ {0}, NEW n \in Nat
                   PROVE  (m + n + 1) \div 2 \in Nat \ {0}
  OBVIOUS

LEMMA PulseQuotient == ASSUME NEW m \in Nat, NEW n \in Nat \ {0}
                  PROVE  m \div n \in Nat
  OBVIOUS

LEMMA PulseProduct == ASSUME NEW m \in Nat, NEW n \in Nat
                 PROVE  m * n \in Nat
  OBVIOUS

LEMMA PulseRemainder == ASSUME NEW m \in Nat, NEW n \in Nat \ {0}
                   PROVE  m % n \in Nat
  OBVIOUS

LEMMA PulseSigned == ASSUME NEW a \in Nat, NEW i \in 0 .. a, NEW d \in {-1, 0, 1}
                PROVE  d * i \in -a .. a
  OBVIOUS

LEMMA TurnIsPositive == TimerTurn \in Nat \ {0, 1} /\ StopAfter \in Nat
  BY PulseAssumption DEF PulseAssumption

LEMMA PulseHasAngle == ASSUME TimesOK PROVE AnglePerPulse \in Nat
<1>1. pulsesPerTurn \in Nat \ {0}
  BY PulseAssumption DEF PulseAssumption, TimesOK
<1>2. QED
  BY <1>1, TurnIsPositive, PulseQuotient DEF AnglePerPulse

LEMMA TimesKept == TimesOK /\ [PulseNext]_pulseVars => TimesOK'
<1> SUFFICES ASSUME TimesOK, [PulseNext]_pulseVars
             PROVE  TimesOK'
  OBVIOUS
<1> USE DEF TimesOK
<1>1. CASE TimerCounts
  <2>1. timer' \in Nat
    BY <1>1, TurnIsPositive, PulseRemainder DEF TimerCounts
  <2>2. QED
    BY <1>1, <2>1 DEF TimerCounts, filter, pulseHistory
<1>2. CASE Pulse
  BY <1>2 DEF Pulse, filter
<1>3. CASE SetImpulsesPerTurn
  BY <1>3 DEF SetImpulsesPerTurn, filter
<1>4. CASE SamplePulses
  <2>1. PICK dir \in Directions : UpdateRotorAngle(dir)
    BY <1>4 DEF SamplePulses
  <2>2. lastPulseTimespan' \in Nat \ {0}
    BY <2>1, Positive2 DEF UpdateRotorAngle, GetPulseTimeFiltered, MeasureTimespan
  <2>3. noMovement' \in Nat
    BY <2>1 DEF UpdateRotorAngle, GetPulseTimeFiltered, CountSilence
  <2>4. silent' \in Nat
    BY <2>1 DEF UpdateRotorAngle
  <2>5. UNCHANGED <<timer, capture, pulsesPerTurn>>
    BY <2>1 DEF UpdateRotorAngle
  <2>6. QED
    BY <2>2, <2>3, <2>4, <2>5
<1>5. CASE ResetPulses
  BY <1>5, TurnIsPositive DEF ResetPulses, MaxCnt, pulseHistory
<1>6. CASE UNCHANGED pulseVars
  BY <1>6 DEF pulseVars, hardware, filter, pulseHistory
<1>7. QED
  BY <1>1, <1>2, <1>3, <1>4, <1>5, <1>6 DEF PulseNext

LEMMA InterpolationBounded ==
  ASSUME TimesOK, TimesOK' PROVE Interpolation \in 0 .. AnglePerPulse
<1> DEFINE x == (AnglePerPulse * timer) \div lastPulseTimespan'
           angle16 == x % TimerTurn
<1>1. AnglePerPulse \in Nat
  BY PulseHasAngle
<1>2. AnglePerPulse * timer \in Nat
  BY <1>1, PulseProduct DEF TimesOK
<1>3. x \in Nat
  BY <1>2, PulseQuotient DEF TimesOK
<1> HIDE DEF x
<1>4. angle16 \in Nat
  BY <1>3, TurnIsPositive, PulseRemainder
<1> HIDE DEF angle16
<1>5. Interpolation = IF ignore' THEN 0
                      ELSE IF angle16 < AnglePerPulse THEN angle16 ELSE AnglePerPulse
  BY Zenon DEF Interpolation, angle16, x
<1>6. QED
  BY <1>1, <1>4, <1>5

LEMMA StandstillKept ==
  RingTellsPulses /\ SilenceCounted /\ StandstillSeen /\ [PulseNext]_pulseVars
    => (SilenceCounted /\ StandstillSeen)'
<1> SUFFICES ASSUME RingTellsPulses, SilenceCounted, StandstillSeen, [PulseNext]_pulseVars
             PROVE  (SilenceCounted /\ StandstillSeen)'
  OBVIOUS
<1>0. TimesOK /\ TimesOK'
  BY TimesKept DEF SilenceCounted
<1>1. CASE SamplePulses
  <2>1. PICK dir \in Directions : UpdateRotorAngle(dir)
    BY <1>1 DEF SamplePulses
  <2>2. noMovement' = IF Counted > 0 THEN 0
                      ELSE IF noMovement <= StopAfter THEN noMovement + 1 ELSE noMovement
    BY <2>1 DEF UpdateRotorAngle, GetPulseTimeFiltered, CountSilence
  <2>3. silent' = IF passed > 0 \/ rearmed THEN 0
                  ELSE IF silent <= StopAfter THEN silent + 1 ELSE silent
    BY <2>1 DEF UpdateRotorAngle
  <2>4. ~rearmed => Counted = passed
    BY DEF RingTellsPulses
  <2> HIDE DEF Counted
  <2>5. silent' <= noMovement'
    <3>1. passed \in Nat /\ StopAfter \in Nat
      BY PulseAssumption, TurnIsPositive DEF RingTellsPulses, RingOK, PulseAssumption
    <3>2. CASE passed > 0 \/ rearmed
      BY <1>0, <2>3, <3>2 DEF TimesOK
    <3>3. CASE ~(passed > 0 \/ rearmed)
      <4>1. ~(Counted > 0)
        BY <2>4, <3>3
      <4>2. QED
        BY <1>0, <2>2, <2>3, <3>1, <3>3, <4>1 DEF TimesOK, SilenceCounted
    <3>4. QED
      BY <3>2, <3>3
  <2>6. Stands => ignore'
    BY <2>1, Zenon DEF UpdateRotorAngle, GetPulseTimeFiltered
  <2>7. interpolated' = dir * Interpolation
    BY <2>1 DEF UpdateRotorAngle
  <2>8. Interpolation \in 0 .. AnglePerPulse
    BY <1>0, InterpolationBounded
  <2>9. ignore' => Interpolation = 0
    BY Zenon DEF Interpolation
  <2> HIDE DEF Interpolation
  <2>10. pulseFrequency' = IF ignore' THEN IF Stands THEN 0 ELSE pulseFrequency
                           ELSE PulseFreq \div (lastPulseTimespan' * pulsesPerTurn)
    BY <2>1 DEF UpdateRotorAngle
  <2>11. dir \in {-1, 0, 1}
    BY PulseAssumption DEF PulseAssumption
  <2>12. silent' > StopAfter => pulseFrequency' = 0 /\ interpolated' = 0
    <3>1. silent' > StopAfter => Stands
      BY <1>0, <2>5, TurnIsPositive DEF Stands, TimesOK
    <3> HIDE DEF Stands
    <3>2. Stands => pulseFrequency' = 0
      BY <2>6, <2>10, Zenon
    <3>3. Stands => interpolated' = 0
      BY <2>6, <2>7, <2>9, <2>11
    <3>4. QED
      BY <3>1, <3>2, <3>3
  <2>13. AnglePerPulse' = AnglePerPulse /\ AnglePerPulse \in Nat
    BY <1>0, <2>1, PulseHasAngle DEF UpdateRotorAngle, AnglePerPulse
  <2>14. interpolated' \in -AnglePerPulse .. AnglePerPulse
    BY <2>7, <2>8, <2>11, <2>13, PulseSigned
  <2>15. QED
    BY <1>0, <2>5, <2>12, <2>13, <2>14 DEF SilenceCounted, StandstillSeen
<1>2. CASE SetImpulsesPerTurn
  BY <1>0, <1>2 DEF SetImpulsesPerTurn, filter, pulseAngle, SilenceCounted, StandstillSeen
<1>3. CASE ResetPulses
  <2>1. UNCHANGED <<silent, noMovement, interpolated, rearmed, pulsesPerTurn>>
    BY <1>3 DEF ResetPulses, pulseHistory
  <2>2. pulseFrequency' = 0
    BY <1>3 DEF ResetPulses
  <2>3. QED
    BY <1>0, <2>1, <2>2 DEF SilenceCounted, StandstillSeen, AnglePerPulse
<1>4. CASE TimerCounts \/ Pulse \/ UNCHANGED pulseVars
  <2>1. UNCHANGED <<silent, noMovement, interpolated, rearmed, pulsesPerTurn, pulseFrequency>>
    BY <1>4 DEF TimerCounts, Pulse, pulseVars, filter, pulseAngle, pulseHistory
  <2>2. QED
    BY <1>0, <2>1 DEF SilenceCounted, StandstillSeen, AnglePerPulse
<1>5. QED
  BY <1>1, <1>2, <1>3, <1>4 DEF PulseNext

\* For every threshold, number of pulses and time between them, a rotor without
\* pulses is seen to stand, and the angle never goes beyond the next pulse.
THEOREM StandstillAlwaysSeen == PulseSpec => []StandstillSeen
<1>1. PulseInit => RingTellsPulses /\ SilenceCounted /\ StandstillSeen
  <2> SUFFICES ASSUME PulseInit PROVE SilenceCounted /\ StandstillSeen
    BY RingInit
  <2>1. SilenceCounted
    BY TurnIsPositive DEF PulseInit, SilenceCounted, TimesOK, MaxCnt
  <2>2. AnglePerPulse \in Nat
    BY <2>1, PulseHasAngle DEF SilenceCounted
  <2>3. QED
    BY <2>1, <2>2, TurnIsPositive DEF PulseInit, StandstillSeen
<1>2. RingTellsPulses /\ SilenceCounted /\ StandstillSeen /\ [PulseNext]_pulseVars
        => (RingTellsPulses /\ SilenceCounted /\ StandstillSeen)'
  BY RingKept, StandstillKept
<1>3. QED
  BY <1>1, <1>2, PTL DEF PulseSpec

\* PulseTypeOK, as memberships the provers take apart.
PulseParts ==
  /\ timer \in 0 .. MaxCnt /\ capture \in 0 .. MaxCnt
  /\ timdata \in [RingSlots -> 0 .. MaxCnt] /\ slot \in RingSlots
  /\ pulsesPerTurn \in Impulses
  /\ lastN \in 1 .. MaxRevCnt /\ passed \in 0 .. MaxRevCnt - 1
  /\ noMovement \in 0 .. StopAfter + 1 /\ silent \in 0 .. StopAfter + 1
  /\ lastPulseTimespan \in 1 .. TimerTurn
  /\ accumulatedAngle \in 0 .. TimerTurn - 1 /\ trueAngle \in 0 .. TimerTurn - 1
  /\ interpolated \in -TimerTurn .. TimerTurn
  /\ pulseFrequency \in Nat

PulseFlags == ignore \in BOOLEAN /\ rearmed \in BOOLEAN

LEMMA PulsePartsInit == PulseInit => PulseParts
BY PulseAssumption DEF PulseInit, PulseParts, MaxCnt, RingSlots

LEMMA PulseFlagsInit == PulseInit => PulseFlags
BY Zenon DEF PulseInit, PulseFlags

LEMMA PositiveProduct == ASSUME NEW m \in Nat \ {0}, NEW n \in Nat \ {0}
                         PROVE  m * n \in Nat \ {0}
  OBVIOUS

LEMMA PulsePartsStep ==
  ASSUME PulseParts, RingTellsPulses, TimesOK, [PulseNext]_pulseVars
  PROVE  PulseParts'
<1> USE DEF PulseParts
<1>a. TimerTurn \in Nat \ {0, 1} /\ StopAfter \in Nat /\ MaxRevCnt \in Nat \ {0}
      /\ MaxCnt \in Nat /\ MaxCnt = TimerTurn - 1 /\ PulseFreq \in Nat
  BY PulseAssumption DEF PulseAssumption, MaxCnt
<1>b. TimesOK' /\ RingTellsPulses'
  BY TimesKept, RingKept
<1>c. slot' \in RingSlots /\ lastN' \in 1 .. MaxRevCnt /\ passed' \in 0 .. MaxRevCnt - 1
  BY <1>b DEF RingTellsPulses, RingOK
<1>1. CASE TimerCounts
  <2>1. timer' \in 0 .. MaxCnt
    BY <1>1, <1>a DEF TimerCounts
  <2> QED
    BY <1>1, <2>1, <1>c DEF TimerCounts, filter, pulseAngle, pulseHistory
<1>2. CASE Pulse
  <2>1. timdata' \in [RingSlots -> 0 .. MaxCnt] /\ timer' \in 0 .. MaxCnt /\ capture' \in 0 .. MaxCnt
    BY <1>2, <1>a DEF Pulse
  <2> QED
    BY <1>2, <2>1, <1>c DEF Pulse, filter, pulseAngle
<1>3. CASE SetImpulsesPerTurn
  <2>1. timer' \in 0 .. MaxCnt /\ capture' \in 0 .. MaxCnt /\ pulsesPerTurn' \in Impulses
    BY <1>3, <1>a DEF SetImpulsesPerTurn
  <2> QED
    BY <1>3, <2>1, <1>c DEF SetImpulsesPerTurn, filter, pulseAngle
<1>4. CASE SamplePulses
  <2>1. PICK dir \in Directions : UpdateRotorAngle(dir)
    BY <1>4 DEF SamplePulses
  <2>2. /\ timdata' = (IF Stands THEN [i \in RingSlots |-> MaxCnt] ELSE timdata)
        /\ UNCHANGED <<timer, capture, pulsesPerTurn>>
    BY <2>1 DEF UpdateRotorAngle, GetPulseTimeFiltered
  <2>3. timdata' \in [RingSlots -> 0 .. MaxCnt]
    BY <2>2, <1>a
  <2>4. noMovement' \in 0 .. StopAfter + 1 /\ silent' \in 0 .. StopAfter + 1
    <3>1. noMovement' = IF Counted > 0 THEN 0
                        ELSE IF noMovement <= StopAfter THEN noMovement + 1 ELSE noMovement
      BY <2>1 DEF UpdateRotorAngle, GetPulseTimeFiltered, CountSilence
    <3>2. silent' = IF passed > 0 \/ rearmed THEN 0
                    ELSE IF silent <= StopAfter THEN silent + 1 ELSE silent
      BY <2>1 DEF UpdateRotorAngle
    <3> HIDE DEF Counted
    <3> QED
      BY <3>1, <3>2, <1>a
  <2>5. lastPulseTimespan' \in 1 .. TimerTurn
    <3>1. lastPulseTimespan' = IF Longest > 2 * Shortest THEN lastPulseTimespan
                               ELSE (lastPulseTimespan + capture + 1) \div 2
      BY <2>1 DEF UpdateRotorAngle, GetPulseTimeFiltered, MeasureTimespan
    <3> DEFINE mean == (lastPulseTimespan + capture + 1) \div 2
    <3>2. mean \in 1 .. TimerTurn
      BY <1>a
    <3> HIDE DEF mean
    <3> QED
      BY <3>1, <3>2 DEF mean
  <2>6. dir \in {-1, 0, 1}
    BY PulseAssumption DEF PulseAssumption
  <2>7. AnglePerPulse \in 0 .. TimerTurn
    <3>1. pulsesPerTurn \in Nat \ {0}
      BY PulseAssumption DEF PulseAssumption
    <3>2. \A m, n \in Nat : n # 0 => m \div n \in 0 .. m
      <4> SUFFICES ASSUME NEW m \in Nat, NEW n \in Nat \ {0} PROVE m \div n \in 0 .. m
        OBVIOUS
      <4> DEFINE q == m \div n
      <4>1. q \in Int /\ q * n <= m /\ q >= 0
        OBVIOUS
      <4> HIDE DEF q
      <4>2. q * n >= q
        BY <4>1
      <4> QED
        BY <4>1, <4>2 DEF q
    <3> QED
      BY <3>1, <3>2, <1>a DEF AnglePerPulse
  <2>8. interpolated' \in -TimerTurn .. TimerTurn
    <3>1. interpolated' = dir * Interpolation /\ Interpolation \in 0 .. AnglePerPulse
      BY <2>1, <1>b, InterpolationBounded DEF UpdateRotorAngle
    <3> HIDE DEF Interpolation, AnglePerPulse
    <3> QED
      BY <2>6, <2>7, <3>1, <1>a
  <2>9. accumulatedAngle' \in 0 .. TimerTurn - 1 /\ trueAngle' \in 0 .. TimerTurn - 1
    <3>1. \A n \in Int : n % TimerTurn \in 0 .. TimerTurn - 1
      BY <1>a
    <3>2. Counted \in Int /\ passed \in Int
      BY <1>a DEF Counted, NumberOfData, RingSlots
    <3>3. AnglePerPulse \in Int
      BY <2>7, <1>a
    <3>4. accumulatedAngle + dir * Counted * AnglePerPulse \in Int
          /\ trueAngle + dir * passed * AnglePerPulse \in Int
      <4> HIDE DEF Counted, AnglePerPulse
      <4>1. dir * Counted \in Int /\ dir * passed \in Int
        BY <2>6, <3>2
      <4>2. (dir * Counted) * AnglePerPulse \in Int /\ (dir * passed) * AnglePerPulse \in Int
        BY <4>1, <3>3
      <4> QED
        BY <4>2, <1>a
    <3>5. accumulatedAngle' = (accumulatedAngle + dir * Counted * AnglePerPulse) % TimerTurn
          /\ trueAngle' = IF rearmed THEN accumulatedAngle'
                          ELSE (trueAngle + dir * passed * AnglePerPulse) % TimerTurn
      BY <2>1 DEF UpdateRotorAngle
    <3> DEFINE a == accumulatedAngle + dir * Counted * AnglePerPulse
               b == trueAngle + dir * passed * AnglePerPulse
    <3>6. a \in Int /\ b \in Int
      BY <3>4
    <3>7. accumulatedAngle' = a % TimerTurn
          /\ trueAngle' = IF rearmed THEN accumulatedAngle' ELSE b % TimerTurn
      BY <3>5
    <3> HIDE DEF a, b
    <3> QED
      BY <3>1, <3>6, <3>7
  <2>10. pulseFrequency' \in Nat
    <3> DEFINE period == lastPulseTimespan' * pulsesPerTurn
               frequency == PulseFreq \div period
    <3>1. pulsesPerTurn \in Nat \ {0}
      BY PulseAssumption DEF PulseAssumption
    <3>2. period \in Nat \ {0}
      <4>1. lastPulseTimespan' \in Nat \ {0}
        BY <2>5, <1>a
      <4> QED
        BY <4>1, <3>1, PositiveProduct
    <3> HIDE DEF period
    <3>3. frequency \in Nat
      BY <3>2, <1>a
    <3> HIDE DEF frequency
    <3>4. pulseFrequency' = IF ignore' THEN IF Stands THEN 0 ELSE pulseFrequency ELSE frequency
      BY <2>1 DEF UpdateRotorAngle, frequency, period
    <3> QED
      BY <3>3, <3>4
  <2> QED
    BY <1>c, <2>2, <2>3, <2>4, <2>5, <2>8, <2>9, <2>10
<1>5. CASE ResetPulses
  <2>1. timdata' \in [RingSlots -> 0 .. MaxCnt] /\ lastPulseTimespan' \in 1 .. TimerTurn
        /\ pulseFrequency' \in Nat
    BY <1>5, <1>a DEF ResetPulses
  <2> QED
    BY <1>5, <2>1, <1>c DEF ResetPulses, pulseHistory
<1>6. CASE UNCHANGED pulseVars
  BY <1>6 DEF pulseVars, hardware, filter, pulseAngle, pulseHistory
<1> QED
  BY <1>1, <1>2, <1>3, <1>4, <1>5, <1>6 DEF PulseNext

LEMMA PulseFlagsStep == PulseFlags /\ [PulseNext]_pulseVars => PulseFlags'
<1> SUFFICES ASSUME PulseFlags, [PulseNext]_pulseVars PROVE PulseFlags'
  OBVIOUS
<1>1. CASE SamplePulses
  <2>1. PICK dir \in Directions : UpdateRotorAngle(dir)
    BY <1>1 DEF SamplePulses
  <2>2. ignore' = (Stands \/ (ignore /\ Counted = 0)) /\ rearmed' = FALSE
    BY <2>1, Zenon DEF UpdateRotorAngle, GetPulseTimeFiltered
  <2>3. (Stands \/ (ignore /\ Counted = 0)) \in BOOLEAN
    BY Zenon
  <2> QED
    BY <2>2, <2>3, Zenon DEF PulseFlags
<1>2. CASE TimerCounts \/ Pulse \/ SetImpulsesPerTurn \/ ResetPulses
  BY <1>2, Zenon DEF TimerCounts, Pulse, SetImpulsesPerTurn, ResetPulses, filter, pulseHistory,
     PulseFlags
<1>3. CASE UNCHANGED pulseVars
  BY <1>3, Zenon DEF pulseVars, filter, pulseHistory, PulseFlags
<1> QED
  BY <1>1, <1>2, <1>3, Zenon DEF PulseNext

\* Timer, ring, angle and filter stay in their ranges.
THEOREM PulseTypeCorrect == PulseSpec => []PulseTypeOK
<1> DEFINE Inv == PulseParts /\ PulseFlags /\ RingTellsPulses /\ TimesOK
<1>1. PulseInit => Inv
  <2>1. PulseInit => TimesOK
    BY PulseAssumption DEF PulseInit, TimesOK, MaxCnt
  <2> QED
    BY <2>1, PulsePartsInit, PulseFlagsInit, RingInit
<1>2. Inv /\ [PulseNext]_pulseVars => Inv'
  BY PulsePartsStep, PulseFlagsStep, RingKept, TimesKept
<1>3. Inv => PulseTypeOK
  <2> SUFFICES ASSUME PulseParts, PulseFlags PROVE PulseTypeOK
    OBVIOUS
  <2>1. {ignore, rearmed} \subseteq BOOLEAN
    BY Zenon DEF PulseFlags
  <2>2. /\ {noMovement, silent} \subseteq 0 .. StopAfter + 1
        /\ {accumulatedAngle, trueAngle} \subseteq 0 .. TimerTurn - 1
    BY DEF PulseParts
  <2> QED
    BY <2>1, <2>2 DEF PulseParts, PulseTypeOK
<1> QED
  BY <1>1, <1>2, <1>3, PTL DEF PulseSpec

-----------------------------------------------------------------------------
(* Lookup in a table of readings.                                          *)

\* What a table has to be for a reading to be found in it.
IsTable(table) ==
  /\ DOMAIN table = 1 .. Len(table)
  /\ Len(table) \in Nat
  /\ Len(table) >= 2
  /\ \A i \in 1 .. Len(table) : table[i] \in Nat

\* The end of the table the search starts at is its lowest or its highest reading.
StartsAtAnEnd(coeff, table) ==
  \/ coeff = "NTC" /\ \A i \in 1 .. Len(table) : table[1] <= table[i]
  \/ coeff = "PTC" /\ \A i \in 1 .. Len(table) : table[i] <= table[1]

LEMMA AscendingTables ==
  \A table \in {JCURVE, KTY81_HS, LEAFHS, LEAF, OUTLANDERFRONT, EPCOSB57861, TOYOTA_MGEN2} :
    IsTable(table) /\ StartsAtAnEnd("NTC", table)
<1>1. IsTable(JCURVE) /\ StartsAtAnEnd("NTC", JCURVE)
  BY DEF IsTable, StartsAtAnEnd, JCURVE
<1>2. IsTable(KTY81_HS) /\ StartsAtAnEnd("NTC", KTY81_HS)
  BY DEF IsTable, StartsAtAnEnd, KTY81_HS
<1>3. IsTable(LEAFHS) /\ StartsAtAnEnd("NTC", LEAFHS)
  BY DEF IsTable, StartsAtAnEnd, LEAFHS
<1>4. IsTable(LEAF) /\ StartsAtAnEnd("NTC", LEAF)
  BY DEF IsTable, StartsAtAnEnd, LEAF
<1>5. IsTable(OUTLANDERFRONT) /\ StartsAtAnEnd("NTC", OUTLANDERFRONT)
  BY DEF IsTable, StartsAtAnEnd, OUTLANDERFRONT
<1>6. IsTable(EPCOSB57861) /\ StartsAtAnEnd("NTC", EPCOSB57861)
  BY DEF IsTable, StartsAtAnEnd, EPCOSB57861
<1>7. IsTable(TOYOTA_MGEN2) /\ StartsAtAnEnd("NTC", TOYOTA_MGEN2)
  BY DEF IsTable, StartsAtAnEnd, TOYOTA_MGEN2
<1> QED
  BY <1>1, <1>2, <1>3, <1>4, <1>5, <1>6, <1>7

LEMMA DescendingTables ==
  \A table \in {SEMIKRON, MBB600, FS800, KTY83, KTY84, KTY81_M, TOYOTA_M, TESLA_100K,
                TESLA_52K, TESLA_LDU_FLUID, TESLA_10K} :
    IsTable(table) /\ StartsAtAnEnd("PTC", table)
<1>1. IsTable(SEMIKRON) /\ StartsAtAnEnd("PTC", SEMIKRON)
  BY DEF IsTable, StartsAtAnEnd, SEMIKRON
<1>2. IsTable(MBB600) /\ StartsAtAnEnd("PTC", MBB600)
  BY DEF IsTable, StartsAtAnEnd, MBB600
<1>3. IsTable(FS800) /\ StartsAtAnEnd("PTC", FS800)
  BY DEF IsTable, StartsAtAnEnd, FS800
<1>4. IsTable(KTY83) /\ StartsAtAnEnd("PTC", KTY83)
  BY DEF IsTable, StartsAtAnEnd, KTY83
<1>5. IsTable(KTY84) /\ StartsAtAnEnd("PTC", KTY84)
  BY DEF IsTable, StartsAtAnEnd, KTY84
<1>6. IsTable(KTY81_M) /\ StartsAtAnEnd("PTC", KTY81_M)
  BY DEF IsTable, StartsAtAnEnd, KTY81_M
<1>7. IsTable(TOYOTA_M) /\ StartsAtAnEnd("PTC", TOYOTA_M)
  BY DEF IsTable, StartsAtAnEnd, TOYOTA_M
<1>8. IsTable(TESLA_100K) /\ StartsAtAnEnd("PTC", TESLA_100K)
  BY DEF IsTable, StartsAtAnEnd, TESLA_100K
<1>9. IsTable(TESLA_52K) /\ StartsAtAnEnd("PTC", TESLA_52K)
  BY DEF IsTable, StartsAtAnEnd, TESLA_52K
<1>10. IsTable(TESLA_LDU_FLUID) /\ StartsAtAnEnd("PTC", TESLA_LDU_FLUID)
  BY DEF IsTable, StartsAtAnEnd, TESLA_LDU_FLUID
<1>11. IsTable(TESLA_10K) /\ StartsAtAnEnd("PTC", TESLA_10K)
  BY DEF IsTable, StartsAtAnEnd, TESLA_10K
<1> QED
  BY <1>1, <1>2, <1>3, <1>4, <1>5, <1>6, <1>7, <1>8, <1>9, <1>10, <1>11

\* The two tables that run against the direction of their sensor.
LEMMA ReversedTables == IsTable(PT1000) /\ IsTable(NTCK45)
<1>1. IsTable(PT1000)
  BY DEF IsTable, PT1000
<1>2. IsTable(NTCK45)
  BY DEF IsTable, NTCK45
<1> QED
  BY <1>1, <1>2

\* What Lookup may take for granted of a sensor.
SensorOK(sensor) ==
  /\ sensor.coeff \in {"NTC", "PTC"}
  /\ sensor.tempMin \in Int
  /\ sensor.tempMax \in Int
  /\ sensor.step \in Nat
  /\ IsTable(sensor.lookup)

\* A sensor fit for Lookup whose table starts at an end.
FitSensor(sensor) == SensorOK(sensor) /\ StartsAtAnEnd(sensor.coeff, sensor.lookup)

LEMMA SensorIsOK ==
  ASSUME NEW tempMin \in Int, NEW tempMax \in Int, NEW step \in Nat,
         NEW coeff \in {"NTC", "PTC"}, NEW table, IsTable(table)
  PROVE  /\ SensorOK(Sensor(tempMin, tempMax, step, coeff, table))
         /\ StartsAtAnEnd(coeff, table) => FitSensor(Sensor(tempMin, tempMax, step, coeff, table))
<1> DEFINE sensor == Sensor(tempMin, tempMax, step, coeff, table)
<1>1. tempMin * TempScale \in Int /\ tempMax * TempScale \in Int /\ step * TempScale \in Nat
  BY TempMeasAssumption
<1>2. sensor.coeff = coeff /\ sensor.lookup = table
  BY DEF Sensor
<1>3. SensorOK(sensor)
  BY <1>1 DEF Sensor, SensorOK
<1>4. StartsAtAnEnd(coeff, table) => StartsAtAnEnd(sensor.coeff, sensor.lookup)
  BY <1>2, Zenon
<1> QED
  BY <1>3, <1>4, Zenon DEF FitSensor

LEMMA AscendingSensor ==
  ASSUME NEW tempMin \in Int, NEW tempMax \in Int, NEW step \in Nat,
         NEW table \in {JCURVE, KTY81_HS, LEAFHS, LEAF, OUTLANDERFRONT, EPCOSB57861, TOYOTA_MGEN2}
  PROVE  FitSensor(Sensor(tempMin, tempMax, step, "NTC", table))
BY SensorIsOK, AscendingTables

LEMMA DescendingSensor ==
  ASSUME NEW tempMin \in Int, NEW tempMax \in Int, NEW step \in Nat,
         NEW table \in {SEMIKRON, MBB600, FS800, KTY83, KTY84, KTY81_M, TOYOTA_M, TESLA_100K,
                        TESLA_52K, TESLA_LDU_FLUID, TESLA_10K}
  PROVE  FitSensor(Sensor(tempMin, tempMax, step, "PTC", table))
BY SensorIsOK, DescendingTables

\* Every sensor of the code is fit, but for the two declared in the wrong direction,
\* which have a table to search all the same.
LEMMA SensorsOK ==
  ASSUME NEW id \in DOMAIN sensors
  PROVE  SensorOK(sensors[id]) /\ (id \notin Reversed => FitSensor(sensors[id]))
<1>1. id \in {"JCURVE", "KTY81HS", "LEAFHS", "LEAF", "OUTLANDERFRONT", "EPCOSB56871", "TOYOTAGEN2"}
        => FitSensor(sensors[id])
  <2>1. FitSensor(Sensor(-25, 105, 5, "NTC", JCURVE))
    BY AscendingSensor
  <2>2. FitSensor(Sensor(-50, 150, 10, "NTC", KTY81_HS))
    BY AscendingSensor
  <2>3. FitSensor(Sensor(-10, 160, 10, "NTC", LEAFHS))
    BY AscendingSensor
  <2>4. FitSensor(Sensor(-20, 150, 10, "NTC", LEAF))
    BY AscendingSensor
  <2>5. FitSensor(Sensor(-40, 300, 10, "NTC", OUTLANDERFRONT))
    BY AscendingSensor
  <2>6. FitSensor(Sensor(-50, 150, 10, "NTC", EPCOSB57861))
    BY AscendingSensor
  <2>7. FitSensor(Sensor(-20, 200, 5, "NTC", TOYOTA_MGEN2))
    BY AscendingSensor
  <2> QED
    BY <2>1, <2>2, <2>3, <2>4, <2>5, <2>6, <2>7 DEF sensors
<1>2. id \in {"SEMIKRON", "MBB600", "BMWI3HS", "KTY83", "KTY84", "KTY81M", "TOYOTA", "TESLA_100K",
          "TESLA_52K", "TESLA_LDU_FLUID", "TESLA_10K"}
        => FitSensor(sensors[id])
  <2>1. FitSensor(Sensor(0, 100, 5, "PTC", SEMIKRON))
    BY DescendingSensor
  <2>2. FitSensor(Sensor(-5, 100, 5, "PTC", MBB600))
    BY DescendingSensor
  <2>3. FitSensor(Sensor(-25, 105, 5, "PTC", FS800))
    BY DescendingSensor
  <2>4. FitSensor(Sensor(-50, 170, 10, "PTC", KTY83))
    BY DescendingSensor
  <2>5. FitSensor(Sensor(-40, 300, 10, "PTC", KTY84))
    BY DescendingSensor
  <2>6. FitSensor(Sensor(-50, 150, 10, "PTC", KTY81_M))
    BY DescendingSensor
  <2>7. FitSensor(Sensor(-20, 200, 5, "PTC", TOYOTA_M))
    BY DescendingSensor
  <2>8. FitSensor(Sensor(-20, 200, 5, "PTC", TESLA_100K))
    BY DescendingSensor
  <2>9. FitSensor(Sensor(0, 100, 10, "PTC", TESLA_52K))
    BY DescendingSensor
  <2>10. FitSensor(Sensor(5, 100, 5, "PTC", TESLA_LDU_FLUID))
    BY DescendingSensor
  <2>11. FitSensor(Sensor(-20, 190, 5, "PTC", TESLA_10K))
    BY DescendingSensor
  <2> QED
    BY <2>1, <2>2, <2>3, <2>4, <2>5, <2>6, <2>7, <2>8, <2>9, <2>10, <2>11 DEF sensors
<1>3. id \in {"PT1000", "NTCK45"}
        => SensorOK(sensors[id])
  <2>1. SensorOK(Sensor(-50, 150, 10, "PTC", PT1000))
    BY SensorIsOK, ReversedTables
  <2>2. SensorOK(Sensor(-50, 150, 5, "NTC", NTCK45))
    BY SensorIsOK, ReversedTables
  <2> QED
    BY <2>1, <2>2 DEF sensors
<1> QED
  BY <1>1, <1>2, <1>3 DEF sensors, FitSensor, Reversed

LEMMA LessInRelation ==
  \A x \in Nat, y \in Nat : x < y => <<x, y>> \in OpToRel(<, Nat)
<1> SUFFICES ASSUME NEW x \in Nat, NEW y \in Nat, x < y
             PROVE  <<x, y>> \in OpToRel(<, Nat)
  BY Zenon
<1>1. <<x, y>> \in {pair \in Nat \X Nat : pair[1] < pair[2]}
  OBVIOUS
<1> QED
  BY <1>1 DEF OpToRel

\* Numbers that are not none at all have a least one.
LEMMA LeastNumber ==
  ASSUME NEW S \in SUBSET Nat, S # {}
  PROVE  Min(S) \in S /\ \A x \in S : Min(S) <= x
<1>1. PICK m \in S : \A x \in S : <<x, m>> \notin OpToRel(<, Nat)
  BY NatLessThanWellFounded, WFMin, Zenon
<1>2. \A x \in S : ~(x < m)
  BY <1>1, LessInRelation, Zenon
<1>3. \A x \in S : m <= x
  BY <1>2
<1> QED
  BY <1>3 DEF Min

LEMMA StopsFirst ==
  ASSUME NEW sensor, SensorOK(sensor), NEW reading \in Nat,
         Stops(sensor, reading) # {}, 1 \notin Stops(sensor, reading)
  PROVE  /\ Min(Stops(sensor, reading)) \in 2 .. Len(sensor.lookup)
         /\ Min(Stops(sensor, reading)) \in Stops(sensor, reading)
         /\ Min(Stops(sensor, reading)) - 1 \notin Stops(sensor, reading)
<1> DEFINE stops == Stops(sensor, reading)
           m == Min(stops)
<1>1. stops \subseteq 1 .. Len(sensor.lookup)
  BY DEF Stops, SensorOK, IsTable
<1>2. m \in stops /\ \A x \in stops : m <= x
  <2>1. stops \in SUBSET Nat
    BY <1>1 DEF SensorOK, IsTable
  <2> QED
    BY <2>1, LeastNumber
<1> HIDE DEF m, stops
<1>3. m # 1 /\ m \in 1 .. Len(sensor.lookup) /\ Len(sensor.lookup) \in Nat
  BY <1>1, <1>2 DEF SensorOK, IsTable, stops
<1>4. m - 1 \notin stops
  BY <1>2, <1>3
<1> QED
  BY <1>2, <1>3, <1>4 DEF m, stops

\* An interpolation stays within its step, and at the entry it goes back from it
\* goes back by nothing.
LEMMA PartOfStep ==
  ASSUME NEW s \in Nat, NEW d \in Nat, NEW w \in Nat \ {0}, d <= w
  PROVE  (s * d) \div w \in 0 .. s /\ (d = 0 => (s * d) \div w = 0)
<1> DEFINE p == s * d
           q == p \div w
<1>1. p \in Nat /\ p <= s * w /\ (d = 0 => p = 0)
  OBVIOUS
<1> HIDE DEF p
<1>2. q \in Int /\ q * w <= p /\ p < q * w + w
  BY <1>1
<1> HIDE DEF q
<1>3. q >= 0
  BY <1>1, <1>2
<1>4. q <= s
  <2> SUFFICES ASSUME q >= s + 1 PROVE FALSE
    BY <1>2
  <2>1. q * w >= (s + 1) * w
    BY <1>2
  <2> QED
    BY <2>1, <1>1, <1>2
<1>5. d = 0 => q = 0
  BY <1>1, <1>2, <1>3
<1> QED
  BY <1>2, <1>3, <1>4, <1>5 DEF p, q

\* What the search finds: the two neighbours the reading lies between, and how far
\* from the first of them to the second the temperature comes.
LEMMA LookupInside ==
  ASSUME NEW id \in DOMAIN sensors, NEW reading \in Nat,
         Stops(sensors[id], reading) # {}, 1 \notin Stops(sensors[id], reading)
  PROVE  LET sensor == sensors[id]
             table == sensor.lookup
         IN \E i \in 1 .. Len(table) - 1 : \E part \in 0 .. sensor.step :
              /\ Between(reading, table[i], table[i + 1])
              /\ reading # table[i]
              /\ reading = table[i + 1] => part = 0
              /\ Lookup(reading, id) = sensor.tempMin + i * sensor.step - part
<1> DEFINE sensor == sensors[id]
           table == sensor.lookup
           stops == Stops(sensor, reading)
           m == Min(stops)
           d == Distance(reading, table[m])
           w == Distance(table[m], table[m - 1])
           part == (sensor.step * d) \div w
<1>1. SensorOK(sensor)
  BY SensorsOK
<1> HIDE DEF sensor
<1>2. m \in 2 .. Len(table) /\ m \in stops /\ m - 1 \notin stops
  BY <1>1, StopsFirst DEF sensor
<1>3. /\ Len(table) \in Nat /\ m \in Int
      /\ m \in 1 .. Len(table) /\ m - 1 \in 1 .. Len(table)
      /\ DOMAIN table = 1 .. Len(table)
  BY <1>1, <1>2 DEF SensorOK, IsTable
<1>4. table[m] \in Nat /\ table[m - 1] \in Nat
  BY <1>1, <1>3 DEF SensorOK, IsTable
<1> HIDE DEF m
<1>5. \/ sensor.coeff = "NTC" /\ table[m - 1] < reading /\ reading <= table[m]
      \/ sensor.coeff = "PTC" /\ table[m - 1] > reading /\ reading >= table[m]
  BY <1>1, <1>2, <1>3, <1>4 DEF Stops, SensorOK
<1>6. Lookup(reading, id) = sensor.tempMin + sensor.step * (m - 1) - part
  BY DEF Lookup, Interpolated, sensor, m
<1>7. /\ d \in Nat /\ w \in Nat \ {0} /\ d <= w
      /\ reading = table[m] => d = 0
  BY <1>4, <1>5 DEF Distance
<1>8. sensor.step \in Nat /\ sensor.tempMin \in Int
  BY <1>1 DEF SensorOK
<1> HIDE DEF d, w
<1>9. part \in 0 .. sensor.step /\ (d = 0 => part = 0)
  BY <1>7, <1>8, PartOfStep
<1> HIDE DEF part
<1>10. Lookup(reading, id) = sensor.tempMin + (m - 1) * sensor.step - part
  BY <1>6, <1>8, <1>3
<1>11. m - 1 \in 1 .. Len(table) - 1 /\ (m - 1) + 1 = m
  BY <1>2, <1>3
<1>12. Between(reading, table[m - 1], table[m]) /\ reading # table[m - 1]
  BY <1>4, <1>5 DEF Between
<1> DEFINE i == m - 1
<1>13. /\ i \in 1 .. Len(table) - 1
       /\ Between(reading, table[i], table[i + 1]) /\ reading # table[i]
       /\ reading = table[i + 1] => part = 0
       /\ Lookup(reading, id) = sensor.tempMin + i * sensor.step - part
  BY <1>7, <1>9, <1>10, <1>11, <1>12
<1> HIDE DEF i
<1> QED
  BY <1>9, <1>13 DEF sensor

\* The search that stops at once, or never.
LEMMA LookupOutside ==
  ASSUME NEW id \in DOMAIN sensors, NEW reading \in Nat
  PROVE  /\ Stops(sensors[id], reading) = {} => Lookup(reading, id) = sensors[id].tempMax
         /\ 1 \in Stops(sensors[id], reading) => Lookup(reading, id) = sensors[id].tempMin
BY Zenon DEF Lookup

LEMMA LookupType ==
  ASSUME NEW id \in DOMAIN sensors, NEW reading \in Nat
  PROVE  Lookup(reading, id) \in Int
<1> DEFINE sensor == sensors[id]
<1>1. SensorOK(sensor)
  BY SensorsOK
<1>2. sensor.tempMin \in Int /\ sensor.tempMax \in Int /\ sensor.step \in Nat
      /\ Len(sensor.lookup) \in Nat
  BY <1>1 DEF SensorOK, IsTable
<1>3. CASE Stops(sensor, reading) = {} \/ 1 \in Stops(sensor, reading)
  BY <1>2, <1>3, LookupOutside
<1>4. CASE Stops(sensor, reading) # {} /\ 1 \notin Stops(sensor, reading)
  <2>1. PICK i \in 1 .. Len(sensor.lookup) - 1 : \E part \in 0 .. sensor.step :
          Lookup(reading, id) = sensor.tempMin + i * sensor.step - part
    BY <1>4, LookupInside
  <2>2. i * sensor.step \in Int
    BY <1>2
  <2> QED
    BY <2>1, <2>2, <1>2
<1> QED
  BY <1>3, <1>4

\* What LookupReadsTable says of one reading.
ReadsTable(sensor, reading, result) ==
  LET table == sensor.lookup
      Temp(i) == sensor.tempMin + (i - 1) * sensor.step
  IN \/ \E i \in 1 .. Len(table) - 1 :
          /\ Between(reading, table[i], table[i + 1])
          /\ Between(result, Temp(i), Temp(i + 1))
          /\ table[i] # table[i + 1] =>
               \A k \in {i, i + 1} : reading = table[k] => result = Temp(k)
     \/ /\ \A i \in DOMAIN table : reading > table[i]
        /\ result = IF sensor.coeff = "NTC" THEN sensor.tempMax ELSE sensor.tempMin
     \/ /\ \A i \in DOMAIN table : reading < table[i]
        /\ result = IF sensor.coeff = "NTC" THEN sensor.tempMin ELSE sensor.tempMax

LEMMA LookupReads ==
  ASSUME NEW id \in DOMAIN sensors, id \notin Reversed, NEW reading \in Nat
  PROVE  ReadsTable(sensors[id], reading, Lookup(reading, id))
<1> DEFINE sensor == sensors[id]
           table == sensor.lookup
           result == Lookup(reading, id)
           stops == Stops(sensor, reading)
           Temp(i) == sensor.tempMin + (i - 1) * sensor.step
<1>1. SensorOK(sensor) /\ StartsAtAnEnd(sensor.coeff, table)
  BY SensorsOK DEF FitSensor
<1>2. /\ sensor.tempMin \in Int /\ sensor.step \in Nat /\ sensor.coeff \in {"NTC", "PTC"}
      /\ DOMAIN table = 1 .. Len(table) /\ Len(table) \in Nat /\ Len(table) >= 2
      /\ \A i \in 1 .. Len(table) : table[i] \in Nat
  BY <1>1 DEF SensorOK, IsTable
<1>3. CASE stops = {}
  <2>1. result = sensor.tempMax
    BY <1>3, LookupOutside
  <2>2. \/ sensor.coeff = "NTC" /\ \A i \in DOMAIN table : reading > table[i]
        \/ sensor.coeff = "PTC" /\ \A i \in DOMAIN table : reading < table[i]
    BY <1>2, <1>3 DEF Stops
  <2> HIDE DEF result, sensor
  <2> QED
    BY <2>1, <2>2 DEF ReadsTable, result, sensor
<1>4. CASE 1 \in stops
  <2>1. result = sensor.tempMin
    BY <1>4, LookupOutside
  <2>2. \/ sensor.coeff = "NTC" /\ table[1] >= reading
        \/ sensor.coeff = "PTC" /\ table[1] <= reading
    BY <1>4 DEF Stops
  <2> HIDE DEF result, sensor
  <2>3. CASE reading = table[1]
    <3>1. 1 \in 1 .. Len(table) - 1
      BY <1>2
    <3>2. Between(reading, table[1], table[1 + 1])
      BY <1>2, <2>3 DEF Between
    <3>3. Temp(1) = sensor.tempMin /\ Temp(1 + 1) = sensor.tempMin + sensor.step
      BY <1>2
    <3>4. Between(result, Temp(1), Temp(1 + 1))
      BY <1>2, <2>1, <3>3 DEF Between
    <3>5. table[1] # table[1 + 1] =>
            \A k \in {1, 1 + 1} : reading = table[k] => result = Temp(k)
      BY <2>1, <2>3, <3>3
    <3> QED
      BY <3>1, <3>2, <3>4, <3>5 DEF ReadsTable, result, sensor
  <2>4. CASE reading # table[1]
    <3>1. \/ sensor.coeff = "NTC" /\ \A i \in DOMAIN table : reading < table[i]
          \/ sensor.coeff = "PTC" /\ \A i \in DOMAIN table : reading > table[i]
      BY <1>1, <1>2, <2>2, <2>4 DEF StartsAtAnEnd
    <3> QED
      BY <2>1, <3>1 DEF ReadsTable, result, sensor
  <2> QED
    BY <2>3, <2>4
<1>5. CASE stops # {} /\ 1 \notin stops
  <2>1. PICK i \in 1 .. Len(table) - 1 : \E part \in 0 .. sensor.step :
          /\ Between(reading, table[i], table[i + 1])
          /\ reading # table[i]
          /\ reading = table[i + 1] => part = 0
          /\ result = sensor.tempMin + i * sensor.step - part
    BY <1>5, LookupInside
  <2>2. PICK part \in 0 .. sensor.step :
          /\ Between(reading, table[i], table[i + 1])
          /\ reading # table[i]
          /\ reading = table[i + 1] => part = 0
          /\ result = sensor.tempMin + i * sensor.step - part
    BY <2>1
  <2> HIDE DEF result, sensor
  <2>3. i \in Int /\ i * sensor.step \in Int /\ (i - 1) * sensor.step = i * sensor.step - sensor.step
    BY <1>2
  <2>4. Temp(i + 1) = sensor.tempMin + i * sensor.step
        /\ Temp(i) = sensor.tempMin + i * sensor.step - sensor.step
    BY <1>2, <2>3
  <2> HIDE DEF Temp
  <2>5. Between(result, Temp(i), Temp(i + 1))
    <3> DEFINE product == i * sensor.step
    <3> HIDE DEF product
    <3>1. product \in Int /\ result = sensor.tempMin + product - part
          /\ Temp(i + 1) = sensor.tempMin + product
          /\ Temp(i) = sensor.tempMin + product - sensor.step
      BY <2>2, <2>3, <2>4 DEF product
    <3> QED
      BY <1>2, <3>1 DEF Between
  <2>6. \A k \in {i, i + 1} : reading = table[k] => result = Temp(k)
    <3>1. reading = table[i + 1] => result = Temp(i + 1)
      BY <1>2, <2>2, <2>3, <2>4
    <3> QED
      BY <2>2, <3>1
  <2> QED
    BY <2>1, <2>2, <2>5, <2>6 DEF ReadsTable, result, sensor, Temp
<1> QED
  BY <1>3, <1>4, <1>5

\* The result shown is that of the reading shown.
LookupInv ==
  TempMeasTypeOK /\ (digit # None => temperature = Lookup(digit, sensorId))

LEMMA LookupInit == TempMeasInit => LookupInv
BY DEF TempMeasInit, LookupInv, TempMeasTypeOK, None

LEMMA LookupStep == LookupInv /\ [TempMeasNext]_tempMeasVars => LookupInv'
<1> SUFFICES ASSUME LookupInv, [TempMeasNext]_tempMeasVars PROVE LookupInv'
  OBVIOUS
<1>1. CASE ReadSensor
  <2>1. digit' \in Nat /\ sensorId \in DOMAIN sensors
    BY <1>1, TempMeasAssumption, SensorsKnown DEF ReadSensor, LookupInv, TempMeasTypeOK
  <2>2. Lookup(digit', sensorId) \in Int
    BY <2>1, LookupType
  <2> QED
    BY <1>1, <2>2 DEF ReadSensor, LookupInv, TempMeasTypeOK
<1>2. CASE Return
  BY <1>2 DEF Return, LookupInv, TempMeasTypeOK, None
<1>3. CASE UNCHANGED tempMeasVars
  BY <1>3 DEF tempMeasVars, LookupInv, TempMeasTypeOK
<1> QED
  BY <1>1, <1>2, <1>3 DEF TempMeasNext

LEMMA LookupInvReads == LookupInv => LookupReadsTable
<1> SUFFICES ASSUME LookupInv, digit # None, sensorId \notin Reversed
             PROVE  ReadsTable(sensors[sensorId], digit, temperature)
  BY Zenon DEF LookupReadsTable, ReadsTable
<1>1. digit \in Nat /\ sensorId \in DOMAIN sensors
  BY TempMeasAssumption, SensorsKnown DEF LookupInv, TempMeasTypeOK
<1>2. ReadsTable(sensors[sensorId], digit, Lookup(digit, sensorId))
  BY <1>1, LookupReads
<1> QED
  BY <1>2, Zenon DEF LookupInv

\* Readings and temperatures keep their types, for every table and every reading.
THEOREM LookupIsTyped == TempMeasSpec => []TempMeasTypeOK
<1>1. LookupInv => TempMeasTypeOK
  BY DEF LookupInv
<1> QED
  BY <1>1, LookupInit, LookupStep, PTL DEF TempMeasSpec

\* For every sensor with a table and every reading: a lookup yields the temperature
\* interpolated between the two entries the reading lies between, or that of the end
\* it lies beyond.
THEOREM LookupAlwaysReadsTable == TempMeasSpec => []LookupReadsTable
BY LookupInvReads, LookupInit, LookupStep, PTL DEF TempMeasSpec

LEMMA WithinSteps ==
  ASSUME NEW i \in Nat \ {0}, NEW s \in Nat, NEW part \in 0 .. s
  PROVE  i * s - part >= 0 /\ i * s \in Int
<1> DEFINE j == i - 1
<1>1. j \in Nat /\ i = j + 1
  OBVIOUS
<1> HIDE DEF j
<1>2. j * s \in Nat /\ i * s = j * s + s
  BY <1>1
<1> QED
  BY <1>2

\* No reading is colder than the cold end of a table.
LEMMA LookupAtLeast ==
  ASSUME NEW id \in DOMAIN sensors, NEW reading \in Nat, sensors[id].tempMin <= sensors[id].tempMax
  PROVE  sensors[id].tempMin <= Lookup(reading, id)
<1> DEFINE sensor == sensors[id]
<1>1. SensorOK(sensor)
  BY SensorsOK
<1>2. sensor.tempMin \in Int /\ sensor.tempMax \in Int /\ sensor.step \in Nat
      /\ Len(sensor.lookup) \in Nat
  BY <1>1 DEF SensorOK, IsTable
<1>3. CASE Stops(sensor, reading) = {} \/ 1 \in Stops(sensor, reading)
  BY <1>2, <1>3, LookupOutside
<1>4. CASE Stops(sensor, reading) # {} /\ 1 \notin Stops(sensor, reading)
  <2>1. PICK i \in 1 .. Len(sensor.lookup) - 1 : \E part \in 0 .. sensor.step :
          Lookup(reading, id) = sensor.tempMin + i * sensor.step - part
    BY <1>4, LookupInside
  <2>2. PICK part \in 0 .. sensor.step :
          Lookup(reading, id) = sensor.tempMin + i * sensor.step - part
    BY <2>1
  <2> HIDE DEF sensor
  <2>3. i \in Nat \ {0}
    BY <1>2
  <2>4. i * sensor.step - part >= 0 /\ i * sensor.step \in Int
    BY <1>2, <2>3, WithinSteps
  <2> QED
    BY <1>2, <2>2, <2>4 DEF sensor
<1> QED
  BY <1>3, <1>4

\* The Tesla board's own sensors read something above Coldest.
LEMMA TeslaReads ==
  ASSUME NEW id \in {"TESLA_52K", "TESLA_100K", "TESLA_10K"}, NEW reading \in Nat
  PROVE  Lookup(reading, id) \in Int /\ Coldest <= Lookup(reading, id)
<1>1. /\ "TESLA_52K" \in DOMAIN sensors
      /\ "TESLA_100K" \in DOMAIN sensors
      /\ "TESLA_10K" \in DOMAIN sensors
  BY Zenon DEF sensors
<1>2. /\ sensors["TESLA_52K"] = Sensor(0, 100, 10, "PTC", TESLA_52K)
      /\ sensors["TESLA_100K"] = Sensor(-20, 200, 5, "PTC", TESLA_100K)
      /\ sensors["TESLA_10K"] = Sensor(-20, 190, 5, "PTC", TESLA_10K)
  BY DEF sensors
<1>3. /\ sensors[id].tempMin \in Int /\ sensors[id].tempMin <= sensors[id].tempMax
      /\ Coldest \in Int /\ Coldest <= sensors[id].tempMin
  BY <1>2, TempMeasAssumption DEF Sensor, Coldest
<1>4. id \in DOMAIN sensors
  BY <1>1, Zenon
<1>5. Lookup(reading, id) \in Int /\ sensors[id].tempMin <= Lookup(reading, id)
  BY <1>3, <1>4, LookupType, LookupAtLeast
<1> QED
  BY <1>3, <1>5

LEMMA DigitsAreNumbers == TempDigits \subseteq Nat /\ 0 \in Nat
BY TemperatureAssumption, TempMeasAssumption

-----------------------------------------------------------------------------

\* The parts of TemperatureTypeOK, as memberships the provers take apart.
LEMMA TemperatureUnfolded ==
  ASSUME TemperatureTypeOK
  PROVE  /\ isLdu \in BOOLEAN /\ coeffDoubled \in BOOLEAN /\ fan \in BOOLEAN
         /\ temphsFiltered \in Int /\ tempmFiltered \in Int
         /\ hsHottest \in Int /\ mHottest \in Int
BY DEF TemperatureTypeOK

LEMMA HotterType ==
  ASSUME NEW x \in Int, NEW y \in Int
  PROVE  Hotter(x, y) \in Int
BY DEF Hotter

LEMMA ReadTeslaType ==
  ASSUME TemperatureTypeOK, NEW hsDigit \in Nat, NEW mDigit \in Nat, ReadTesla(hsDigit, mDigit)
  PROVE  /\ mux' \in 0 .. 3 /\ hsTemps' \in [0 .. 2 -> Int] /\ mTemps' \in [0 .. 1 -> Int]
         /\ isLdu' \in BOOLEAN /\ coeffDoubled' \in BOOLEAN
         /\ hsHottest' \in Int /\ mHottest' \in Int /\ rounds' \in 0 .. 2
<1>1. Coldest \in Int
  BY TempMeasAssumption DEF Coldest
<1>2. Lookup(hsDigit, "TESLA_52K") \in Int
  BY TeslaReads
<1>3. /\ Lookup(mDigit, "TESLA_100K") \in Int /\ Lookup(mDigit, "TESLA_10K") \in Int
  BY TeslaReads
<1>a. mux \in 0 .. 3 /\ rounds \in 0 .. 2
  BY DEF TemperatureTypeOK
<1>b. /\ mux' = (mux + 1) % 4
      /\ hsTemps' = IF mux = 3 THEN hsTemps
                    ELSE [hsTemps EXCEPT ![mux] = Lookup(hsDigit, "TESLA_52K")]
      /\ rounds' = IF mux < 3 THEN rounds
                   ELSE IF ldu /\ mDigit <= 20 THEN 0
                   ELSE IF rounds < 2 THEN rounds + 1 ELSE 2
  BY Zenon DEF ReadTesla, Witness
<1>4. mux' \in 0 .. 3 /\ rounds' \in 0 .. 2
  BY <1>a, <1>b
<1>5. hsTemps' \in [0 .. 2 -> Int]
  BY <1>2, <1>a, <1>b DEF TemperatureTypeOK
<1>6. mTemps' \in [0 .. 1 -> Int]
  BY <1>3 DEF ReadTesla, ReadMotor, TemperatureTypeOK
<1>7. isLdu' \in BOOLEAN /\ coeffDoubled' \in BOOLEAN
  <2>1. (mDigit > 20) \in BOOLEAN
    OBVIOUS
  <2>2. isLdu' = (IF mux = 3 THEN mDigit > 20 ELSE isLdu) /\ coeffDoubled' = coeffDoubled
    BY Zenon DEF ReadTesla
  <2> QED
    BY <2>1, <2>2, TemperatureUnfolded, Zenon
<1>8. hsHottest' \in Int
  BY <1>1, <1>2, HotterType, TemperatureUnfolded DEF ReadTesla, Witness
<1>9. mHottest' \in Int
  <2>1. ASSUME MotorSensorAt(mux) \in DOMAIN sensors
        PROVE  Lookup(mDigit, MotorSensorAt(mux)) \in Int
    BY <2>1, LookupType
  <2> QED
    BY <1>1, <2>1, HotterType, TemperatureUnfolded DEF ReadTesla, Witness
<1> QED
  BY <1>4, <1>5, <1>6, <1>7, <1>8, <1>9

LEMMA LeastOfTwo ==
  ASSUME NEW x \in Nat, NEW y \in Nat
  PROVE  Min({x, y}) \in {x, y} /\ Min({x, y}) <= x /\ Min({x, y}) <= y
<1>1. {x, y} \in SUBSET Nat /\ {x, y} # {}
  OBVIOUS
<1> QED
  BY <1>1, LeastNumber

LEMMA OutputTempsType ==
  ASSUME TemperatureTypeOK, NEW tmphs \in Int, NEW tmpm \in Int, OutputTemps(tmphs, tmpm)
  PROVE  /\ board' \in TempBoards /\ ldu' \in BOOLEAN
         /\ snshs' \in HsSensors /\ snsm' \in MotorSensors /\ pwmfunc' \in Functions
         /\ temphsFiltered' \in Int /\ tempmFiltered' \in Int /\ fan' \in BOOLEAN
         /\ gauge' \in 0 .. MaxOut
<1>1. temphsFiltered' \in Int /\ tempmFiltered' \in Int
  BY TemperatureUnfolded DEF OutputTemps, IirFilterF
<1>2. fan' \in BOOLEAN
  <2>1. fan' = (\/ temphsFiltered' > FanThresh * TempScale
                \/ fan /\ temphsFiltered' >= (FanThresh - 5) * TempScale)
    BY Zenon DEF OutputTemps, SwitchFan
  <2> QED
    BY <2>1, Zenon
<1>3. gauge' \in 0 .. MaxOut
  <2>1. TmpOut \in Int
    <3>1. /\ tempmFiltered' \div TempScale \in Int
          /\ temphsFiltered' \div TempScale \in Int
          /\ PwmOfs \in Int
      BY <1>1, TempMeasAssumption, TemperatureAssumption
    <3>2. pwmfunc \in {"tmpm", "tmphs", "exciter"}
      BY TemperatureAssumption DEF TemperatureTypeOK
    <3> QED
      BY <3>1, <3>2 DEF TmpOut
  <2>2. CASE TmpOut > 0
    <3>1. gauge' = Min({TmpOut, MaxOut})
      BY <2>2 DEF OutputTemps, DriveGauge
    <3> DEFINE out == TmpOut
    <3> HIDE DEF out
    <3>2. out \in Nat /\ MaxOut \in Nat
      BY <2>1, <2>2 DEF out, MaxOut
    <3>3. Min({out, MaxOut}) \in {out, MaxOut} /\ Min({out, MaxOut}) <= MaxOut
      BY <3>2, LeastOfTwo
    <3>4. Min({out, MaxOut}) \in 0 .. MaxOut
      BY <3>2, <3>3
    <3> QED
      BY <3>1, <3>4 DEF out
  <2>3. CASE ~(TmpOut > 0)
    BY <2>3 DEF OutputTemps, DriveGauge, TemperatureTypeOK
  <2> QED
    BY <2>2, <2>3
<1> QED
  BY <1>1, <1>2, <1>3 DEF OutputTemps, tempConfig, TemperatureTypeOK

LEMMA TemperatureTypeInit == TemperatureInit => TemperatureTypeOK
<1> SUFFICES ASSUME TemperatureInit PROVE TemperatureTypeOK
  OBVIOUS
<1>1. Coldest \in Int
  BY TempMeasAssumption DEF Coldest
<1>2. MaxOut \in Nat
  BY DEF MaxOut
<1>3. {isLdu, coeffDoubled, fan} \subseteq BOOLEAN /\ ldu \in BOOLEAN
  BY Zenon DEF TemperatureInit
<1>4. {temphsFiltered, tempmFiltered, hsHottest, mHottest} \subseteq Int
  BY <1>1 DEF TemperatureInit
<1>5. /\ mux \in 0 .. 3 /\ rounds \in 0 .. 2 /\ gauge \in 0 .. MaxOut
      /\ hsTemps \in [0 .. 2 -> Int] /\ mTemps \in [0 .. 1 -> Int]
  BY <1>2 DEF TemperatureInit
<1>6. board \in TempBoards /\ snshs \in HsSensors /\ snsm \in MotorSensors
      /\ pwmfunc \in Functions
  BY DEF TemperatureInit
<1> QED
  BY <1>3, <1>4, <1>5, <1>6 DEF TemperatureTypeOK

LEMMA TemperatureTypeStep ==
  TemperatureTypeOK /\ [TemperatureNext]_tempVars => TemperatureTypeOK'
<1> SUFFICES ASSUME TemperatureTypeOK, [TemperatureNext]_tempVars PROVE TemperatureTypeOK'
  OBVIOUS
<1>a. ASSUME NEW reading \in TempDigits, NEW id \in HsSensors \cup MotorSensors
      PROVE  Lookup(reading, id) \in Int
  BY LookupType, DigitsAreNumbers, TemperatureAssumption
<1>1. CASE CalcAndOutputTempTesla
  <2>1. PICK hsDigit, mDigit \in TempDigits \cup {0} : ReadTesla(hsDigit, mDigit)
    BY <1>1 DEF CalcAndOutputTempTesla
  <2>2. /\ mux' \in 0 .. 3 /\ hsTemps' \in [0 .. 2 -> Int] /\ mTemps' \in [0 .. 1 -> Int]
        /\ isLdu' \in BOOLEAN /\ coeffDoubled' \in BOOLEAN
        /\ hsHottest' \in Int /\ mHottest' \in Int /\ rounds' \in 0 .. 2
    BY <2>1, ReadTeslaType, DigitsAreNumbers
  <2>3. TeslaTmphs \in Int
    <3>1. ASSUME mux = 2
          PROVE  hsTemps'[0] \in Int /\ hsTemps'[1] \in Int /\ hsTemps'[2] \in Int
      BY <2>2
    <3> QED
      BY <3>1, HotterType, TemperatureUnfolded DEF TeslaTmphs
  <2>4. TeslaTmpm \in Int
    BY <2>2, HotterType, TemperatureUnfolded DEF TeslaTmpm
  <2>5. OutputTemps(TeslaTmphs, TeslaTmpm)
    BY <1>1 DEF CalcAndOutputTempTesla
  <2> HIDE DEF TeslaTmphs, TeslaTmpm
  <2> QED
    BY <2>2, <2>3, <2>4, <2>5, OutputTempsType DEF TemperatureTypeOK
<1>2. CASE CalcAndOutputTempPrius
  <2>1. PICK hsDigit, mDigit \in TempDigits :
          /\ coeffDoubled' = (coeffDoubled \/ hsDigit > 3200)
          /\ OutputTemps(PriusTmphs(hsDigit), Lookup(mDigit, snsm))
    BY <1>2 DEF CalcAndOutputTempPrius
  <2>2. coeffDoubled' \in BOOLEAN
    <3>1. coeffDoubled' = (coeffDoubled \/ hsDigit > 3200)
      BY <2>1
    <3> QED
      BY <3>1, SMT
  <2>3. PriusTmphs(hsDigit) \in Int
    BY DigitsAreNumbers, TempMeasAssumption DEF PriusTmphs
  <2>4. Lookup(mDigit, snsm) \in Int
    BY <1>a DEF TemperatureTypeOK
  <2> QED
    BY <1>2, <2>1, <2>2, <2>3, <2>4, OutputTempsType, TemperatureUnfolded
       DEF CalcAndOutputTempPrius, tesla, TemperatureTypeOK
<1>3. CASE CalcAndOutputTempOther
  <2>1. PICK hsDigits \in SUBSET TempDigits, mDigit \in TempDigits :
          /\ Cardinality(hsDigits) \in IF snshs = "BMWI3HS" THEN 1 .. 3 ELSE {1}
          /\ OutputTemps(Lookup(Min(hsDigits), snshs), Lookup(mDigit, snsm))
    BY <1>3 DEF CalcAndOutputTempOther
  <2>2. hsDigits # {}
    BY <2>1, FS_EmptySet
  <2>3. Min(hsDigits) \in TempDigits
    BY <2>2, LeastNumber, DigitsAreNumbers
  <2>4. Lookup(Min(hsDigits), snshs) \in Int /\ Lookup(mDigit, snsm) \in Int
    BY <1>a, <2>3 DEF TemperatureTypeOK
  <2> QED
    BY <1>3, <2>1, <2>4, OutputTempsType, TemperatureUnfolded
       DEF CalcAndOutputTempOther, tesla, TemperatureTypeOK
<1>4. CASE UNCHANGED tempVars
  BY <1>4 DEF tempVars, tempConfig, tesla, filtered, TemperatureTypeOK
<1> QED
  BY <1>1, <1>2, <1>3, <1>4 DEF TemperatureNext

\* The hottest heat sink sensor of the round is that of the slots read in it so far.
HeatSinkSeen ==
  /\ mux = 1 => hsHottest = hsTemps[0]
  /\ mux = 2 => hsHottest = Hotter(hsTemps[0], hsTemps[1])
  /\ mux = 3 \/ (mux = 0 /\ rounds # 0)
       => hsHottest = Hotter(hsTemps[0], Hotter(hsTemps[1], hsTemps[2]))

\* A large unit has found out what it is by the end of its first round, so that
\* its two stator sensors are read in the last two positions.
StatorSeen ==
  ldu => /\ rounds # 0 => isLdu
         /\ mux \in {1, 2} => mHottest = Coldest
         /\ mux = 3 /\ isLdu => mHottest = mTemps[0]
         /\ mux = 0 /\ rounds = 2 => mHottest = Hotter(mTemps[0], mTemps[1])

\* A small unit never takes itself for a large one: the grounded input settles it.
MotorSeen ==
  ~ldu => /\ ~isLdu
          /\ mux = 1 => mHottest = Coldest
          /\ mux = 2 => mHottest = mTemps[0]
          /\ mux = 3 \/ (mux = 0 /\ rounds # 0) => mHottest = Hotter(mTemps[0], mTemps[1])

RoundInv == TemperatureTypeOK /\ HeatSinkSeen /\ StatorSeen /\ MotorSeen

LEMMA RoundInit == TemperatureInit => RoundInv
<1> SUFFICES ASSUME TemperatureInit PROVE RoundInv
  OBVIOUS
<1>1. mux = 0 /\ rounds = 0 /\ ~isLdu
  BY DEF TemperatureInit
<1> QED
  BY <1>1, TemperatureTypeInit DEF RoundInv, HeatSinkSeen, StatorSeen, MotorSeen

LEMMA HottestOfThree ==
  ASSUME NEW x \in Int, NEW y \in Int, NEW z \in Int
  PROVE  Hotter(Hotter(x, y), z) = Hotter(x, Hotter(y, z))
BY DEF Hotter

LEMMA HeatSinkStep ==
  ASSUME TemperatureTypeOK, HeatSinkSeen, NEW hsDigit \in Nat, NEW mDigit \in Nat,
         ReadTesla(hsDigit, mDigit)
  PROVE  HeatSinkSeen'
<1> DEFINE reading == Lookup(hsDigit, "TESLA_52K")
<1>1. reading \in Int /\ Coldest \in Int /\ Coldest <= reading
  BY TeslaReads, TempMeasAssumption DEF Coldest
<1>2. /\ hsTemps' = IF mux = 3 THEN hsTemps ELSE [hsTemps EXCEPT ![mux] = reading]
      /\ hsHottest' = IF mux = 3 THEN hsHottest
                      ELSE Hotter(IF mux = 0 THEN Coldest ELSE hsHottest, reading)
      /\ mux' = (mux + 1) % 4
  BY Zenon DEF ReadTesla, Witness
<1> HIDE DEF reading
<1>3. mux \in 0 .. 3 /\ hsTemps \in [0 .. 2 -> Int]
  BY DEF TemperatureTypeOK
<1>4. CASE mux = 0
  <2>1. mux' = 1 /\ hsTemps'[0] = reading /\ hsHottest' = Hotter(Coldest, reading)
    BY <1>2, <1>3, <1>4
  <2> QED
    BY <2>1, <1>1 DEF HeatSinkSeen, Hotter
<1>5. CASE mux = 1
  <2>1. mux' = 2 /\ hsTemps'[0] = hsTemps[0] /\ hsTemps'[1] = reading
        /\ hsHottest' = Hotter(hsTemps[0], reading)
    BY <1>2, <1>3, <1>5 DEF HeatSinkSeen
  <2> QED
    BY <2>1 DEF HeatSinkSeen
<1>6. CASE mux = 2
  <2>1. mux' = 3 /\ hsTemps'[0] = hsTemps[0] /\ hsTemps'[1] = hsTemps[1] /\ hsTemps'[2] = reading
        /\ hsHottest' = Hotter(Hotter(hsTemps[0], hsTemps[1]), reading)
    BY <1>2, <1>3, <1>6 DEF HeatSinkSeen
  <2>2. hsTemps[0] \in Int /\ hsTemps[1] \in Int
    BY <1>3
  <2>3. hsHottest' = Hotter(hsTemps[0], Hotter(hsTemps[1], reading))
    BY <1>1, <2>1, <2>2, HottestOfThree
  <2> QED
    BY <2>1, <2>3 DEF HeatSinkSeen
<1>7. CASE mux = 3
  <2>1. mux' = 0 /\ hsTemps' = hsTemps /\ hsHottest' = hsHottest
    BY <1>2, <1>3, <1>7
  <2> QED
    BY <2>1, <1>7 DEF HeatSinkSeen
<1> QED
  BY <1>3, <1>4, <1>5, <1>6, <1>7

\* Neither the fluid nor ground is a sensor of the motor's temperature.
LEMMA WiredSensors ==
  /\ "fluid" \notin DOMAIN sensors
  /\ "GND" \notin DOMAIN sensors
  /\ "TESLA_100K" \in DOMAIN sensors
  /\ "TESLA_10K" \in DOMAIN sensors
<1>1. "fluid" \notin DOMAIN sensors /\ "GND" \notin DOMAIN sensors
  BY DEF sensors
<1>2. "TESLA_100K" \in DOMAIN sensors /\ "TESLA_10K" \in DOMAIN sensors
  BY DEF sensors
<1> QED
  BY <1>1, <1>2

LEMMA StatorStep ==
  ASSUME TemperatureTypeOK, StatorSeen, ldu, NEW hsDigit \in Nat, NEW mDigit \in Nat,
         ReadTesla(hsDigit, mDigit), ldu' = ldu
  PROVE  StatorSeen'
<1> DEFINE reading == Lookup(mDigit, "TESLA_100K")
           other == Lookup(mDigit, "TESLA_10K")
<1>1. reading \in Int /\ other \in Int /\ Coldest \in Int /\ Coldest <= reading
  BY TeslaReads, TempMeasAssumption DEF Coldest
<1>2. /\ mux' = (mux + 1) % 4
      /\ isLdu' = IF mux = 3 THEN mDigit > 20 ELSE isLdu
      /\ rounds' = IF mux < 3 THEN rounds
                   ELSE IF ldu /\ mDigit <= 20 THEN 0
                   ELSE IF rounds < 2 THEN rounds + 1 ELSE 2
  BY Zenon DEF ReadTesla, Witness
<1>3. mux \in 0 .. 3 /\ mTemps \in [0 .. 1 -> Int] /\ rounds \in 0 .. 2
  BY DEF TemperatureTypeOK
<1>4. /\ mux \in {2, 3} => mHottest' = Hotter(mHottest, reading)
      /\ mux = 1 => mHottest' = mHottest
      /\ mux = 0 => mHottest' = Coldest
  BY WiredSensors, <1>3 DEF ReadTesla, Witness, MotorSensorAt
<1>5. /\ mux = 2 /\ isLdu => mTemps' = [mTemps EXCEPT ![0] = reading]
      /\ mux = 3 /\ isLdu' => mTemps' = [mTemps EXCEPT ![1] = reading]
  BY DEF ReadTesla, ReadMotor
<1> HIDE DEF reading, other
<1>6. CASE mux = 0
  <2>1. mux' = 1 /\ rounds' = rounds /\ isLdu' = isLdu /\ mHottest' = Coldest
    BY <1>2, <1>4, <1>6
  <2> QED
    BY <2>1 DEF StatorSeen
<1>7. CASE mux = 1
  <2>1. mux' = 2 /\ rounds' = rounds /\ isLdu' = isLdu /\ mHottest' = mHottest
    BY <1>2, <1>4, <1>7
  <2> QED
    BY <2>1, <1>7 DEF StatorSeen
<1>8. CASE mux = 2
  <2>1. mux' = 3 /\ rounds' = rounds /\ isLdu' = isLdu /\ mHottest' = Hotter(Coldest, reading)
    BY <1>2, <1>4, <1>8 DEF StatorSeen
  <2>2. isLdu => mTemps'[0] = reading
    BY <1>3, <1>5, <1>8
  <2>3. Hotter(Coldest, reading) = reading
    BY <1>1 DEF Hotter
  <2> QED
    BY <2>1, <2>2, <2>3 DEF StatorSeen
<1>9. CASE mux = 3
  <2>1. mux' = 0
    BY <1>2, <1>9
  <2>2. rounds' # 0 => mDigit > 20
    BY <1>2, <1>9
  <2>3. isLdu' <=> mDigit > 20
    BY <1>2, <1>9, Zenon
  <2>4. ASSUME rounds' = 2
        PROVE  mHottest' = Hotter(mTemps'[0], mTemps'[1])
    <3>1. isLdu' /\ rounds # 0
      BY <2>2, <2>3, <2>4, <1>2, <1>3, <1>9
    <3>2. mHottest = mTemps[0]
      BY <3>1, <1>9 DEF StatorSeen
    <3>3. mTemps'[0] = mTemps[0] /\ mTemps'[1] = reading
      BY <3>1, <1>3, <1>5, <1>9
    <3> QED
      BY <3>2, <3>3, <1>4, <1>9
  <2> QED
    BY <2>1, <2>2, <2>3, <2>4 DEF StatorSeen
<1> QED
  BY <1>3, <1>6, <1>7, <1>8, <1>9

LEMMA MotorStep ==
  ASSUME TemperatureTypeOK, MotorSeen, ~ldu, NEW hsDigit \in Nat, NEW mDigit \in Nat,
         MotorSensorAt(mux) = "GND" => mDigit = 0,
         ReadTesla(hsDigit, mDigit), ldu' = ldu
  PROVE  MotorSeen'
<1> DEFINE first == Lookup(mDigit, "TESLA_100K")
           second == Lookup(mDigit, "TESLA_10K")
<1>1. first \in Int /\ second \in Int /\ Coldest \in Int /\ Coldest <= first
  BY TeslaReads, TempMeasAssumption DEF Coldest
<1>2. /\ mux' = (mux + 1) % 4
      /\ isLdu' = IF mux = 3 THEN mDigit > 20 ELSE isLdu
      /\ rounds' = IF mux < 3 THEN rounds
                   ELSE IF ldu /\ mDigit <= 20 THEN 0
                   ELSE IF rounds < 2 THEN rounds + 1 ELSE 2
  BY Zenon DEF ReadTesla, Witness
<1>3. mux \in 0 .. 3 /\ mTemps \in [0 .. 1 -> Int] /\ rounds \in 0 .. 2
  BY DEF TemperatureTypeOK
<1>4. /\ mux = 0 => mHottest' = Coldest
      /\ mux = 1 => mHottest' = Hotter(mHottest, first)
      /\ mux = 2 => mHottest' = Hotter(mHottest, second)
      /\ mux = 3 => mHottest' = mHottest
  BY WiredSensors, <1>3 DEF ReadTesla, Witness, MotorSensorAt
<1>5. ~isLdu /\ ~isLdu'
  <2>1. mux = 3 => mDigit = 0
    BY DEF MotorSensorAt
  <2>2. ~isLdu
    BY DEF MotorSeen
  <2>3. isLdu' <=> IF mux = 3 THEN mDigit > 20 ELSE isLdu
    BY <1>2, Zenon
  <2> QED
    BY <2>1, <2>2, <2>3
<1>6. /\ mux = 1 => mTemps' = [mTemps EXCEPT ![0] = first]
      /\ mux = 2 => mTemps' = [mTemps EXCEPT ![1] = second]
      /\ mux = 3 => mTemps' = mTemps
  BY <1>5 DEF ReadTesla, ReadMotor
<1> HIDE DEF first, second
<1>7. CASE mux = 0
  <2>1. mux' = 1 /\ mHottest' = Coldest
    BY <1>2, <1>4, <1>7
  <2> QED
    BY <2>1, <1>5 DEF MotorSeen
<1>8. CASE mux = 1
  <2>1. mux' = 2 /\ mHottest' = Hotter(Coldest, first)
    BY <1>2, <1>4, <1>8 DEF MotorSeen
  <2>2. mTemps'[0] = first /\ Hotter(Coldest, first) = first
    BY <1>1, <1>3, <1>6, <1>8 DEF Hotter
  <2> QED
    BY <2>1, <2>2, <1>5 DEF MotorSeen
<1>9. CASE mux = 2
  <2>1. mux' = 3 /\ mHottest' = Hotter(mTemps[0], second)
    BY <1>2, <1>4, <1>9 DEF MotorSeen
  <2>2. mTemps'[0] = mTemps[0] /\ mTemps'[1] = second
    BY <1>3, <1>6, <1>9
  <2> QED
    BY <2>1, <2>2, <1>5 DEF MotorSeen
<1>10. CASE mux = 3
  <2>1. mux' = 0 /\ mHottest' = mHottest /\ mTemps' = mTemps
    BY <1>2, <1>4, <1>6, <1>10
  <2> QED
    BY <2>1, <1>5, <1>10 DEF MotorSeen
<1> QED
  BY <1>3, <1>7, <1>8, <1>9, <1>10

LEMMA RoundStep == RoundInv /\ [TemperatureNext]_tempVars => RoundInv'
<1> SUFFICES ASSUME RoundInv, [TemperatureNext]_tempVars PROVE RoundInv'
  OBVIOUS
<1>1. TemperatureTypeOK /\ TemperatureTypeOK'
  BY TemperatureTypeStep DEF RoundInv
<1>2. CASE CalcAndOutputTempTesla
  <2>1. PICK hsDigit, mDigit \in TempDigits \cup {0} :
          (MotorSensorAt(mux) = "GND" => mDigit = 0) /\ ReadTesla(hsDigit, mDigit)
    BY <1>2 DEF CalcAndOutputTempTesla
  <2>2. ldu' = ldu
    BY <1>2 DEF CalcAndOutputTempTesla, OutputTemps, tempConfig
  <2>3. hsDigit \in Nat /\ mDigit \in Nat
    BY DigitsAreNumbers
  <2>4. HeatSinkSeen'
    BY <1>1, <2>1, <2>3, HeatSinkStep DEF RoundInv
  <2>5. StatorSeen'
    BY <1>1, <2>1, <2>2, <2>3, StatorStep DEF RoundInv, StatorSeen
  <2>6. MotorSeen'
    BY <1>1, <2>1, <2>2, <2>3, MotorStep DEF RoundInv, MotorSeen
  <2> QED
    BY <1>1, <2>4, <2>5, <2>6 DEF RoundInv
<1>3. CASE UNCHANGED <<ldu, tesla>>
  BY <1>1, <1>3 DEF tesla, RoundInv, HeatSinkSeen, StatorSeen, MotorSeen
<1>4. CASE CalcAndOutputTempPrius \/ CalcAndOutputTempOther
  BY <1>3, <1>4 DEF CalcAndOutputTempPrius, CalcAndOutputTempOther, OutputTemps, tempConfig
<1>5. CASE UNCHANGED tempVars
  BY <1>3, <1>5 DEF tempVars, tempConfig
<1> QED
  BY <1>2, <1>4, <1>5 DEF TemperatureNext

\* Filters, gauge and slots stay in their ranges.
THEOREM TemperatureIsTyped == TemperatureSpec => []TemperatureTypeOK
BY TemperatureTypeInit, TemperatureTypeStep, PTL DEF TemperatureSpec

\* For every set of readings, the motor and the heat sink are judged by their own
\* sensors of this round, on either drive unit.
THEOREM OwnSensorsAlwaysCount == TemperatureSpec => []OwnSensorsCount
<1>1. RoundInv => OwnSensorsCount
  <2> SUFFICES ASSUME RoundInv, mux = 0, rounds = 2
               PROVE  /\ Hotter(mTemps[0], mTemps[1]) = mHottest
                      /\ Hotter(hsTemps[0], Hotter(hsTemps[1], hsTemps[2])) = hsHottest
    BY DEF OwnSensorsCount
  <2>1. ldu \in BOOLEAN
    BY DEF RoundInv, TemperatureTypeOK
  <2> QED
    BY <2>1 DEF RoundInv, HeatSinkSeen, StatorSeen, MotorSeen
<1> QED
  BY <1>1, RoundInit, RoundStep, PTL DEF TemperatureSpec
=============================================================================
