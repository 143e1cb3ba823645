------------------------------ MODULE Encoder -------------------------------
(***************************************************************************)
(* The rotor position feedback (inc_encoder.cpp) for the sensors that give *)
(* an absolute angle (SPI, RESOLVER, SINCOS) and for the quadrature timer  *)
(* (AB). The PWM interrupt samples the angle and adds the difference to an *)
(* accumulator that the lower-priority 10 ms task drains, turning it into  *)
(* a distance and a frequency. Left out are the SINGLE mode, which keeps   *)
(* neither; ABZ, whose index pulse zeroes the timer between two samples,   *)
(* so that movement is not conserved; and changes of encmode and numimp at *)
(* run time, which start the timer anew.                                   *)
(***************************************************************************)
EXTENDS Integers

CONSTANTS
  HalfTurn,          \* half an electrical turn (32768)
  MaxStep,           \* the furthest the rotor moves between two samples
  StableAngle,       \* movement per task period below which direction is jitter
  StartupDelay,      \* samples without a frequency after a reset (4000)
  PolePairs,         \* respolepairs: electrical turns per turn of the rotor
  CallingFrequency,  \* runs of the task per second (100)
  HzUnit,            \* TWO_PI in the units of the frequency (2048)
  EncModes,          \* the modes encmode may select at boot
  MaxBacklog,        \* bound: samples between two runs of the task
  MaxTravel,         \* bound: distance from the origin, either way
  MaxFullTurns       \* bound: turns counted

AngleModes == {"SPI", "RESOLVER", "SINCOS"}
CounterModes == {"AB"}

ASSUME EncoderAssumption ==
  /\ HalfTurn \in Nat \ {0}
  /\ MaxStep \in Nat /\ MaxStep < HalfTurn
  /\ StableAngle \in Nat
  /\ StartupDelay \in Nat
  /\ PolePairs \in Nat \ {0}
  /\ CallingFrequency \in Nat \ {0}
  /\ HzUnit \in Nat \ {0}
  /\ EncModes \subseteq AngleModes \cup CounterModes
  /\ MaxBacklog \in Nat
  /\ MaxTravel \in Nat
  /\ MaxFullTurns \in Nat

TwoPi == 2 * HalfTurn

VARIABLES
  encMode,
  angle,                 \* angle, and lastAngle between two interrupts
  turnsSinceLastSample, distance,
  lastFrequency, detectedDirection,
  startupDelay,
  poleCounter, fullTurns,
  pc, turns,             \* UpdateRotorFrequency: where it is, its local copy
  travel,                \* history: the rotor's true position
  moved, window, driven, \* history: true movement since the last drain, between
                         \* the last two drains, and drained since the last
                         \* ResetDistance
  backlog, sinceReset    \* history: samples since the last drain and, up to
                         \* StartupDelay, since the last EncoderReset

accumulation == <<turnsSinceLastSample, distance, turns>>
speed == <<lastFrequency, detectedDirection>>
counters == <<poleCounter, fullTurns>>
history == <<travel, moved, window, driven, backlog, sinceReset>>
encoderVars == <<encMode, angle, accumulation, speed, startupDelay, counters, pc, history>>

EncoderTypeOK ==
  /\ encMode \in EncModes
  /\ angle \in 0 .. TwoPi - 1
  /\ {turnsSinceLastSample, distance, turns} \subseteq Int
  /\ lastFrequency \in Nat
  /\ detectedDirection \in {-1, 0, 1}
  /\ startupDelay \in 0 .. StartupDelay
  /\ poleCounter \in 0 .. PolePairs
  /\ fullTurns \in Nat
  /\ pc \in {"idle", "drained"}
  /\ {travel, moved, window, driven} \subseteq Int
  /\ backlog \in Nat
  /\ sinceReset \in 0 .. StartupDelay

EncoderInit ==
  /\ encMode \in EncModes
  /\ angle = 0
  /\ turnsSinceLastSample = 0
  /\ distance = 0
  /\ lastFrequency = 0
  /\ detectedDirection = 0
  /\ startupDelay = 0
  /\ poleCounter = 0
  /\ fullTurns = 0
  /\ pc = "idle"
  /\ turns = 0
  /\ travel = 0
  /\ moved = 0
  /\ window = 0
  /\ driven = 0
  /\ backlog = 0
  /\ sinceReset = StartupDelay

-----------------------------------------------------------------------------
(* Angles.                                                                 *)

Magnitude(n) == IF n < 0 THEN -n ELSE n

Sign(n) == IF n < 0 THEN -1 ELSE 1

\* A sum or difference of two angles, stored in 16 bits.
Wrap(a) ==
  IF a < 0 THEN a + TwoPi ELSE IF a >= TwoPi THEN a - TwoPi ELSE a

\* The signed movement between two samples: the shorter way round.
UpdateTurns(new, last) ==
  LET signedDiff == new - last
  IN IF Magnitude(signedDiff) > HalfTurn
     THEN signedDiff - Sign(signedDiff) * TwoPi
     ELSE signedDiff

\* What the timer counted, taken in the direction of its last count.
CountedTurns(new, last, direction) == Wrap(direction * (new - last))

-----------------------------------------------------------------------------
(* The PWM interrupt.                                                      *)

\* fullTurns is advanced on crossing half a turn, through poleCounter.
CountFullTurn(last) ==
  IF last <= HalfTurn /\ angle' > HalfTurn
  THEN IF poleCounter = 0
       THEN /\ fullTurns' = fullTurns + 1
            /\ poleCounter' = PolePairs
       ELSE /\ poleCounter' = poleCounter - 1
            /\ UNCHANGED fullTurns
  ELSE UNCHANGED counters

CountDown_Unguarded == startupDelay' = startupDelay - 1

CountDown == startupDelay' = IF startupDelay > 0 THEN startupDelay - 1 ELSE 0

\* The rotor has moved by step since the last sample.
Moves(step) ==
  /\ backlog < MaxBacklog
  /\ fullTurns < MaxFullTurns
  /\ Magnitude(distance) <= MaxTravel
  /\ Magnitude(travel + step) <= MaxTravel
  /\ angle' = Wrap(angle + step)
  /\ travel' = travel + step
  /\ backlog' = backlog + 1
  /\ sinceReset' = IF sinceReset < StartupDelay THEN sinceReset + 1 ELSE sinceReset
  /\ UNCHANGED <<window, driven>>

\* UpdateRotorAngle for a sensor that gives an angle.
SampleAngle ==
  /\ encMode \in AngleModes
  /\ \E step \in -MaxStep .. MaxStep :
       /\ Moves(step)
       /\ moved' = moved + step
  /\ turnsSinceLastSample' = turnsSinceLastSample + UpdateTurns(angle', angle)
  /\ CountFullTurn(angle)
  /\ CountDown
  /\ UNCHANGED <<encMode, distance, turns, speed, pc>>

\* UpdateRotorAngle for the quadrature timer. The direction bit tells of the last
\* count only: a shaft that turned back since the last sample contradicts it.
SampleCounter ==
  /\ encMode \in CounterModes
  /\ detectedDirection' \in {-1, 1}
  /\ \E step \in -MaxStep .. MaxStep :
       /\ Moves(step)
       /\ moved' = moved + detectedDirection' * step
  /\ turnsSinceLastSample' =
       turnsSinceLastSample + CountedTurns(angle', angle, detectedDirection')
  /\ CountFullTurn(angle)
  /\ CountDown
  /\ UNCHANGED <<encMode, distance, turns, lastFrequency, pc>>

-----------------------------------------------------------------------------
(* The 10 ms task.                                                         *)

\* The accumulator read, and only then cleared.
Drain_ReadThenClear ==
  \/ /\ pc = "idle"
     /\ pc' = "read"
     /\ turns' = turnsSinceLastSample
     /\ window' = moved
     /\ moved' = 0
     /\ driven' = driven + moved
     /\ backlog' = 0
     /\ UNCHANGED turnsSinceLastSample
     /\ UNCHANGED <<encMode, angle, distance, speed, startupDelay, counters, travel, sinceReset>>
  \/ /\ pc = "read"
     /\ pc' = "drained"
     /\ turnsSinceLastSample' = 0
     /\ UNCHANGED <<encMode, angle, distance, turns, speed, startupDelay, counters, history>>

\* Copy and subtract, with interrupts disabled.
Drain ==
  /\ pc = "idle"
  /\ pc' = "drained"
  /\ turns' = turnsSinceLastSample
  /\ turnsSinceLastSample' = turnsSinceLastSample - turns'
  /\ window' = moved
  /\ moved' = 0
  /\ driven' = driven + moved
  /\ backlog' = 0
  /\ UNCHANGED <<encMode, angle, distance, speed, startupDelay, counters, travel, sinceReset>>

Hz(t) == (CallingFrequency * t) \div HzUnit

MeasureAngle_OldDirection ==
  IF startupDelay = 0 /\ Magnitude(turns) > StableAngle
  THEN /\ lastFrequency' = Hz(Magnitude(turns))
       /\ detectedDirection' =
            IF detectedDirection # 0 THEN detectedDirection ELSE IF turns > 0 THEN 1 ELSE -1
  ELSE /\ lastFrequency' = 0
       /\ UNCHANGED detectedDirection

\* Frequency and direction from an angle sensor: none before it has settled, none
\* from jitter.
MeasureAngle ==
  IF startupDelay = 0 /\ Magnitude(turns) > StableAngle
  THEN /\ lastFrequency' = Hz(Magnitude(turns))
       /\ detectedDirection' = IF turns > 0 THEN 1 ELSE -1
  ELSE /\ lastFrequency' = 0
       /\ UNCHANGED detectedDirection

\* The rest of UpdateRotorFrequency.
Measure ==
  /\ pc = "drained"
  /\ pc' = "idle"
  /\ distance' = distance + turns
  /\ \/ encMode \in AngleModes /\ MeasureAngle
     \/ encMode \in CounterModes /\ lastFrequency' = Hz(turns) /\ UNCHANGED detectedDirection
  /\ UNCHANGED <<encMode, angle, turnsSinceLastSample, turns, startupDelay, counters, history>>

\* The task starts PWM. Neither the accumulator nor the old angle is reset.
EncoderReset ==
  /\ pc = "idle"
  /\ lastFrequency' = 0
  /\ detectedDirection' = 0
  /\ startupDelay' = StartupDelay
  /\ sinceReset' = 0
  /\ UNCHANGED <<encMode, angle, accumulation, counters, pc, travel, moved, window, driven, backlog>>

\* Hill hold arms in the task.
ResetDistance ==
  /\ pc = "idle"
  /\ distance' = 0
  /\ driven' = 0
  /\ UNCHANGED <<encMode, angle, turnsSinceLastSample, turns, speed, startupDelay, counters, pc>>
  /\ UNCHANGED <<travel, moved, window, backlog, sinceReset>>

EncoderNext ==
  \/ SampleAngle
  \/ SampleCounter
  \/ Drain
  \/ Measure
  \/ EncoderReset
  \/ ResetDistance

EncoderSpec == EncoderInit /\ [][EncoderNext]_encoderVars

-----------------------------------------------------------------------------

\* No movement is lost between the interrupt that accumulates it and the task
\* that drains it, however they interleave ("a plain read-then-assign-0 can lose
\* an increment"): the accumulator holds what the rotor moved since the last
\* drain, the distance what was drained since it was reset. The timer's count may
\* exceed the movement by a whole turn for each sample, never by anything else.
NoMovementLost ==
  /\ encMode \in AngleModes =>
       /\ turnsSinceLastSample = moved
       /\ pc = "idle" => distance = driven
  /\ encMode \in CounterModes =>
       \E k \in 0 .. backlog : turnsSinceLastSample = moved + k * TwoPi

\* A frequency reported from an angle sensor is that of the rotor's movement over
\* the last task period, in the direction it took.
FrequencyIsTrue ==
  encMode \in AngleModes /\ pc = "idle" /\ lastFrequency # 0
    => /\ lastFrequency = Hz(Magnitude(window))
       /\ detectedDirection = Sign(window)

\* After a reset an angle sensor reports no frequency until the resolver's
\* amplitude had StartupDelay samples to settle.
QuietAfterReset ==
  encMode \in AngleModes /\ sinceReset < StartupDelay => lastFrequency = 0
=============================================================================
