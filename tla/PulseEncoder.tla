---------------------------- MODULE PulseEncoder ----------------------------
(***************************************************************************)
(* The rotor position from one channel of pulses (SINGLE mode of           *)
(* inc_encoder.cpp). On each pulse the hardware stores the timer's count   *)
(* in a ring of captures and restarts the timer; the PWM interrupt tells   *)
(* from the place in the ring how many pulses have come, and from the      *)
(* timer how far the rotor may have gone since the last.                   *)
(*                                                                         *)
(* The direction is that of the selector, the sensor has none. Init is the *)
(* state after the Reset every start makes before the interrupt runs.      *)
(***************************************************************************)
EXTENDS Integers, Functions, FiniteSets

CONSTANTS
  MaxRevCnt,   \* captures in the ring: MAX_REVCNT_VALUES (5)
  StopAfter,   \* interrupts without a pulse after which the motor stands (1000)
  TimerTurn,   \* both the digits of a turn and the period of the timer (65536)
  Impulses,    \* values of numimp
  Directions,  \* values of seldir; the FOC variant passes 0
  PulseFreq    \* counts of the timer per second, in the frequency's unit

ASSUME PulseAssumption ==
  /\ MaxRevCnt \in Nat \ {0}
  /\ StopAfter \in Nat
  /\ TimerTurn \in Nat \ {0, 1}
  /\ Impulses \subseteq Nat \ {0}
  /\ \A imp \in Impulses : TimerTurn % imp = 0
  /\ Directions \subseteq {-1, 0, 1}
  /\ PulseFreq \in Nat

VARIABLES
  timer, timdata, slot, capture, \* hardware: the timer, the ring, the next place
                                 \* in it, the last capture
  pulsesPerTurn,
  lastN, noMovement,             \* statics of GetPulseTimeFiltered
  ignore, lastPulseTimespan,
  accumulatedAngle, interpolated, pulseFrequency,
                                 \* the static angle is the sum of the first two,
                                 \* pulseFrequency is lastFrequency
  passed, rearmed,               \* history: pulses since the last interrupt, was
                                 \* the ring set up anew since then
  trueAngle, silent              \* history: where the rotor is by its pulses, and
                                 \* interrupts without a pulse, up to StopAfter + 1

MaxCnt == TimerTurn - 1

RingSlots == 0 .. MaxRevCnt - 1

hardware == <<timer, timdata, slot, capture>>
filter == <<lastN, noMovement, ignore, lastPulseTimespan>>
pulseAngle == <<accumulatedAngle, interpolated, pulseFrequency>>
pulseHistory == <<passed, rearmed, trueAngle, silent>>
pulseVars == <<hardware, pulsesPerTurn, filter, pulseAngle, pulseHistory>>

PulseTypeOK ==
  /\ timer \in 0 .. MaxCnt
  /\ timdata \in [RingSlots -> 0 .. MaxCnt]
  /\ slot \in RingSlots
  /\ capture \in 0 .. MaxCnt
  /\ pulsesPerTurn \in Impulses
  /\ lastN \in 1 .. MaxRevCnt
  /\ {noMovement, silent} \subseteq 0 .. StopAfter + 1
  /\ {ignore, rearmed} \subseteq BOOLEAN
  /\ lastPulseTimespan \in 1 .. TimerTurn
  /\ {accumulatedAngle, trueAngle} \subseteq 0 .. TimerTurn - 1
  /\ interpolated \in -TimerTurn .. TimerTurn
  /\ pulseFrequency \in Nat
  /\ passed \in 0 .. MaxRevCnt - 1

PulseInit ==
  /\ timer = 0
  /\ timdata = [i \in RingSlots |-> MaxCnt]
  /\ slot = 0
  /\ capture = 0
  /\ pulsesPerTurn \in Impulses
  /\ lastN = MaxRevCnt
  /\ noMovement = 0
  /\ ignore = TRUE
  /\ lastPulseTimespan = MaxCnt
  /\ accumulatedAngle = 0
  /\ interpolated = 0
  /\ pulseFrequency = 0
  /\ passed = 0
  /\ rearmed = FALSE
  /\ trueAngle = 0
  /\ silent = 0

AnglePerPulse == TimerTurn \div pulsesPerTurn

-----------------------------------------------------------------------------
(* The hardware.                                                           *)

TimerCounts ==
  /\ timer' = (timer + 1) % TimerTurn
  /\ UNCHANGED <<timdata, slot, capture, pulsesPerTurn, filter, pulseAngle, pulseHistory>>

\* A pulse: the count is captured, stored by DMA, and the timer restarts. The ring
\* must not come round between two interrupts: that is the motor's top speed.
Pulse ==
  /\ passed < MaxRevCnt - 1
  /\ timdata' = [timdata EXCEPT ![slot] = timer]
  /\ capture' = timer
  /\ slot' = (slot + 1) % MaxRevCnt
  /\ timer' = 0
  /\ passed' = passed + 1
  /\ UNCHANGED <<pulsesPerTurn, filter, pulseAngle, rearmed, trueAngle, silent>>

\* What the DMA controller has left to write until it begins again.
NumberOfData == MaxRevCnt - slot

\* SetImpulsesPerTurn with a new value: InitTimerSingleChannelMode. lastN stays.
SetImpulsesPerTurn ==
  /\ pulsesPerTurn' \in Impulses \ {pulsesPerTurn}
  /\ timer' = 0
  /\ capture' = 0
  /\ slot' = 0
  /\ rearmed' = TRUE
  /\ UNCHANGED <<timdata, filter, pulseAngle, passed, trueAngle, silent>>

-----------------------------------------------------------------------------
(* The PWM interrupt: UpdateRotorAngle.                                    *)

Counted_NoWrap == IF NumberOfData <= lastN THEN lastN - NumberOfData ELSE MaxRevCnt - NumberOfData

\* Pulses since the last interrupt, by the place in the ring.
Counted ==
  IF NumberOfData <= lastN THEN lastN - NumberOfData ELSE lastN + MaxRevCnt - NumberOfData

Longest == CHOOSE t \in Range(timdata) : \A u \in Range(timdata) : u <= t

Shortest == CHOOSE t \in Range(timdata) : \A u \in Range(timdata) : t <= u

\* The time between pulses: the last one's, unless a factor of more than 2 between
\* those in the ring tells of interference; filtered.
MeasureTimespan ==
  lastPulseTimespan' =
    IF Longest > 2 * Shortest THEN lastPulseTimespan
    ELSE (lastPulseTimespan + capture + 1) \div 2

\* From StopAfter + 1 on the count makes no difference.
CountSilence ==
  noMovement' = IF Counted > 0 THEN 0
                ELSE IF noMovement <= StopAfter THEN noMovement + 1 ELSE noMovement

Stands == noMovement' > StopAfter

GetPulseTimeFiltered_StillMoving ==
  /\ lastN' = NumberOfData
  /\ CountSilence
  /\ ignore' = (ignore /\ Counted = 0)
  /\ timdata' = IF Stands THEN [i \in RingSlots |-> MaxCnt] ELSE timdata
  /\ MeasureTimespan

GetPulseTimeFiltered ==
  /\ lastN' = NumberOfData
  /\ CountSilence
  /\ ignore' = (Stands \/ (ignore /\ Counted = 0))
  /\ timdata' = IF Stands THEN [i \in RingSlots |-> MaxCnt] ELSE timdata
  /\ MeasureTimespan

\* Between two pulses the angle goes on with the time, as far as the next pulse.
\* It is stored in 16 bits before it is compared with that.
Interpolation ==
  IF ignore' THEN 0
  ELSE LET angle16 == ((AnglePerPulse * timer) \div lastPulseTimespan') % TimerTurn
       IN IF angle16 < AnglePerPulse THEN angle16 ELSE AnglePerPulse

UpdateRotorAngle(dir) ==
  /\ GetPulseTimeFiltered
  /\ interpolated' = dir * Interpolation
  /\ accumulatedAngle' = (accumulatedAngle + dir * Counted * AnglePerPulse) % TimerTurn
  /\ pulseFrequency' = IF ignore' THEN IF Stands THEN 0 ELSE pulseFrequency
                       ELSE PulseFreq \div (lastPulseTimespan' * pulsesPerTurn)
  /\ passed' = 0
  /\ rearmed' = FALSE
  /\ trueAngle' = IF rearmed THEN accumulatedAngle'
                  ELSE (trueAngle + dir * passed * AnglePerPulse) % TimerTurn
  /\ silent' = IF passed > 0 \/ rearmed THEN 0 ELSE IF silent <= StopAfter THEN silent + 1 ELSE silent
  /\ UNCHANGED <<timer, slot, capture, pulsesPerTurn>>

SamplePulses == \E dir \in Directions : UpdateRotorAngle(dir)

\* Encoder::Reset, at every start.
ResetPulses ==
  /\ ignore' = TRUE
  /\ lastPulseTimespan' = MaxCnt
  /\ timdata' = [i \in RingSlots |-> MaxCnt]
  /\ pulseFrequency' = 0
  /\ UNCHANGED <<timer, slot, capture, pulsesPerTurn, lastN, noMovement>>
  /\ UNCHANGED <<accumulatedAngle, interpolated, pulseHistory>>

PulseNext ==
  \/ TimerCounts
  \/ Pulse
  \/ SetImpulsesPerTurn
  \/ SamplePulses
  \/ ResetPulses

PulseSpec == PulseInit /\ [][PulseNext]_pulseVars

-----------------------------------------------------------------------------

\* No pulse is lost or made up, however many come between two interrupts and
\* wherever the ring begins anew; only a change of numimp sets the ring up under the
\* interrupt's feet, and what it counts then is taken for granted here.
PulsesCounted == accumulatedAngle = trueAngle

\* A rotor that stands is seen to stand: after StopAfter interrupts without a pulse
\* the frequency is 0 and the angle is that of the last pulse, whatever the timer
\* does and whatever times the ring still held. And it never reads beyond the next.
StandstillSeen ==
  /\ silent > StopAfter => pulseFrequency = 0 /\ interpolated = 0
  /\ ~rearmed => interpolated \in -AnglePerPulse .. AnglePerPulse

\* "F22: clamp to the next pulse's angle -- deceleration would otherwise overshoot it
\* then snap back": once there the angle stays until the next pulse, while the timer
\* counts up and the time between pulses is measured the same.
StaysAtNextPulse ==
  [][SamplePulses /\ passed = 0 /\ ~rearmed /\ timer > 0 /\ ~ignore'
       /\ interpolated = AnglePerPulse /\ interpolated' # 0
       /\ UNCHANGED <<accumulatedAngle, lastPulseTimespan>>
     => interpolated' = AnglePerPulse]_pulseVars
=============================================================================
