------------------------------- MODULE QClamp -------------------------------
(***************************************************************************)
(* The low-speed clamp of the q-axis controller (qclamp.h), FOC variant.   *)
(* Below a speed the resolver cannot be trusted and the q-axis voltage is  *)
(* restricted to one quadrant, so that no reading of it makes the inverter *)
(* regenerate. The bounds walk to their targets instead of snapping, and   *)
(* the speed has a hysteresis.                                             *)
(*                                                                         *)
(* The PWM interrupt advances the clamp, hands its bounds to the           *)
(* controller and runs it; Param::Change and a start reset the             *)
(* controller's bounds in between, from tasks the interrupt preempts.      *)
(***************************************************************************)
EXTENDS Integers

CONSTANTS
  SlewDivisor,   \* interrupts of a full walk, if the limit is a multiple (256)
  Hysteresis,    \* half the width of the band around the threshold (2 Hz)
  QLimits,       \* values of FOC::GetQLimit: what ud leaves of the circle
  Speeds,        \* values of the filtered frequency
  ThresholdsHz,  \* values of qlimfrq; 0 switches the clamp off
  MaxVd          \* the bound PwmInit and UpdateVoltageLimits set

ASSUME QClampAssumption ==
  /\ SlewDivisor \in Nat \ {0}
  /\ Hysteresis \in Nat
  /\ QLimits \subseteq Nat /\ 0 \in QLimits
  /\ Speeds \subseteq Nat
  /\ ThresholdsHz \subseteq Nat
  /\ MaxVd \in Nat

VARIABLES
  restricted, qMinLim, qMaxLim,  \* QClamp
  minY, maxY, uq,                \* qController: its bounds, its last output
  qlimit, qdir,                  \* limit and direction of the last interrupt
  blocked, base                  \* history: since when the clamp has wanted one
                                 \* quadrant with a limit that did not fall, in
                                 \* interrupts, and the limit it began with

qClampState == <<restricted, qMinLim, qMaxLim>>
qController == <<minY, maxY, uq>>
qClampHistory == <<qlimit, qdir, blocked, base>>
qClampVars == <<qClampState, qController, qClampHistory>>

QClampTypeOK ==
  /\ restricted \in BOOLEAN
  /\ {qMinLim, qMaxLim, minY, maxY, uq} \subseteq Int
  /\ {qlimit, base} \subseteq QLimits
  /\ qdir \in {-1, 0, 1}
  /\ blocked \in 0 .. 2 * SlewDivisor

QClampInit ==
  /\ restricted = TRUE
  /\ qMinLim = 0
  /\ qMaxLim = 0
  /\ minY = -MaxVd
  /\ maxY = MaxVd
  /\ uq = 0
  /\ qlimit = 0
  /\ qdir = 0
  /\ blocked = 0
  /\ base = 0

-----------------------------------------------------------------------------

\* PwmInit at a start, UpdateVoltageLimits when a parameter changes.
ResetVoltageLimits ==
  /\ minY' = -MaxVd
  /\ maxY' = MaxVd
  /\ UNCHANGED <<qClampState, uq, qClampHistory>>

\* Is the range restricted from this interrupt on.
Restricts(frqFiltered, thresholdHz) ==
  /\ thresholdHz # 0
  /\ IF restricted THEN frqFiltered <= thresholdHz + Hysteresis
                   ELSE frqFiltered < thresholdHz - Hysteresis

StepTowards(current, target, maxStep) ==
  LET diff == target - current
  IN current + (IF diff > maxStep THEN maxStep ELSE IF diff < -maxStep THEN -maxStep ELSE diff)

Narrow_StepOnly(limit, targetMin, targetMax) ==
  /\ qMinLim' = StepTowards(qMinLim, targetMin, limit \div SlewDivisor)
  /\ qMaxLim' = StepTowards(qMaxLim, targetMax, limit \div SlewDivisor)

AtLeast(x, y) == IF x < y THEN y ELSE x

AtMost(x, y) == IF x > y THEN y ELSE x

\* A step towards the targets, and never outside the live circle.
Narrow(limit, targetMin, targetMax) ==
  /\ qMinLim' = AtLeast(StepTowards(qMinLim, targetMin, limit \div SlewDivisor), -limit)
  /\ qMaxLim' = AtMost(StepTowards(qMaxLim, targetMax, limit \div SlewDivisor), limit)

\* Does the clamp go on wanting what it wanted.
GoesOn(limit, dir) == restricted' /\ dir = qdir /\ base <= limit

\* QClamp::Update.
Update(frqFiltered, limit, dir, thresholdHz) ==
  /\ restricted' = Restricts(frqFiltered, thresholdHz)
  /\ Narrow(limit,
            IF restricted' /\ dir > 0 THEN 0 ELSE -limit,
            IF restricted' /\ dir < 0 THEN 0 ELSE limit)
  /\ qlimit' = limit
  /\ qdir' = dir
  /\ blocked' = IF GoesOn(limit, dir) THEN AtMost(blocked + 1, 2 * SlewDivisor) ELSE 0
  /\ base' = IF GoesOn(limit, dir) THEN base ELSE limit

RunController_StaleBounds ==
  /\ minY' = qMinLim'
  /\ maxY' = qMaxLim'
  /\ uq' \in minY .. maxY

\* SetMinMaxY, then Run: whatever the error, the output is within the bounds.
RunController ==
  /\ minY' = qMinLim'
  /\ maxY' = qMaxLim'
  /\ uq' \in minY' .. maxY'

\* The q-axis part of the PWM interrupt.
ClampedRun ==
  /\ \E frqFiltered \in Speeds, limit \in QLimits, dir \in {-1, 0, 1}, thresholdHz \in ThresholdsHz :
       Update(frqFiltered, limit, dir, thresholdHz)
  /\ RunController

QClampNext ==
  \/ ResetVoltageLimits
  \/ ClampedRun

QClampSpec == QClampInit /\ [][QClampNext]_qClampVars

-----------------------------------------------------------------------------

\* The bounds never leave the circle as it is now, and 0 is always open: a limit
\* that shrinks "must take effect instantly", and a controller that cannot reach
\* 0 would push torque by itself.
StaysInCircle ==
  /\ -qlimit <= qMinLim /\ qMinLim <= 0
  /\ 0 <= qMaxLim /\ qMaxLim <= qlimit
  /\ -qlimit <= uq /\ uq <= qlimit

\* "regen blocked": after two full walks at low speed, in one direction and with a
\* limit that has not fallen, the controller puts out no voltage of the other
\* sign, whenever its bounds were reset. A limit below SlewDivisor makes the step
\* zero and the bounds stay as they are; then nothing is promised.
RegenBlocked ==
  blocked = 2 * SlewDivisor /\ base >= SlewDivisor
    => qdir * uq >= 0
=============================================================================
