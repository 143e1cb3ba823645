------------------------------ MODULE AntiCog -------------------------------
(***************************************************************************)
(* Anti-cogging of the FOC variant: the PWM interrupt measures how far the *)
(* d-axis current swings over an electrical turn and injects a triangle in *)
(* phase with the rotor, scaled by that swing (anticog.h,                  *)
(* MeasureCoggingCurrent and GenerateAntiCoggingSignal). Phase and gain    *)
(* stay as they are: a change of either is a jump of the wave.             *)
(***************************************************************************)
EXTENDS Integers

CONSTANTS
  Quarter,   \* a quarter turn (16384)
  IdSwing,   \* largest magnitude of the d-axis current, in fixed point
  CogUnit,   \* one ampere in fixed point (32)
  CogPhases, \* values of cogph
  CogGains,  \* magnitudes of cogkp
  CogMax,    \* cogmax
  IntMax     \* the largest value of an int (2^31 - 1)

ASSUME AntiCogAssumption ==
  /\ Quarter \in Nat \ {0}
  /\ IdSwing \in Nat
  /\ CogUnit \in Nat \ {0}
  /\ CogPhases \subseteq 0 .. 4 * Quarter - 1
  /\ CogGains \subseteq Nat
  /\ CogMax \in Nat
  /\ IntMax \in Nat /\ 4 * Quarter <= IntMax /\ 2 * IdSwing <= IntMax

VARIABLES
  cogAngle,             \* the rotor angle of the last interrupt: previousAngle
  minId, maxId, coggingCurrent,
  cogph, cogkp,
  anticog,              \* the signal injected, Param::anticog
  idsSeen               \* history: the currents sampled since the last crossing

swing == <<minId, maxId, coggingCurrent>>
gains == <<cogph, cogkp>>
antiCogVars == <<cogAngle, swing, gains, anticog, idsSeen>>

Turn == 4 * Quarter

Angles == 0 .. Turn - 1

AntiCogTypeOK ==
  /\ cogAngle \in Angles
  /\ {minId, maxId} \subseteq -IntMax .. IntMax
  /\ coggingCurrent \in 0 .. IntMax
  /\ cogph \in CogPhases
  /\ cogkp \in CogGains \cup {-gain : gain \in CogGains}
  /\ anticog \in -CogMax .. CogMax
  /\ idsSeen \subseteq -IdSwing .. IdSwing

AntiCogInit_WideOpen ==
  /\ cogAngle = 0
  /\ minId = IntMax
  /\ maxId = -IntMax
  /\ coggingCurrent = 0
  /\ cogph \in CogPhases
  /\ cogkp \in CogGains \cup {-gain : gain \in CogGains}
  /\ anticog = 0
  /\ idsSeen = {0}

\* C zeroes what is static: the first turn has seen a current of 0.
AntiCogInit ==
  /\ cogAngle = 0
  /\ minId = 0
  /\ maxId = 0
  /\ coggingCurrent = 0
  /\ cogph \in CogPhases
  /\ cogkp \in CogGains \cup {-gain : gain \in CogGains}
  /\ anticog = 0
  /\ idsSeen = {0}

-----------------------------------------------------------------------------
(* MeasureCoggingCurrent.                                                  *)

Least(x, y) == IF x < y THEN x ELSE y

Greatest(x, y) == IF x > y THEN x ELSE y

Half == 2 * Quarter - 1

Magnitude32(n) == IF n < 0 THEN -n ELSE n

\* What 32 bits keep of an integer.
Overflowed(n) == ((n + IntMax + 1) % (2 * IntMax + 2)) - IntMax - 1

\* The rotor passes half a turn: the swing so far is taken, and a new one begun.
\* The sample of this interrupt is part of neither.
Passes ==
  /\ coggingCurrent' = Magnitude32(Overflowed(minId - maxId))
  /\ minId' = IntMax
  /\ maxId' = -IntMax

Widens(id) ==
  /\ minId' = Least(id, minId)
  /\ maxId' = Greatest(id, maxId)
  /\ UNCHANGED coggingCurrent

\* The rotor passes half a turn. Met exactly there it passes unseen.
Crosses(a) == cogAngle < Half /\ a > Half

MeasureCoggingCurrent(a, id) ==
  /\ cogAngle' = a
  /\ IF Crosses(a) THEN Passes ELSE Widens(id)

-----------------------------------------------------------------------------
(* GenerateAntiCoggingSignal.                                              *)

Folded_WrongMirror(a) ==
  IF a < Quarter THEN a
  ELSE IF a < 2 * Quarter THEN Half - a
  ELSE IF a < 3 * Quarter THEN a - Half
  ELSE 3 * Quarter - a

\* The angle folded at each quarter turn.
Folded(a) ==
  IF a < Quarter THEN a
  ELSE IF a < 2 * Quarter THEN Half - a
  ELSE IF a < 3 * Quarter THEN a - Half
  ELSE Turn - 1 - a

AntiCogTriangle(a) == 4 * Folded(a) - Half

\* Division truncates towards zero.
Scaled(n) == IF n < 0 THEN -((-n) \div Turn) ELSE n \div Turn

Limited(n) == Greatest(Least(n, CogMax), -CogMax)

\* FP_TOINT of what is not negative: whole amperes.
ToAmps(current) == current \div CogUnit

GenerateAntiCoggingSignal(a, amps) ==
  Limited(Scaled(Overflowed(
    AntiCogTriangle((a + cogph) % Turn) * amps * cogkp)))

-----------------------------------------------------------------------------

\* The anti-cogging part of the PWM interrupt. The angle is whatever the encoder
\* says, the current whatever the motor draws.
InjectAntiCog ==
  /\ \E a \in Angles, id \in -IdSwing .. IdSwing :
       /\ MeasureCoggingCurrent(a, id)
       /\ idsSeen' = IF Crosses(a) THEN {} ELSE idsSeen \cup {id}
  /\ anticog' = GenerateAntiCoggingSignal(cogAngle', ToAmps(coggingCurrent'))
  /\ UNCHANGED gains

AntiCogSpec == AntiCogInit /\ [][InjectAntiCog]_antiCogVars

-----------------------------------------------------------------------------

\* From one current of the set to another it is this far, and no further.
IsSpread(n, ids) ==
  /\ \E low, high \in ids : n = high - low
  /\ \A low, high \in ids : high - low <= n

\* The swing taken as the rotor passes half a turn is that of the currents sampled
\* since it last did, no wider and no narrower: "if the very first call already
\* lands past the crossing" it is 0, and no turn is without a sample, however the
\* rotor jumps or trembles, so that the open extremes are never subtracted (F16).
SwingIsReal ==
  [][IF Crosses(cogAngle') THEN IsSpread(coggingCurrent', idsSeen)
     ELSE coggingCurrent' = coggingCurrent]_antiCogVars

Neighbours(a, b) == (b - a) % Turn \in {0, 1, Turn - 1}

\* The largest product of triangle, swing and gain, and does it fit in an int.
Fits ==
  (2 * Quarter + 1) * ToAmps(coggingCurrent) * Magnitude32(cogkp) <= IntMax

\* The wave has no jump, at no quarter turn and not where the angle wraps: for two
\* angles a digit apart the signal differs by the slope of the triangle and the
\* rounding, as long as the product fits (66 A of swing at the largest gain do not).
WaveIsSmooth ==
  [][/\ Neighbours(cogAngle, cogAngle')
     /\ coggingCurrent' = coggingCurrent
     /\ Fits
     => Magnitude32(anticog' - anticog)
          <= (4 * ToAmps(coggingCurrent) * Magnitude32(cogkp)) \div Turn + 1]_antiCogVars
=============================================================================
