--------------------------- MODULE ThrottleLimits ---------------------------
(***************************************************************************)
(* The functions of throttle.cpp: the pedal, the ramp, the limiters and    *)
(* the speed and position controllers. A request is positive for driving,  *)
(* negative for regeneration, in units of which a whole pedal travel has   *)
(* Tuning.full. Filters are left out: a function is given what the filter  *)
(* would yield.                                                            *)
(***************************************************************************)
EXTENDS Integers

CONSTANT Tuning   \* the parameters, a record; full (100 percent), potslack (200), mintravel
                  \* (3), rampknee (5), bidirrpm (30), accelrpm (100), holdlimit (10000) and
                  \* holdcalls (50) are fixed in the code; percent is the units of one

TuningType ==
  [full : Nat \ {0}, percent : Nat \ {0}, potmin : Nat, potmax : Nat, pot2min : Nat, pot2max : Nat, potslack : Nat,
   regentravel : Nat, mintravel : Nat, maxregentravelhz : Nat, potlinearity : Nat,
   offthrotregen : Int,
   throtmax : Nat, throtmin : Int, throtramp : Nat, rampmax : Nat, regenramp : Nat,
   rampknee : Nat, throtramprpm : Nat, dirchrpm : Nat, potspeed : Nat, brakeregen : Int,
   bmslimhigh : 0 .. 100, bmslimlow : -100 .. 0, udcmin : Nat, udcmax : Nat, idcmin : Int,
   idcmax : Int, idckp : Nat, fmax : Nat, accelmax : Nat, tmphsmax : Int, tmpmmax : Int,
   idlespeed : Int, speedkp : Nat, idlethrotlim : Nat, cruisethrotlim : Nat,
   cruiseregen : Int, holdkp : Int, holdlimit : Nat, bidirrpm : Nat, accelrpm : Nat,
   brklightout : Int,
   regenrampstr : Nat, holdcalls : Nat]

\* The signs and ranges param_prj.h gives them. It admits a regentravel of the whole
\* travel too: CalcThrottle then divides zero by zero for a pedal at its end.
ASSUME TuningAssumption ==
  /\ Tuning \in TuningType
  /\ Tuning.throtmin <= 0
  /\ Tuning.cruiseregen <= 0
  /\ Tuning.brakeregen <= 0 /\ Tuning.offthrotregen <= 0
  /\ Tuning.regentravel < Tuning.full /\ Tuning.potlinearity <= Tuning.full
  /\ Tuning.brklightout < 0

\* What the limiters read: voltage, current, stator frequency, acceleration, two
\* temperatures and the BMS input.
ReadingType ==
  [udc : Int, idc : Int, frq : Int, accel : Int, tmphs : Int, tmpm : Int, bms : BOOLEAN]

Least(a, b) == IF a < b THEN a ELSE b

Greatest(a, b) == IF a > b THEN a ELSE b

\* C's division of integers, rounding towards zero, for b > 0.
Quotient(a, b) == IF a >= 0 THEN a \div b ELSE -((-a) \div b)

-----------------------------------------------------------------------------
(* The pedal. A channel is calibrated from lo to hi, hi being the smaller  *)
(* one where the pot is mounted the other way round.                       *)

InRange(pot, lo, hi) ==
  Least(lo, hi) - Tuning.potslack <= pot /\ pot <= Greatest(lo, hi) + Tuning.potslack

\* CheckAndLimitRange's correction; a broken channel reads as its lower end.
Limited(pot, lo, hi) ==
  IF InRange(pot, lo, hi) THEN Least(Greatest(pot, Least(lo, hi)), Greatest(lo, hi))
  ELSE Least(lo, hi)

DigitsToPercent(pot, lo, hi) ==
  IF lo = hi THEN Tuning.full
  ELSE IF lo < hi THEN Quotient(Tuning.full * (pot - lo), hi - lo)
  ELSE Quotient(Tuning.full * (lo - pot), lo - hi)

\* The part of the travel that regenerates; it grows with the speed.
RegenTravel(speed) ==
  IF Tuning.maxregentravelhz = 0 THEN Tuning.regentravel
  ELSE Least(Tuning.regentravel,
             Tuning.mintravel + (Tuning.regentravel * speed) \div Tuning.maxregentravelhz)

\* The brake pedal overrides the throttle; the lower part of the travel regenerates, and
\* the rest drives along a curve. Regeneration "never reaches 0": it is one unit more.
CalcThrottle(potnom, preset, brake, travel) ==
  LET regen == ((IF brake THEN Tuning.brakeregen ELSE Tuning.offthrotregen) * preset)
                 \div Tuning.full - 1
      drive == (Tuning.full * (potnom - travel)) \div (Tuning.full - travel)
  IN IF brake THEN regen
     ELSE IF potnom < travel THEN -((regen * (potnom - travel)) \div travel)
     ELSE (drive * (drive * (Tuning.full - Tuning.potlinearity)
                    + Tuning.full * Tuning.potlinearity)) \div (Tuning.full * Tuning.full)

\* A pot with its rest in the middle, to either side; the brake pedal puts it there.
CalcThrottleBiDir(potnom, brake, travel) ==
  LET side == 2 * potnom - Tuning.full
      beyond == Greatest(side, -side) - travel
      size == (beyond * (Tuning.full + travel)) \div Tuning.full
  IN IF brake \/ beyond <= 0 THEN 0 ELSE IF side < 0 THEN -size ELSE size

-----------------------------------------------------------------------------
(* The ramp.                                                               *)

RampUp(current, target, rate) ==
  IF target < current \/ current + rate > target THEN target ELSE current + rate

RampDown(current, target, rate) ==
  IF target > current \/ current - rate < target THEN target ELSE current - rate

\* RampThrottle: from ramped towards the request, upwards and out of driving at
\* throttleRamp, into regeneration at regenramp.
RampThrottle(request, ramped, throttleRamp) ==
  LET potnom == Greatest(Least(request, Tuning.throtmax), Tuning.throtmin)
  IN IF potnom >= ramped
     THEN RampUp(ramped, potnom, throttleRamp)
     ELSE IF ramped > Tuning.rampknee
     THEN RampDown(ramped, potnom, throttleRamp)
     ELSE RampDown(ramped, potnom, Tuning.regenramp)

-----------------------------------------------------------------------------
(* The limiters.                                                           *)

\* The limited request keeps the sign and takes from the size.
Narrows(limited, spnt) ==
  \/ 0 <= limited /\ limited <= spnt
  \/ spnt <= limited /\ limited <= 0

\* A bound on driving and a bound on regeneration, each cut off at zero.
Bound(spnt, drive, regen) ==
  IF spnt >= 0 THEN Least(spnt, Greatest(0, drive)) ELSE Greatest(spnt, Least(0, regen))

BmsLimitCommand(spnt, bms) ==
  IF ~bms THEN spnt
  ELSE IF spnt >= 0
  THEN (spnt * Tuning.bmslimhigh) \div 100
  ELSE -((spnt * Tuning.bmslimlow) \div 100)

UdcLimitCommand_NoCutoff(spnt, udc) ==
  IF spnt >= 0 THEN Least(spnt, 5 * (udc - Tuning.udcmin))
  ELSE Greatest(spnt, 5 * (udc - Tuning.udcmax))

UdcLimitCommand(spnt, udc) ==
  Bound(spnt, 5 * (udc - Tuning.udcmin), 5 * (udc - Tuning.udcmax))

IdcLimitCommand(spnt, idc) ==
  Bound(spnt, Tuning.idckp * (Tuning.idcmax - idc), Tuning.idckp * (Tuning.idcmin - idc))

FrequencyLimitCommand(spnt, frq) ==
  IF spnt > 0 THEN Least(spnt, Greatest(0, 4 * (Tuning.fmax - frq))) ELSE spnt

AccelerationLimitCommand(spnt, speed, accel) ==
  IF spnt >= 0 /\ speed > Tuning.accelrpm
  THEN Least(spnt, Greatest(0, 20 * (Tuning.accelmax - accel)))
  ELSE spnt

TemperatureDerate(spnt, temp, tempMax) ==
  LET limit == Greatest(0, 10 * (tempMax - temp))
  IN IF spnt >= 0 THEN Least(spnt, limit) ELSE Greatest(spnt, -limit)

\* The limiters in ProcessThrottle's order.
LimitCommand(spnt, r, rpm) ==
  LET current == IdcLimitCommand(UdcLimitCommand(BmsLimitCommand(spnt, r.bms), r.udc), r.idc)
      speed == AccelerationLimitCommand(FrequencyLimitCommand(current, r.frq), rpm, r.accel)
  IN TemperatureDerate(TemperatureDerate(speed, r.tmphs, Tuning.tmphsmax), r.tmpm, Tuning.tmpmmax)

-----------------------------------------------------------------------------
(* Controllers.                                                            *)

CalcIdleSpeed(speed, idleThrotLim) ==
  Least(idleThrotLim, Tuning.speedkp * (Tuning.idlespeed - speed))

CalcCruiseSpeed(cruiseSpeed, speed) ==
  Greatest(Tuning.cruiseregen,
           Least(Tuning.cruisethrotlim, Tuning.speedkp * (cruiseSpeed - speed)))

\* The torque that holds a position after rolling back (holdkp per unit of distance);
\* rolling forward beyond
\* holdlimit ends the hold.
Holds(distance) == distance <= Tuning.holdlimit

HoldPosition(distance, idleThrotLim) ==
  Greatest(0, Least(idleThrotLim, Tuning.holdkp * distance))
=============================================================================
