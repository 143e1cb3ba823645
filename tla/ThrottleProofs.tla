--------------------------- MODULE ThrottleProofs ---------------------------
(***************************************************************************)
(* Theorems about the functions of throttle.cpp, for every tuning the      *)
(* parameter table allows and every reading.                               *)
(***************************************************************************)
EXTENDS ThrottleLimits, TLAPS

USE TuningAssumption

-----------------------------------------------------------------------------
(* Arithmetic.                                                             *)

LEMMA LeastGreatest ==
  ASSUME NEW a \in Int, NEW b \in Int
  PROVE  /\ Least(a, b) \in {a, b} /\ Least(a, b) <= a /\ Least(a, b) <= b
         /\ Greatest(a, b) \in {a, b} /\ Greatest(a, b) >= a /\ Greatest(a, b) >= b
BY DEF Least, Greatest

\* A share of a quantity lies between zero and the quantity.
LEMMA Share ==
  ASSUME NEW n \in Nat, NEW d \in Nat \ {0}, NEW k \in 0 .. d
  PROVE  (n * k) \div d \in 0 .. n
<1>1. n * k \in Nat /\ n * (d - k) \in Nat
  OBVIOUS
<1>2. n * (d - k) = n * d - n * k
  OBVIOUS
<1> DEFINE m == n * k
           q == (n * k) \div d
<1>3. m \in Nat /\ n * d \in Nat /\ m <= n * d
  BY <1>1, <1>2
<1>4. q \in Nat /\ d * q <= m
  BY <1>1
<1>5. SUFFICES ASSUME q > n
               PROVE  FALSE
  BY <1>4
<1>6. d * (q - n) >= d /\ d * (q - n) = d * q - n * d
  <2>1. q - n \in Nat \ {0}
    BY <1>4, <1>5
  <2> DEFINE e == q - n
  <2>2. e \in Nat \ {0} /\ q = n + e
    BY <2>1, <1>4
  <2> HIDE DEF e, q
  <2>3. d * e >= d
    BY <2>2
  <2>4. d * (n + e) = d * n + d * e
    BY <2>2
  <2>5. QED
    BY <2>2, <2>3, <2>4 DEF e
<1> HIDE DEF m, q
<1>7. QED
  BY <1>3, <1>4, <1>6

LEMMA Percentage ==
  ASSUME NEW n \in Nat, NEW share \in 0 .. 100
  PROVE  (n * share) \div 100 \in 0 .. n
<1> DEFINE d == 100
<1>1. d \in Nat \ {0} /\ share \in 0 .. d
  OBVIOUS
<1> HIDE DEF d
<1>2. (n * share) \div d \in 0 .. n
  BY <1>1, Share
<1>3. QED
  BY <1>2 DEF d

-----------------------------------------------------------------------------
(* The pedal.                                                              *)

LEMMA PedalTuning ==
  /\ Tuning.full \in Nat \ {0} /\ Tuning.potslack \in Nat
  /\ Tuning.regentravel \in Nat /\ Tuning.regentravel < Tuning.full
  /\ Tuning.mintravel \in Nat /\ Tuning.maxregentravelhz \in Nat
  /\ Tuning.potlinearity \in 0 .. Tuning.full
  /\ Tuning.brakeregen \in Int /\ Tuning.brakeregen <= 0
  /\ Tuning.offthrotregen \in Int /\ Tuning.offthrotregen <= 0
BY DEF TuningType

\* C's division is the whole part of the quotient.
LEMMA QuotientIsInt ==
  ASSUME NEW a \in Int, NEW b \in Nat \ {0}
  PROVE  Quotient(a, b) \in Int
<1>1. a \div b \in Int /\ (-a) \div b \in Int
  OBVIOUS
<1>2. QED
  BY <1>1 DEF Quotient

\* A channel that was corrected reads as a part of the travel, whatever its calibration
\* and whichever way round it is mounted.
LEMMA LimitedIsPercent ==
  ASSUME NEW pot \in Int, NEW lo \in Nat, NEW hi \in Nat
  PROVE  DigitsToPercent(Limited(pot, lo, hi), lo, hi) \in 0 .. Tuning.full
<1> DEFINE q == Limited(pot, lo, hi)
<1>1. q \in Int /\ Least(lo, hi) <= q /\ q <= Greatest(lo, hi)
  BY DEF Limited, Least, Greatest
<1>2. CASE lo = hi
  BY <1>2, PedalTuning DEF DigitsToPercent
<1>3. CASE lo < hi
  <2>1. q - lo \in 0 .. hi - lo /\ hi - lo \in Nat \ {0}
    BY <1>1, <1>3 DEF Least, Greatest
  <2> HIDE DEF q
  <2>2. Tuning.full * (q - lo) \in Nat
    BY <2>1, PedalTuning
  <2>3. (Tuning.full * (q - lo)) \div (hi - lo) \in 0 .. Tuning.full
    BY <2>1, PedalTuning, Share
  <2>4. QED
    BY <1>3, <2>2, <2>3 DEF DigitsToPercent, Quotient, q
<1>4. CASE hi < lo
  <2>1. lo - q \in 0 .. lo - hi /\ lo - hi \in Nat \ {0}
    BY <1>1, <1>4 DEF Least, Greatest
  <2> HIDE DEF q
  <2>2. Tuning.full * (lo - q) \in Nat
    BY <2>1, PedalTuning
  <2>3. (Tuning.full * (lo - q)) \div (lo - hi) \in 0 .. Tuning.full
    BY <2>1, PedalTuning, Share
  <2>4. QED
    BY <1>4, <2>2, <2>3 DEF DigitsToPercent, Quotient, q
<1>5. QED
  BY <1>2, <1>3, <1>4

LEMMA PercentIsInt ==
  ASSUME NEW pot \in Int, NEW lo \in Nat, NEW hi \in Nat
  PROVE  DigitsToPercent(pot, lo, hi) \in Int
<1>1. Tuning.full * (pot - lo) \in Int /\ Tuning.full * (lo - pot) \in Int
  BY PedalTuning
<1>2. lo < hi => hi - lo \in Nat \ {0}
  OBVIOUS
<1>3. hi < lo => lo - hi \in Nat \ {0}
  OBVIOUS
<1>4. QED
  BY <1>1, <1>2, <1>3, QuotientIsInt, PedalTuning DEF DigitsToPercent

\* Some of the travel is left for driving.
LEMMA TravelIsPart ==
  ASSUME NEW speed \in Nat
  PROVE  RegenTravel(speed) \in 0 .. Tuning.regentravel
<1>1. CASE Tuning.maxregentravelhz = 0
  BY <1>1, PedalTuning DEF RegenTravel
<1>2. CASE Tuning.maxregentravelhz > 0
  <2> DEFINE m == Tuning.regentravel * speed
             part == m \div Tuning.maxregentravelhz
  <2>1. m \in Nat
    BY PedalTuning
  <2> HIDE DEF m
  <2>2. part \in Nat
    BY <1>2, <2>1, PedalTuning
  <2> HIDE DEF part
  <2>3. RegenTravel(speed) = Least(Tuning.regentravel, Tuning.mintravel + part)
    BY <1>2, PedalTuning DEF RegenTravel, part, m
  <2>4. QED
    BY <2>2, <2>3, PedalTuning DEF Least
<1>3. QED
  BY <1>1, <1>2, PedalTuning

\* The regeneration at the start of the travel: never zero, and at most the parameter's
\* and one unit.
LEMMA RegenShare ==
  ASSUME NEW regen \in Int, regen <= 0, NEW preset \in 0 .. Tuning.full
  PROVE  (regen * preset) \div Tuning.full - 1 \in (regen - 1) .. -1
<1>1. Tuning.full \in Nat \ {0}
  BY PedalTuning
<1> DEFINE m == (-regen) * preset
           f == Tuning.full
           q == (regen * preset) \div Tuning.full
<1>2. m \in Nat /\ regen * preset = -m
  OBVIOUS
<1>3. (-regen) * (f - preset) \in Nat /\ (-regen) * (f - preset) = (-regen) * f - m
  BY <1>1
<1>4. m <= (-regen) * f
  BY <1>1, <1>2, <1>3
<1>5. q \in Int /\ f * q <= -m /\ -m < f * q + f
  BY <1>1, <1>2
<1> HIDE DEF m, q, f
<1>6. f \in Nat \ {0}
  BY <1>1 DEF f
<1>7. q <= 0
  <2>1. SUFFICES ASSUME q >= 1
                 PROVE  FALSE
    BY <1>5
  <2>2. f * q >= f
    <3>1. f * (q - 1) >= 0 /\ f * (q - 1) = f * q - f
      BY <1>5, <1>6, <2>1
    <3>2. f * q \in Int
      BY <1>5, <1>6
    <3>3. QED
      BY <1>6, <3>1, <3>2
  <2>3. QED
    BY <1>2, <1>5, <1>6, <2>2
<1>8. q >= regen
  <2>1. SUFFICES ASSUME q <= regen - 1
                 PROVE  FALSE
    BY <1>5
  <2>2. f * (regen - 1 - q) >= 0 /\ f * (regen - 1 - q) = f * regen - f - f * q
    BY <1>5, <1>6, <2>1
  <2>3. f * q \in Int /\ f * regen \in Int /\ (-regen) * f = -(f * regen)
    BY <1>5, <1>6
  <2>4. QED
    BY <1>2, <1>4, <1>5, <1>6, <2>2, <2>3
<1>9. QED
  BY <1>5, <1>7, <1>8 DEF q

\* The curve of the driving part starts at zero and never passes the whole travel.
LEMMA CurveBounded ==
  ASSUME NEW drive \in 0 .. Tuning.full
  PROVE  (drive * (drive * (Tuning.full - Tuning.potlinearity)
                     + Tuning.full * Tuning.potlinearity)) \div (Tuning.full * Tuning.full)
           \in 0 .. Tuning.full
<1> DEFINE f == Tuning.full
           lin == Tuning.potlinearity
           weight == drive * (f - lin) + f * lin
<1>1. f \in Nat \ {0} /\ lin \in 0 .. f
  BY PedalTuning
<1>2. f * f \in Nat \ {0}
  BY <1>1
<1>3. weight \in 0 .. f * f
  <2>1. (f - drive) * (f - lin) \in Nat
    BY <1>1
  <2>2. drive * (f - lin) \in Nat /\ f * lin \in Nat
    BY <1>1
  <2>3. (f - drive) * (f - lin) = f * f - f * lin - drive * (f - lin)
    BY <1>1
  <2>4. QED
    BY <1>2, <2>1, <2>2, <2>3
<1>4. (drive * weight) \div (f * f) \in 0 .. drive
  <2>1. drive \in Nat
    OBVIOUS
  <2> DEFINE sq == f * f
  <2>2. sq \in Nat \ {0} /\ weight \in 0 .. sq
    BY <1>2, <1>3
  <2> HIDE DEF weight, sq
  <2>3. (drive * weight) \div sq \in 0 .. drive
    BY <2>1, <2>2, Share
  <2>4. QED
    BY <2>3 DEF sq
<1>5. QED
  BY <1>1, <1>4

\* CalcThrottle: a pedal never asks for more than the whole travel, and for no more
\* regeneration than the parameters say and one unit; under the brake it regenerates.
THEOREM CalcThrottleBounded ==
  ASSUME NEW potnom \in 0 .. Tuning.full, NEW preset \in 0 .. Tuning.full,
         NEW brake \in BOOLEAN, NEW travel \in 0 .. Tuning.regentravel
  PROVE  /\ CalcThrottle(potnom, preset, brake, travel) \in
              (Least(Tuning.brakeregen, Tuning.offthrotregen) - 1) .. Tuning.full
         /\ brake => CalcThrottle(potnom, preset, brake, travel) < 0
<1> DEFINE most == IF brake THEN Tuning.brakeregen ELSE Tuning.offthrotregen
           regen == (most * preset) \div Tuning.full - 1
           drive == (Tuning.full * (potnom - travel)) \div (Tuning.full - travel)
           lower == -((regen * (potnom - travel)) \div travel)
           upper == (drive * (drive * (Tuning.full - Tuning.potlinearity)
                       + Tuning.full * Tuning.potlinearity)) \div (Tuning.full * Tuning.full)
           least == Least(Tuning.brakeregen, Tuning.offthrotregen)
<1>1. CalcThrottle(potnom, preset, brake, travel) =
        IF brake THEN regen ELSE IF potnom < travel THEN lower ELSE upper
  BY DEF CalcThrottle
<1>2. regen \in (least - 1) .. -1
  <2>1. most \in Int /\ most <= 0 /\ least <= most /\ least \in Int
    BY PedalTuning DEF Least
  <2> HIDE DEF most, least
  <2>2. regen \in (most - 1) .. -1
    BY <2>1, RegenShare
  <2>3. QED
    BY <2>1, <2>2
<1>3. ASSUME potnom < travel
      PROVE  lower \in regen .. 0
  <2>1. regen \in Int /\ regen <= -1
    BY <1>2, PedalTuning DEF Least
  <2> HIDE DEF regen
  <2>2. travel \in Nat \ {0} /\ travel - potnom \in 0 .. travel /\ -regen \in Nat
    BY <1>3, <2>1, PedalTuning
  <2>3. ((-regen) * (travel - potnom)) \div travel \in 0 .. -regen
    BY <2>2, Share
  <2>4. (-regen) * (travel - potnom) = regen * (potnom - travel)
    BY <2>1, <2>2
  <2>5. QED
    BY <2>1, <2>3, <2>4
<1>4. ASSUME potnom >= travel
      PROVE  upper \in 0 .. Tuning.full
  <2>1. potnom - travel \in 0 .. Tuning.full - travel /\ Tuning.full - travel \in Nat \ {0}
    BY <1>4, PedalTuning
  <2>2. drive \in 0 .. Tuning.full
    BY <2>1, PedalTuning, Share
  <2> HIDE DEF drive
  <2>3. QED
    BY <2>2, CurveBounded
<1>5. potnom \in Int /\ travel \in Int /\ Tuning.full \in Nat /\ least \in Int /\ least <= 0
  BY PedalTuning DEF Least
<1> HIDE DEF regen, lower, upper, least
<1>6. QED
  BY <1>1, <1>2, <1>3, <1>4, <1>5 DEF least

\* CalcThrottleBiDir stays within the whole travel to either side; the brake stops it.
THEOREM BiDirBounded ==
  ASSUME NEW potnom \in 0 .. Tuning.full, NEW brake \in BOOLEAN,
         NEW travel \in 0 .. Tuning.regentravel
  PROVE  /\ CalcThrottleBiDir(potnom, brake, travel) \in -Tuning.full .. Tuning.full
         /\ brake => CalcThrottleBiDir(potnom, brake, travel) = 0
<1> DEFINE f == Tuning.full
           side == 2 * potnom - f
           beyond == Greatest(side, -side) - travel
           size == (beyond * (f + travel)) \div f
<1>1. f \in Nat \ {0} /\ travel \in 0 .. f /\ side \in -f .. f
  BY PedalTuning
<1>2. CalcThrottleBiDir(potnom, brake, travel) =
        IF brake \/ beyond <= 0 THEN 0 ELSE IF side < 0 THEN -size ELSE size
  BY DEF CalcThrottleBiDir
<1>3. beyond \in Int /\ beyond <= f - travel
  <2> HIDE DEF side, f
  <2>1. QED
    BY <1>1 DEF Greatest
<1>4. ASSUME beyond > 0
      PROVE  size \in 0 .. f
  <2> HIDE DEF beyond, f
  <2>1. (f - travel - beyond) * (f + travel) \in Nat
    BY <1>1, <1>3
  <2>2. (f - travel - beyond) * (f + travel) = f * f - travel * travel - beyond * (f + travel)
    BY <1>1, <1>3
  <2>3. travel * travel \in Nat /\ beyond * (f + travel) \in Nat /\ f * f \in Nat
    BY <1>1, <1>3, <1>4
  <2> DEFINE m == beyond * (f + travel)
  <2>4. m \in Nat /\ m <= f * f
    BY <2>1, <2>2, <2>3
  <2> HIDE DEF m
  <2>5. m \div f \in 0 .. f
    <3> DEFINE q == m \div f
    <3>1. q \in Nat /\ f * q <= m
      BY <1>1, <2>4
    <3> HIDE DEF q
    <3>2. SUFFICES ASSUME q > f
                   PROVE  FALSE
      BY <1>1, <3>1 DEF q
    <3>3. f * (q - f) >= 1 /\ f * (q - f) = f * q - f * f
      BY <1>1, <3>1, <3>2
    <3>4. f * q \in Nat /\ f * f \in Nat
      BY <1>1, <3>1
    <3>5. QED
      BY <2>4, <3>1, <3>3, <3>4
  <2>6. QED
    BY <2>5 DEF m
<1> HIDE DEF side, beyond, size, f
<1>5. CalcThrottleBiDir(potnom, brake, travel) \in -f .. f
  BY <1>1, <1>2, <1>3, <1>4
<1>6. QED
  BY <1>2, <1>5 DEF f

-----------------------------------------------------------------------------
(* The limiters and the ramp.                                              *)

LEMMA BoundNarrows ==
  ASSUME NEW spnt \in Int, NEW drive \in Int, NEW regen \in Int
  PROVE  Bound(spnt, drive, regen) \in Int /\ Narrows(Bound(spnt, drive, regen), spnt)
BY DEF Bound, Narrows, Least, Greatest

LEMMA BmsNarrows ==
  ASSUME NEW spnt \in Int, NEW bms \in BOOLEAN
  PROVE  BmsLimitCommand(spnt, bms) \in Int /\ Narrows(BmsLimitCommand(spnt, bms), spnt)
<1>1. Tuning.bmslimhigh \in 0 .. 100 /\ Tuning.bmslimlow \in -100 .. 0
  BY DEF TuningType
<1>2. CASE ~bms
  BY <1>2 DEF BmsLimitCommand, Narrows
<1>3. CASE bms /\ spnt >= 0
  <2>1. (spnt * Tuning.bmslimhigh) \div 100 \in 0 .. spnt
    BY <1>1, <1>3, Percentage
  <2>2. QED
    BY <1>3, <2>1 DEF BmsLimitCommand, Narrows
<1>4. CASE bms /\ spnt < 0
  <2>1. -spnt \in Nat /\ -Tuning.bmslimlow \in 0 .. 100
    BY <1>1, <1>4
  <2>2. ((-spnt) * (-Tuning.bmslimlow)) \div 100 \in 0 .. -spnt
    BY <2>1, Percentage
  <2>3. (-spnt) * (-Tuning.bmslimlow) = spnt * Tuning.bmslimlow
    BY <1>1
  <2>4. (spnt * Tuning.bmslimlow) \div 100 \in 0 .. -spnt
    BY <2>2, <2>3
  <2>5. QED
    BY <1>4, <2>4 DEF BmsLimitCommand, Narrows
<1>5. QED
  BY <1>2, <1>3, <1>4

LEMMA SpeedNarrows ==
  ASSUME NEW spnt \in Int, NEW frq \in Int, NEW rpm \in Nat, NEW accel \in Int
  PROVE  /\ FrequencyLimitCommand(spnt, frq) \in Int
         /\ Narrows(FrequencyLimitCommand(spnt, frq), spnt)
         /\ AccelerationLimitCommand(spnt, rpm, accel) \in Int
         /\ Narrows(AccelerationLimitCommand(spnt, rpm, accel), spnt)
<1>1. Tuning.fmax \in Nat /\ Tuning.accelmax \in Nat
  BY DEF TuningType
<1>2. QED
  BY <1>1 DEF FrequencyLimitCommand, AccelerationLimitCommand, Narrows, Least, Greatest

LEMMA TemperatureNarrows ==
  ASSUME NEW spnt \in Int, NEW temp \in Int, NEW tempMax \in Int
  PROVE  /\ TemperatureDerate(spnt, temp, tempMax) \in Int
         /\ Narrows(TemperatureDerate(spnt, temp, tempMax), spnt)
BY DEF TemperatureDerate, Narrows, Least, Greatest

LEMMA NarrowsTransitive ==
  ASSUME NEW a \in Int, NEW b \in Int, NEW c \in Int, Narrows(a, b), Narrows(b, c)
  PROVE  Narrows(a, c)
BY DEF Narrows

\* The whole chain of limiters narrows every request, whatever they read.
THEOREM LimitCommandNarrows ==
  ASSUME NEW spnt \in Int, NEW r \in ReadingType, NEW rpm \in Nat
  PROVE  LimitCommand(spnt, r, rpm) \in Int /\ Narrows(LimitCommand(spnt, r, rpm), spnt)
<1> DEFINE a == BmsLimitCommand(spnt, r.bms)
           b == UdcLimitCommand(a, r.udc)
           c == IdcLimitCommand(b, r.idc)
           d == FrequencyLimitCommand(c, r.frq)
           e == AccelerationLimitCommand(d, rpm, r.accel)
           f == TemperatureDerate(e, r.tmphs, Tuning.tmphsmax)
           g == TemperatureDerate(f, r.tmpm, Tuning.tmpmmax)
<1>1. /\ r.bms \in BOOLEAN
      /\ r.udc \in Int /\ r.idc \in Int /\ r.frq \in Int
      /\ r.accel \in Int /\ r.tmphs \in Int /\ r.tmpm \in Int
  BY DEF ReadingType
<1>2. /\ Tuning.udcmin \in Int /\ Tuning.udcmax \in Int /\ Tuning.idcmin \in Int
      /\ Tuning.idcmax \in Int /\ Tuning.idckp \in Int
      /\ Tuning.tmphsmax \in Int /\ Tuning.tmpmmax \in Int
  BY DEF TuningType
<1>3. a \in Int /\ Narrows(a, spnt)
  BY <1>1, BmsNarrows
<1> HIDE DEF a
<1>4. b \in Int /\ Narrows(b, a)
  <2>1. 5 * (r.udc - Tuning.udcmin) \in Int /\ 5 * (r.udc - Tuning.udcmax) \in Int
    BY <1>1, <1>2
  <2>2. QED
    BY <1>3, <2>1, BoundNarrows DEF UdcLimitCommand
<1> HIDE DEF b
<1>5. c \in Int /\ Narrows(c, b)
  <2>1. /\ Tuning.idckp * (Tuning.idcmax - r.idc) \in Int
        /\ Tuning.idckp * (Tuning.idcmin - r.idc) \in Int
    BY <1>1, <1>2
  <2>2. QED
    BY <1>4, <2>1, BoundNarrows DEF IdcLimitCommand
<1> HIDE DEF c
<1>6. d \in Int /\ Narrows(d, c)
  BY <1>1, <1>5, SpeedNarrows
<1> HIDE DEF d
<1>7. e \in Int /\ Narrows(e, d)
  BY <1>1, <1>6, SpeedNarrows
<1> HIDE DEF e
<1>8. f \in Int /\ Narrows(f, e)
  BY <1>1, <1>2, <1>7, TemperatureNarrows
<1> HIDE DEF f
<1>9. g \in Int /\ Narrows(g, f)
  BY <1>1, <1>2, <1>8, TemperatureNarrows
<1> HIDE DEF g
<1>10. Narrows(g, c)
  BY <1>5, <1>6, <1>7, <1>8, <1>9, NarrowsTransitive
<1>11. Narrows(g, spnt)
  BY <1>3, <1>4, <1>5, <1>9, <1>10, NarrowsTransitive
<1>12. g = LimitCommand(spnt, r, rpm)
  BY DEF g, f, e, d, c, b, a, LimitCommand
<1>13. QED
  BY <1>9, <1>11, <1>12

\* The ramp stays an integer, and a request that does not drive does not raise it
\* above zero.
LEMMA RampNeverRaises ==
  ASSUME NEW req \in Int, NEW ramped \in Int, NEW rate \in Nat
  PROVE  /\ RampThrottle(req, ramped, rate) \in Int
         /\ req <= 0 => \/ RampThrottle(req, ramped, rate) <= 0
                        \/ RampThrottle(req, ramped, rate) <= ramped
<1>1. /\ Tuning.throtmax \in Nat /\ Tuning.throtmin \in Int /\ Tuning.throtmin <= 0
      /\ Tuning.regenramp \in Nat /\ Tuning.rampknee \in Nat
  BY DEF TuningType
<1> DEFINE potnom_ == Greatest(Least(req, Tuning.throtmax), Tuning.throtmin)
<1>2. potnom_ \in Int /\ (req <= 0 => potnom_ <= 0)
  BY <1>1 DEF Least, Greatest
<1> HIDE DEF potnom_
<1>3. RampThrottle(req, ramped, rate) =
        IF potnom_ >= ramped THEN RampUp(ramped, potnom_, rate)
        ELSE IF ramped > Tuning.rampknee THEN RampDown(ramped, potnom_, rate)
        ELSE RampDown(ramped, potnom_, Tuning.regenramp)
  BY DEF RampThrottle, potnom_
<1>4. QED
  BY <1>1, <1>2, <1>3 DEF RampUp, RampDown
=============================================================================
