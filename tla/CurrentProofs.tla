--------------------------- MODULE CurrentProofs ----------------------------
(***************************************************************************)
(* Proofs about what bounds the currents: the q-axis clamp, the offsets of *)
(* the current sensors, the charge current, the anti-cogging signal and    *)
(* the slip, for every limit, wait, number of samples and resolution.      *)
(***************************************************************************)
EXTENDS QClamp, CurrentOffsets, Charger, AntiCog, SlipControl, TLAPS

-----------------------------------------------------------------------------
(* The q-axis clamp.                                                       *)

\* A natural quotient, and what it leaves.
LEMMA Quotient ==
  ASSUME NEW n \in Nat, NEW d \in Nat \ {0}
  PROVE  n \div d \in Nat /\ d * (n \div d) <= n /\ n < d * (n \div d) + d
OBVIOUS

LEMMA QuotientMonotonic ==
  ASSUME NEW m \in Nat, NEW n \in Nat, m <= n, NEW d \in Nat \ {0}
  PROVE  m \div d <= n \div d
OBVIOUS

\* One step of a bound, towards 0 or outwards, kept inside the circle.
LEMMA StepUpToZero ==
  ASSUME NEW bound \in Int, bound <= 0, NEW limit \in Nat, NEW s \in Nat
  PROVE  /\ AtLeast(StepTowards(bound, 0, s), -limit) \in -limit .. 0
         /\ \/ AtLeast(StepTowards(bound, 0, s), -limit) = 0
            \/ AtLeast(StepTowards(bound, 0, s), -limit) >= bound + s
BY DEF AtLeast, StepTowards

LEMMA StepDownToZero ==
  ASSUME NEW bound \in Nat, NEW limit \in Nat, NEW s \in Nat
  PROVE  /\ AtMost(StepTowards(bound, 0, s), limit) \in 0 .. limit
         /\ \/ AtMost(StepTowards(bound, 0, s), limit) = 0
            \/ AtMost(StepTowards(bound, 0, s), limit) <= bound - s
BY DEF AtMost, StepTowards

LEMMA StepDown ==
  ASSUME NEW bound \in Int, bound <= 0, NEW limit \in Nat, NEW s \in Nat
  PROVE  AtLeast(StepTowards(bound, -limit, s), -limit) \in -limit .. 0
BY DEF AtLeast, StepTowards

LEMMA StepUp ==
  ASSUME NEW bound \in Nat, NEW limit \in Nat, NEW s \in Nat
  PROVE  AtMost(StepTowards(bound, limit, s), limit) \in 0 .. limit
BY DEF AtMost, StepTowards

LEMMA OneMoreStep ==
  ASSUME NEW m \in Nat, NEW n \in Nat, m <= n + 1, NEW q \in Nat
  PROVE  m * q <= n * q + q /\ m * q \in Nat /\ n * q \in Nat
<1> DEFINE k == n + 1 - m
<1>1. k \in Nat /\ n + 1 = m + k
  OBVIOUS
<1> HIDE DEF k
<1>2. (n + 1) * q = n * q + q /\ (m + k) * q = m * q + k * q
  BY <1>1
<1>3. k * q \in Nat /\ m * q \in Nat /\ n * q \in Nat
  BY <1>1
<1>4. QED
  BY <1>1, <1>2, <1>3

\* Bounds, limits and output are numbers, the bounds inside the circle and the
\* output inside the bounds.
InCircle ==
  /\ qlimit \in Nat /\ base \in Nat /\ base <= qlimit
  /\ qdir \in {-1, 0, 1}
  /\ blocked \in 0 .. 2 * SlewDivisor
  /\ {qMinLim, qMaxLim, uq, minY, maxY} \subseteq Int
  /\ -qlimit <= qMinLim /\ qMinLim <= 0
  /\ 0 <= qMaxLim /\ qMaxLim <= qlimit
  /\ qMinLim <= uq /\ uq <= qMaxLim

\* How far the walk has come that blocks one quadrant: a step of at least
\* base \div SlewDivisor per interrupt from the whole limit, or all the way.
WalksIn ==
  /\ blocked = 0 => base = qlimit
  /\ qdir > 0 => qMinLim = 0 \/ qMinLim >= blocked * (base \div SlewDivisor) - base
  /\ qdir < 0 => qMaxLim = 0 \/ qMaxLim <= base - blocked * (base \div SlewDivisor)

\* The targets of an interrupt, and the steps of both bounds.
LEMMA NarrowInCircle ==
  ASSUME InCircle,
         NEW frqFiltered \in Speeds, NEW limit \in QLimits, NEW dir \in {-1, 0, 1},
         NEW thresholdHz \in ThresholdsHz,
         Update(frqFiltered, limit, dir, thresholdHz), RunController
  PROVE  InCircle'
<1>1. limit \in Nat /\ limit \div SlewDivisor \in Nat
  BY QClampAssumption DEF QClampAssumption
<1> DEFINE s == limit \div SlewDivisor
<1>2. qMinLim \in Int /\ qMinLim <= 0 /\ qMaxLim \in Nat
  BY DEF InCircle
<1>3. /\ AtLeast(StepTowards(qMinLim, 0, s), -limit) \in -limit .. 0
      /\ AtLeast(StepTowards(qMinLim, -limit, s), -limit) \in -limit .. 0
      /\ AtMost(StepTowards(qMaxLim, 0, s), limit) \in 0 .. limit
      /\ AtMost(StepTowards(qMaxLim, limit, s), limit) \in 0 .. limit
  <2> HIDE DEF s
  <2>1. s \in Nat
    BY <1>1 DEF s
  <2>2. QED
    BY <1>1, <1>2, <2>1, StepUpToZero, StepDownToZero, StepDown, StepUp
<1>4. qMinLim' \in -limit .. 0 /\ qMaxLim' \in 0 .. limit
  BY <1>3 DEF Update, Narrow
<1>5. qlimit' = limit /\ qdir' = dir
  BY DEF Update
<1>6. base' \in Nat /\ base' <= limit
  BY <1>1 DEF Update, GoesOn, InCircle
<1>7. blocked' \in 0 .. 2 * SlewDivisor
  <2>1. 2 * SlewDivisor \in Nat
    BY QClampAssumption DEF QClampAssumption
  <2> DEFINE full == 2 * SlewDivisor
  <2> HIDE DEF full
  <2>2. full \in Nat /\ blocked \in 0 .. full
    BY <2>1 DEF full, InCircle
  <2>3. AtMost(blocked + 1, full) \in 0 .. full
    BY <2>2 DEF AtMost
  <2>4. blocked' = AtMost(blocked + 1, full) \/ blocked' = 0
    BY DEF Update, full
  <2>5. QED
    BY <2>2, <2>3, <2>4 DEF full
<1>8. /\ minY' = qMinLim' /\ maxY' = qMaxLim'
      /\ uq' \in qMinLim' .. qMaxLim'
  BY DEF RunController
<1>9. QED
  BY <1>1, <1>4, <1>5, <1>6, <1>7, <1>8 DEF InCircle

\* The walk goes on by at least its step in every interrupt that goes on with it.
LEMMA NarrowWalksIn ==
  ASSUME InCircle, WalksIn, InCircle',
         NEW frqFiltered \in Speeds, NEW limit \in QLimits, NEW dir \in {-1, 0, 1},
         NEW thresholdHz \in ThresholdsHz,
         Update(frqFiltered, limit, dir, thresholdHz)
  PROVE  WalksIn'
<1>1. limit \in Nat /\ qlimit' = limit /\ qdir' = dir
  BY QClampAssumption DEF QClampAssumption, Update
<1>2. CASE ~GoesOn(limit, dir)
  <2>1. blocked' = 0 /\ base' = limit
    BY <1>2 DEF Update
  <2>2. SlewDivisor \in Nat \ {0} /\ limit \div SlewDivisor \in Nat
    BY <1>1, QClampAssumption, Quotient DEF QClampAssumption
  <2>3. blocked' * (base' \div SlewDivisor) = 0
    BY <2>1, <2>2
  <2>4. QED
    BY <1>1, <2>1, <2>3 DEF WalksIn, InCircle
<1>3. CASE GoesOn(limit, dir)
  <2> DEFINE q == base \div SlewDivisor
             s == limit \div SlewDivisor
  <2>1. q \in Nat /\ s \in Nat /\ q <= s
    BY <1>1, <1>3, QClampAssumption, Quotient, QuotientMonotonic
       DEF GoesOn, QClampAssumption, InCircle
  <2>2. /\ base' = base /\ dir = qdir /\ restricted'
        /\ blocked' = AtMost(blocked + 1, 2 * SlewDivisor)
    BY <1>3 DEF Update, GoesOn
  <2>3. blocked \in Nat /\ blocked' \in Nat /\ blocked' <= blocked + 1 /\ blocked' # 0
    <3>1. 2 * SlewDivisor \in Nat \ {0}
      BY QClampAssumption DEF QClampAssumption
    <3> DEFINE full == 2 * SlewDivisor
    <3> HIDE DEF full
    <3>2. full \in Nat \ {0} /\ blocked \in 0 .. full /\ blocked' = AtMost(blocked + 1, full)
      BY <2>2, <3>1 DEF full, InCircle
    <3>3. QED
      BY <3>2 DEF AtMost
  <2>4. blocked' * q <= blocked * q + q /\ blocked' * q \in Nat /\ blocked * q \in Nat
    <3> HIDE DEF q
    <3>1. QED
      BY <2>1, <2>3, OneMoreStep
  <2>5. ASSUME qdir > 0
        PROVE  qMinLim' = 0 \/ qMinLim' >= qMinLim + s
    <3>1. qMinLim' = AtLeast(StepTowards(qMinLim, 0, s), -limit)
      BY <2>2, <2>5 DEF Update, Narrow
    <3> HIDE DEF s
    <3>2. QED
      BY <1>1, <2>1, <3>1, StepUpToZero DEF InCircle
  <2>6. ASSUME qdir < 0
        PROVE  qMaxLim' = 0 \/ qMaxLim' <= qMaxLim - s
    <3>1. qMaxLim' = AtMost(StepTowards(qMaxLim, 0, s), limit)
      BY <2>2, <2>6 DEF Update, Narrow, InCircle
    <3> HIDE DEF s
    <3>2. qMaxLim \in Nat
      BY DEF InCircle
    <3>3. QED
      BY <1>1, <2>1, <3>1, <3>2, StepDownToZero
  <2>7. base' \div SlewDivisor = q
    BY <2>2
  <2> HIDE DEF q, s
  <2>8. ASSUME qdir > 0
        PROVE  qMinLim' = 0 \/ qMinLim' >= blocked' * q - base
    <3>1. qMinLim >= blocked * q - base \/ qMinLim = 0
      BY <2>8 DEF WalksIn, q
    <3>2. CASE qMinLim = 0
      <4>1. qMinLim' \in Int /\ qMinLim' <= 0
        BY DEF InCircle
      <4>2. QED
        BY <2>1, <2>5, <2>8, <3>2, <4>1
    <3>3. CASE qMinLim # 0
      <4>1. qMinLim \in Int /\ qMinLim' \in Int /\ base \in Int
        BY DEF InCircle
      <4>2. QED
        BY <2>1, <2>4, <2>5, <2>8, <3>1, <3>3, <4>1
    <3>4. QED
      BY <3>2, <3>3
  <2>9. ASSUME qdir < 0
        PROVE  qMaxLim' = 0 \/ qMaxLim' <= base - blocked' * q
    <3>1. qMaxLim <= base - blocked * q \/ qMaxLim = 0
      BY <2>9 DEF WalksIn, q
    <3>2. CASE qMaxLim = 0
      <4>1. qMaxLim' \in Int /\ 0 <= qMaxLim'
        BY DEF InCircle
      <4>2. QED
        BY <2>1, <2>6, <2>9, <3>2, <4>1
    <3>3. CASE qMaxLim # 0
      <4>1. qMaxLim \in Int /\ qMaxLim' \in Int /\ base \in Int
        BY DEF InCircle
      <4>2. QED
        BY <2>1, <2>4, <2>6, <2>9, <3>1, <3>3, <4>1
    <3>4. QED
      BY <3>2, <3>3
  <2>10. QED
    BY <1>1, <2>2, <2>3, <2>7, <2>8, <2>9 DEF WalksIn
<1>4. QED
  BY <1>2, <1>3

\* The two facts hold together in every state of the clamp.
LEMMA ClampInvariant == QClampSpec => [](InCircle /\ WalksIn)
<1>1. QClampInit => InCircle /\ WalksIn
  BY QClampAssumption, Quotient DEF QClampAssumption, QClampInit, InCircle, WalksIn
<1>2. InCircle /\ WalksIn /\ [QClampNext]_qClampVars => InCircle' /\ WalksIn'
  <2> SUFFICES ASSUME InCircle, WalksIn, [QClampNext]_qClampVars
               PROVE  InCircle' /\ WalksIn'
    OBVIOUS
  <2>1. CASE ResetVoltageLimits
    <3>1. -MaxVd \in Int /\ MaxVd \in Int
      BY QClampAssumption DEF QClampAssumption
    <3>2. QED
      BY <2>1, <3>1 DEF ResetVoltageLimits, qClampState, qClampHistory, InCircle, WalksIn
  <2>2. CASE ClampedRun
    <3>1. PICK frqFiltered \in Speeds, limit \in QLimits, dir \in {-1, 0, 1},
               thresholdHz \in ThresholdsHz :
            Update(frqFiltered, limit, dir, thresholdHz)
      BY <2>2 DEF ClampedRun
    <3>2. RunController
      BY <2>2 DEF ClampedRun
    <3>3. InCircle'
      BY <3>1, <3>2, NarrowInCircle
    <3>4. QED
      BY <3>1, <3>3, NarrowWalksIn
  <2>3. CASE UNCHANGED qClampVars
    BY <2>3 DEF qClampVars, qClampState, qController, qClampHistory, InCircle, WalksIn
  <2>4. QED
    BY <2>1, <2>2, <2>3 DEF QClampNext
<1>3. QED
  BY <1>1, <1>2, PTL DEF QClampSpec

\* For every limit, step and band: the clamp's bounds and the controller's output
\* stay inside the circle of the last interrupt, and 0 between the bounds.
THEOREM ClampStaysInCircle == QClampSpec => []StaysInCircle
<1>1. InCircle => StaysInCircle
  BY DEF InCircle, StaysInCircle
<1>2. QED
  BY <1>1, ClampInvariant, PTL

\* For every slew divisor and every limit not below it, two walks are enough: what
\* the clamp blocks the controller does not put out.
THEOREM ClampBlocksRegen == QClampSpec => []RegenBlocked
<1>1. InCircle /\ WalksIn => RegenBlocked
  <2> SUFFICES ASSUME InCircle, WalksIn, blocked = 2 * SlewDivisor, base >= SlewDivisor
               PROVE  qdir * uq >= 0
    BY DEF RegenBlocked
  <2> DEFINE q == base \div SlewDivisor
             p == SlewDivisor * q
  <2>1. SlewDivisor \in Nat \ {0} /\ base \in Nat
    BY QClampAssumption DEF QClampAssumption, InCircle
  <2>2. q \in Nat /\ p <= base /\ base < p + SlewDivisor
    BY <2>1, Quotient
  <2> HIDE DEF q
  <2>3. q # 0
    BY <2>1, <2>2
  <2>4. p \in Nat /\ SlewDivisor <= p /\ blocked * q = 2 * p
    <3>1. PICK k \in Nat : q = k + 1
      BY <2>2, <2>3
    <3>2. SlewDivisor * (k + 1) = SlewDivisor * k + SlewDivisor /\ SlewDivisor * k \in Nat
      BY <2>1, <3>1
    <3>3. (2 * SlewDivisor) * q = 2 * (SlewDivisor * q)
      BY <2>1, <2>2
    <3>4. QED
      BY <2>1, <3>1, <3>2, <3>3
  <2> HIDE DEF p
  <2>5. blocked * q - base > 0
    BY <2>1, <2>2, <2>4
  <2>6. CASE qdir = 1
    <3>1. qMinLim = 0 \/ qMinLim >= blocked * q - base
      BY <2>6 DEF WalksIn, q
    <3>2. qMinLim \in Int /\ qMinLim <= 0 /\ uq \in Int
      BY DEF InCircle
    <3>3. qMinLim = 0
      BY <2>1, <2>4, <2>5, <3>1, <3>2
    <3>4. QED
      BY <2>6, <3>2, <3>3 DEF InCircle
  <2>7. CASE qdir = -1
    <3>1. qMaxLim = 0 \/ qMaxLim <= base - blocked * q
      BY <2>7 DEF WalksIn, q
    <3>2. qMaxLim \in Int /\ 0 <= qMaxLim /\ uq \in Int
      BY DEF InCircle
    <3>3. qMaxLim = 0
      BY <2>1, <2>4, <2>5, <3>1, <3>2
    <3>4. QED
      BY <2>7, <3>2, <3>3 DEF InCircle
  <2>8. CASE qdir = 0
    BY <2>8 DEF InCircle
  <2>9. QED
    BY <2>6, <2>7, <2>8 DEF InCircle
<1>2. QED
  BY <1>1, ClampInvariant, PTL

-----------------------------------------------------------------------------
(* The offsets of the current sensors.                                     *)

\* Interrupts that hold the output off until the offsets are this session's: the
\* buffer is filled and averaged, twice if it begins with readings of the last
\* session.
ReadingsToGo ==
  IF own = samples THEN OffsetSamples + 1 - samples ELSE 2 * (OffsetSamples + 1) - samples

\* The buffer holds no more of this session than there is in it, and once the wait
\* is set it is long enough for what is still to be done.
WaitSuffices ==
  /\ phase \in {"off", "published", "waiting", "on"}
  /\ initwait \in 0 .. PwmInitWait
  /\ samples \in 0 .. OffsetSamples /\ own \in 0 .. samples
  /\ phase \in {"waiting", "on"} /\ ~calibrated => ReadingsToGo < initwait

LEMMA WaitInvariant == OffsetsSpec => []WaitSuffices
<1>1. OffsetsInit => WaitSuffices
  BY OffsetsAssumption DEF OffsetsAssumption, OffsetsInit, WaitSuffices
<1>2. WaitSuffices /\ [OffsetsNext]_offsetsVars => WaitSuffices'
  <2> SUFFICES ASSUME WaitSuffices, [OffsetsNext]_offsetsVars
               PROVE  WaitSuffices'
    OBVIOUS
  <2> USE OffsetsAssumption DEF OffsetsAssumption, WaitSuffices, ReadingsToGo
  <2>1. CASE PublishRun
    BY <2>1 DEF PublishRun
  <2>2. CASE PwmInitSetsWait
    BY <2>2 DEF PwmInitSetsWait
  <2>3. CASE ConnectChannels
    BY <2>3 DEF ConnectChannels
  <2>4. CASE StopPwm
    BY <2>4 DEF StopPwm
  <2>5. CASE SetIdle
    BY <2>5 DEF SetIdle
  <2>6. CASE RunIsr /\ HoldOff
    <3>1. CASE samples < OffsetSamples
      BY <2>6, <3>1 DEF RunIsr, HoldOff, RunOffsetCalibration
    <3>2. CASE ~(samples < OffsetSamples)
      <4>1. calibrated' = (calibrated \/ own = samples) /\ samples' = 0 /\ own' = 0
        BY <2>6, <3>2 DEF HoldOff, RunOffsetCalibration
      <4>2. ~calibrated' => ~calibrated /\ own # samples
        BY <4>1, Zenon
      <4>3. QED
        BY <2>6, <3>2, <4>1, <4>2 DEF RunIsr
    <3>3. QED
      BY <3>1, <3>2
  <2>7. CASE RunIsr /\ GoLive
    BY <2>7 DEF RunIsr, GoLive
  <2>8. CASE UNCHANGED offsetsVars
    BY <2>8 DEF offsetsVars
  <2>9. RunIsr => HoldOff \/ GoLive
    BY DEF RunIsr
  <2>10. QED
    BY <2>1, <2>2, <2>3, <2>4, <2>5, <2>6, <2>7, <2>8, <2>9 DEF OffsetsNext
<1>3. QED
  BY <1>1, <1>2, PTL DEF OffsetsSpec

\* For every number of samples: an init phase of at least twice an average never
\* ends before the sensors are calibrated, whatever the last session left.
THEOREM CalibrationComesFirst == OffsetsSpec => CalibratedBeforeTorque
<1>1. WaitSuffices /\ [OffsetsNext]_offsetsVars
        => (RunIsr /\ phase \in {"waiting", "on"} /\ mainOutput' => calibrated')
  <2> SUFFICES ASSUME WaitSuffices, RunIsr, phase \in {"waiting", "on"}, mainOutput'
               PROVE  calibrated'
    OBVIOUS
  <2>1. GoLive
    BY DEF RunIsr, HoldOff
  <2>2. CASE calibrated
    BY <2>1, <2>2 DEF GoLive
  <2>3. CASE ~calibrated
    <3>1. ReadingsToGo < initwait /\ ReadingsToGo >= 1 /\ initwait \in Nat
      BY <2>3, OffsetsAssumption
         DEF OffsetsAssumption, WaitSuffices, ReadingsToGo
    <3>2. initwait <= 1
      BY <2>1, OffsetsAssumption DEF RunIsr, GoLive, WaitSuffices
    <3>3. ReadingsToGo \in Int
      BY OffsetsAssumption DEF OffsetsAssumption, WaitSuffices, ReadingsToGo
    <3>4. QED
      BY <3>1, <3>2, <3>3
  <2>4. QED
    BY <2>2, <2>3
<1>2. QED
  BY <1>1, WaitInvariant, PTL DEF OffsetsSpec, CalibratedBeforeTorque

-----------------------------------------------------------------------------
(* The charge current.                                                     *)

LEMMA LesserOf ==
  ASSUME NEW m \in Int, NEW n \in Int
  PROVE  Min({m, n}) \in {m, n} /\ Min({m, n}) <= m /\ Min({m, n}) <= n
<1>1. \E x \in {m, n} : \A y \in {m, n} : x <= y
  OBVIOUS
<1>2. QED
  BY <1>1 DEF Min

LEMMA GreaterOf ==
  ASSUME NEW m \in Int, NEW n \in Int
  PROVE  Max({m, n}) \in {m, n} /\ Max({m, n}) >= m /\ Max({m, n}) >= n
<1>1. \E x \in {m, n} : \A y \in {m, n} : x >= y
  OBVIOUS
<1>2. QED
  BY <1>1 DEF Max

LEMMA LeastOfThree ==
  ASSUME NEW k \in Int, NEW m \in Int, NEW n \in Int
  PROVE  Min({k, m, n}) \in {k, m, n}
<1>1. \E x \in {k, m, n} : \A y \in {k, m, n} : x <= y
  OBVIOUS
<1>2. QED
  BY <1>1 DEF Min

\* A share of a current: no more than a larger share, and all of it at most.
LEMMA ShareOf ==
  ASSUME NEW share \in Nat, NEW most \in Nat, share <= most, NEW current \in Nat
  PROVE  /\ (share * current) \div 100 \in Nat
         /\ (share * current) \div 100 <= (most * current) \div 100
<1> DEFINE d == most - share
<1>1. d \in Nat /\ most = share + d
  OBVIOUS
<1> HIDE DEF d
<1>2. (share + d) * current = share * current + d * current
  BY <1>1
<1>3. share * current \in Nat /\ d * current \in Nat /\ most * current \in Nat
  BY <1>1
<1>4. share * current <= most * current
  BY <1>1, <1>2, <1>3
<1>5. QED
  BY <1>3, <1>4

\* Either factor: at most 100, and at most five or ten times what is left.
LEMMA DerateBounded ==
  ASSUME NEW left \in Int, NEW gain \in Nat
  PROVE  LET factor == Min({100, Positive(gain * left)})
         IN /\ factor \in 0 .. 100
            /\ left <= 0 => factor = 0
            /\ left > 0 => factor <= gain * left
<1>1. gain * left \in Int /\ (left <= 0 => gain * left <= 0) /\ (left > 0 => gain * left >= 0)
  OBVIOUS
<1> DEFINE g == gain * left
<1> HIDE DEF g
<1>2. g \in Int /\ (left <= 0 => g <= 0) /\ (left > 0 => g >= 0)
  BY <1>1 DEF g
<1>3. Positive(g) \in Nat /\ (left <= 0 => Positive(g) = 0) /\ (left > 0 => Positive(g) = g)
  <2>1. 0 \in Int /\ g \in Int
    BY <1>2
  <2>2. /\ Max({0, g}) \in {0, g}
        /\ Max({0, g}) >= 0
        /\ Max({0, g}) >= g
    BY <2>1, GreaterOf, Zenon
  <2>3. Positive(g) = Max({0, g})
    BY DEF Positive
  <2>4. QED
    BY <1>2, <2>2, <2>3
<1>4. /\ Min({100, Positive(g)}) \in {100, Positive(g)}
      /\ Min({100, Positive(g)}) <= 100
      /\ Min({100, Positive(g)}) <= Positive(g)
  BY <1>3, LesserOf
<1>5. /\ Min({100, Positive(g)}) \in 0 .. 100
      /\ left <= 0 => Min({100, Positive(g)}) = 0
      /\ left > 0 => Min({100, Positive(g)}) <= g
  BY <1>2, <1>3, <1>4
<1>6. QED
  BY <1>5 DEF g

\* What a tick derates to is no more than the derating lets through.
LEMMA DeratedIsAllowed ==
  ASSUME NEW chargeCur \in ChargeCurrents, NEW udc \in UdcReadings, NEW tmphs \in HsTemps
  PROVE  /\ Derated(chargeCur, udc, tmphs) \in Nat
         /\ Allowed(chargeCur, udc, tmphs) \in Nat
         /\ Derated(chargeCur, udc, tmphs) <= Allowed(chargeCur, udc, tmphs)
<1>1. chargeCur \in Nat /\ udc \in Nat /\ tmphs \in Nat /\ ChgUdcMax \in Nat /\ TmpHsMax \in Nat
  BY ChargerAssumption DEF ChargerAssumption
<1> DEFINE u == ChgUdcMax - udc
           t == TmpHsMax - tmphs
           byUdc == UdcDerate(udc)
           byTemp == TempDerate(tmphs)
           factor == Min({byUdc, byTemp})
<1>2. u \in Int /\ t \in Int
  BY <1>1
<1>3. byUdc \in 0 .. 100 /\ (u <= 0 => byUdc = 0) /\ (u > 0 => byUdc <= 5 * u)
  <2> HIDE DEF u
  <2>1. 5 \in Nat
    OBVIOUS
  <2>2. byUdc = Min({100, Positive(5 * u)})
    BY DEF UdcDerate, u
  <2>3. QED
    BY <1>2, <2>1, <2>2, DerateBounded
<1>4. byTemp \in 0 .. 100 /\ (t <= 0 => byTemp = 0) /\ (t > 0 => byTemp <= 10 * t)
  <2> HIDE DEF t
  <2>1. 10 \in Nat
    OBVIOUS
  <2>2. byTemp = Min({100, Positive(10 * t)})
    BY DEF TempDerate, t
  <2>3. QED
    BY <1>2, <2>1, <2>2, DerateBounded
<1> HIDE DEF byUdc, byTemp
<1>5. factor \in 0 .. 100 /\ factor <= byUdc /\ factor <= byTemp
  <2>1. byUdc \in Int /\ byTemp \in Int
    BY <1>3, <1>4
  <2>2. factor \in {byUdc, byTemp} /\ factor <= byUdc /\ factor <= byTemp
    BY <2>1, LesserOf, Zenon
  <2>3. QED
    BY <1>3, <1>4, <2>2
<1>6. Derated(chargeCur, udc, tmphs) = (factor * chargeCur) \div 100
  BY DEF Derated, byUdc, byTemp
<1> HIDE DEF factor
<1>7. CASE u <= 0 \/ t <= 0
  <2>1. factor = 0
    BY <1>3, <1>4, <1>5, <1>7
  <2>2. Derated(chargeCur, udc, tmphs) = 0
    BY <1>1, <1>6, <2>1
  <2>3. Allowed(chargeCur, udc, tmphs) = 0
    BY <1>1, <1>7 DEF Allowed
  <2>4. QED
    BY <2>2, <2>3
<1>8. CASE u > 0 /\ t > 0
  <2> HIDE DEF u, t
  <2>1. factor \in Nat /\ factor <= 100 /\ factor <= 5 * u /\ factor <= 10 * t
    BY <1>2, <1>3, <1>4, <1>5, <1>8
  <2>2. /\ 5 * u \in Nat /\ 10 * t \in Nat /\ 100 \in Nat
        /\ (100 * chargeCur) \div 100 = chargeCur
    BY <1>1, <1>2, <1>8
  <2> DEFINE c == (factor * chargeCur) \div 100
             c1 == (5 * u * chargeCur) \div 100
             c2 == (10 * t * chargeCur) \div 100
  <2>3. c \in Nat /\ c <= (100 * chargeCur) \div 100
    BY <1>1, <2>1, <2>2, ShareOf
  <2>4. c <= c1 /\ c1 \in Nat
    <3> DEFINE most == 5 * u
    <3> HIDE DEF most
    <3>1. most \in Nat /\ factor <= most
      BY <2>1, <2>2 DEF most
    <3>2. c <= (most * chargeCur) \div 100 /\ (most * chargeCur) \div 100 \in Nat
      BY <1>1, <2>1, <3>1, ShareOf
    <3>3. QED
      BY <3>2 DEF most
  <2>5. c <= c2 /\ c2 \in Nat
    <3> DEFINE most == 10 * t
    <3> HIDE DEF most
    <3>1. most \in Nat /\ factor <= most
      BY <2>1, <2>2 DEF most
    <3>2. c <= (most * chargeCur) \div 100 /\ (most * chargeCur) \div 100 \in Nat
      BY <1>1, <2>1, <3>1, ShareOf
    <3>3. QED
      BY <3>2 DEF most
  <2>6. Allowed(chargeCur, udc, tmphs) = Min({chargeCur, c1, c2})
    BY <1>1, <1>8 DEF Allowed, u, t
  <2> HIDE DEF c, c1, c2
  <2>7. Min({chargeCur, c1, c2}) \in {chargeCur, c1, c2}
    BY <1>1, <2>4, <2>5, LeastOfThree
  <2>8. Derated(chargeCur, udc, tmphs) = c
    BY <1>6 DEF c
  <2>9. QED
    BY <1>1, <2>2, <2>3, <2>4, <2>5, <2>6, <2>7, <2>8
<1>9. QED
  BY <1>2, <1>7, <1>8

\* Configured, the controller's reference is what the session has been granted.
ReferenceGranted ==
  /\ {chargeCurRamped, reference, granted} \subseteq Nat
  /\ session = "on" => reference <= granted

LEMMA GrantInvariant == ChargerSpec => []ReferenceGranted
<1>1. ChargerInit => ReferenceGranted
  BY DEF ChargerInit, ReferenceGranted
<1>2. ReferenceGranted /\ [ChargerNext]_chargerVars => ReferenceGranted'
  <2> SUFFICES ASSUME ReferenceGranted, [ChargerNext]_chargerVars
               PROVE  ReferenceGranted'
    OBVIOUS
  <2> USE DEF ReferenceGranted
  <2>1. CASE PublishCharge
    BY <2>1 DEF PublishCharge
  <2>2. CASE EnableCharge
    BY <2>2 DEF EnableCharge
  <2>3. CASE ConfigureChargeController
    BY <2>3 DEF ConfigureChargeController
  <2>4. CASE StopCharge
    BY <2>4 DEF StopCharge
  <2>5. CASE RunCharger
    <3>1. PICK chargeCur \in ChargeCurrents, udc \in UdcReadings, tmphs \in HsTemps :
            /\ chargeCurRamped' = Ramped(Derated(chargeCur, udc, tmphs))
            /\ granted' = Allowed(chargeCur, udc, tmphs)
      BY <2>5 DEF RunCharger
    <3> DEFINE derated == Derated(chargeCur, udc, tmphs)
    <3>2. derated \in Nat /\ granted' \in Nat /\ derated <= granted'
      BY <3>1, DeratedIsAllowed
    <3> HIDE DEF derated
    <3>3. Ramped(derated) \in Nat /\ Ramped(derated) <= derated
      <4>1. derated \in Int /\ chargeCurRamped + 1 \in Int /\ chargeCurRamped + 1 \in Nat
        BY <3>2
      <4>2. /\ Min({derated, chargeCurRamped + 1}) \in {derated, chargeCurRamped + 1}
            /\ Min({derated, chargeCurRamped + 1}) <= derated
        BY <4>1, LesserOf, Zenon
      <4>3. QED
        BY <3>2, <4>1, <4>2 DEF Ramped
    <3>4. chargeCurRamped' = Ramped(derated) /\ reference' = chargeCurRamped'
      BY <2>5, <3>1 DEF RunCharger, derated
    <3>5. QED
      BY <3>2, <3>3, <3>4
  <2>6. CASE Charge
    BY <2>6 DEF Charge
  <2>7. CASE UNCHANGED chargerVars
    BY <2>7 DEF chargerVars
  <2>8. QED
    BY <2>1, <2>2, <2>3, <2>4, <2>5, <2>6, <2>7 DEF ChargerNext
<1>3. QED
  BY <1>1, <1>2, PTL DEF ChargerSpec

\* For every limit, reading and wish: once configured no interrupt regulates to more
\* than the last tick of the session let through.
THEOREM ChargerAlwaysYields == ChargerSpec => ChargerYields
<1>1. ReferenceGranted => (Charge /\ session = "on" => drawn' <= granted)
  BY DEF ReferenceGranted, Charge
<1>2. QED
  BY <1>1, GrantInvariant, PTL DEF ChargerSpec, ChargerYields

-----------------------------------------------------------------------------
(* Anti-cogging.                                                           *)

\* The extremes are those of the currents sampled since the last crossing, or there
\* is none yet and the rotor is where the crossing left it.
SwingSeen ==
  /\ idsSeen \subseteq -IdSwing .. IdSwing
  /\ cogAngle \in Angles
  /\ coggingCurrent \in 0 .. 2 * IdSwing
  /\ \/ /\ minId \in idsSeen
        /\ maxId \in idsSeen
        /\ \A id \in idsSeen : minId <= id /\ id <= maxId
     \/ /\ idsSeen = {}
        /\ minId = IntMax
        /\ maxId = -IntMax
        /\ cogAngle > Half

\* What fits is kept as it is.
LEMMA NoOverflow ==
  ASSUME NEW n \in -IntMax .. IntMax
  PROVE  Overflowed(n) = n
<1> DEFINE width == 2 * IntMax + 2
           shifted == n + IntMax + 1
<1>1. width \in Nat \ {0} /\ shifted \in 0 .. width - 1
  BY AntiCogAssumption DEF AntiCogAssumption
<1>2. Overflowed(n) = (shifted % width) - IntMax - 1
  BY DEF Overflowed
<1> HIDE DEF width
<1>3. ASSUME NEW k \in 0 .. width - 1
      PROVE  k % width = k
  BY <1>1
<1>4. shifted % width = shifted
  BY <1>1, <1>3
<1>5. QED
  BY <1>2, <1>4, AntiCogAssumption DEF AntiCogAssumption

LEMMA AngleTurns ==
  ASSUME NEW a \in Angles, NEW step \in {-1, 0, 1}
  PROVE  /\ (a + step) % Turn \in Angles
         /\ (a + step) % Turn = IF a + step = Turn THEN 0
                               ELSE IF a + step = -1 THEN Turn - 1 ELSE a + step
<1>1. Turn \in Nat /\ Turn >= 4 /\ Angles = 0 .. Turn - 1
  BY AntiCogAssumption DEF AntiCogAssumption, Turn, Angles
<1> HIDE DEF Turn, Angles
<1>2. ASSUME NEW x \in 0 .. Turn - 1
      PROVE  x % Turn = x
  BY <1>1
<1>3. CASE a + step \in 0 .. Turn - 1
  BY <1>1, <1>2, <1>3
<1>4. CASE a + step = Turn
  BY <1>1, <1>4
<1>5. CASE a + step = -1
  BY <1>1, <1>5
<1>6. QED
  BY <1>1, <1>3, <1>4, <1>5

\* A sample more widens the extremes to those of the larger set ...
LEMMA ExtremesWiden ==
  ASSUME NEW seen \in SUBSET (-IdSwing .. IdSwing), NEW id \in -IdSwing .. IdSwing,
         NEW low \in Int, NEW high \in Int,
         \/ /\ low \in seen
            /\ high \in seen
            /\ \A x \in seen : low <= x /\ x <= high
         \/ seen = {} /\ low = IntMax /\ high = -IntMax
  PROVE  /\ Least(id, low) \in seen \cup {id}
         /\ Greatest(id, high) \in seen \cup {id}
         /\ \A x \in seen \cup {id} : Least(id, low) <= x /\ x <= Greatest(id, high)
<1>1. IdSwing \in Nat /\ IntMax \in Nat /\ 2 * IdSwing <= IntMax
  BY AntiCogAssumption
<1>2. \A x \in seen : x \in Int
  BY <1>1
<1>3. CASE seen = {} /\ low = IntMax /\ high = -IntMax
  <2>1. Least(id, low) = id /\ Greatest(id, high) = id
    BY <1>1, <1>3 DEF Least, Greatest
  <2> QED
    BY <1>1, <1>3, <2>1
<1>4. CASE /\ low \in seen
           /\ high \in seen
           /\ \A x \in seen : low <= x /\ x <= high
  <2>1. Least(id, low) \in {id, low} /\ Greatest(id, high) \in {id, high}
    BY DEF Least, Greatest
  <2>2. /\ Least(id, low) <= id /\ Least(id, low) <= low
        /\ id <= Greatest(id, high) /\ high <= Greatest(id, high)
    BY <1>1 DEF Least, Greatest
  <2>3. ASSUME NEW x \in seen \cup {id}
        PROVE  Least(id, low) <= x /\ x <= Greatest(id, high)
    <3>1. CASE x = id
      BY <2>2, <3>1
    <3>2. CASE x \in seen
      <4>1. low <= x /\ x <= high /\ x \in Int
        BY <1>2, <1>4, <3>2
      <4>2. Least(id, low) \in Int /\ Greatest(id, high) \in Int
        BY <1>1, <2>1
      <4> QED
        BY <2>2, <4>1, <4>2
    <3> QED
      BY <3>1, <3>2
  <2> QED
    BY <1>4, <2>1, <2>3
<1> QED
  BY <1>3, <1>4

LEMMA ExtremesAreInt ==
  ASSUME SwingSeen
  PROVE  minId \in Int /\ maxId \in Int
<1>1. IdSwing \in Nat /\ IntMax \in Nat
  BY AntiCogAssumption
<1>2. CASE minId \in idsSeen /\ maxId \in idsSeen
  <2>1. minId \in -IdSwing .. IdSwing /\ maxId \in -IdSwing .. IdSwing
    BY <1>2 DEF SwingSeen
  <2> QED
    BY <1>1, <2>1
<1>3. CASE minId = IntMax /\ maxId = -IntMax
  BY <1>1, <1>3
<1> QED
  BY <1>2, <1>3 DEF SwingSeen

\* ... and their difference is the spread of the set.
LEMMA ExtremesSpread ==
  ASSUME SwingSeen, NEW a \in Angles, Crosses(a)
  PROVE  /\ minId - maxId \in -(2 * IdSwing) .. 0
         /\ IsSpread(maxId - minId, idsSeen)
<1>1. /\ IdSwing \in Nat
      /\ minId \in idsSeen
      /\ maxId \in idsSeen
      /\ \A id \in idsSeen : minId <= id /\ id <= maxId
  BY AntiCogAssumption DEF SwingSeen, Crosses, Half, Angles, Turn
<1>2. \A id \in idsSeen : id \in -IdSwing .. IdSwing
  BY DEF SwingSeen
<1>3. minId \in -IdSwing .. IdSwing /\ maxId \in -IdSwing .. IdSwing /\ minId <= maxId
  BY <1>1, <1>2
<1>4. \A low, high \in idsSeen : high - low <= maxId - minId
  <2> TAKE low \in idsSeen, high \in idsSeen
  <2>1. minId <= low /\ high <= maxId /\ low \in Int /\ high \in Int
    BY <1>1, <1>2
  <2> QED
    BY <1>1, <1>3, <2>1
<1> QED
  BY <1>1, <1>3, <1>4 DEF IsSpread

LEMMA SwingPasses ==
  ASSUME SwingSeen, NEW a \in Angles, Crosses(a), Passes
  PROVE  coggingCurrent' \in 0 .. 2 * IdSwing /\ IsSpread(coggingCurrent', idsSeen)
<1>1. /\ IdSwing \in Nat /\ IntMax \in Nat /\ 2 * IdSwing <= IntMax
  BY AntiCogAssumption
<1>2. minId - maxId \in -(2 * IdSwing) .. 0 /\ IsSpread(maxId - minId, idsSeen)
  BY ExtremesSpread
<1>3. Overflowed(minId - maxId) = minId - maxId
  BY <1>1, <1>2, NoOverflow
<1>4. minId \in Int /\ maxId \in Int
  BY ExtremesAreInt
<1>5. coggingCurrent' = maxId - minId
  BY <1>1, <1>2, <1>3, <1>4 DEF Passes, Magnitude32
<1> QED
  BY <1>1, <1>2, <1>4, <1>5

LEMMA SwingInvariant == AntiCogSpec => []SwingSeen
<1>1. AntiCogInit => SwingSeen
  BY AntiCogAssumption DEF AntiCogInit, SwingSeen, Angles, Turn
<1>2. SwingSeen /\ [InjectAntiCog]_antiCogVars => SwingSeen'
  <2> SUFFICES ASSUME SwingSeen, [InjectAntiCog]_antiCogVars
               PROVE  SwingSeen'
    OBVIOUS
  <2>1. CASE InjectAntiCog
    <3>1. PICK a \in Angles, id \in -IdSwing .. IdSwing :
            /\ MeasureCoggingCurrent(a, id)
            /\ idsSeen' = IF Crosses(a) THEN {} ELSE idsSeen \cup {id}
      BY <2>1 DEF InjectAntiCog
    <3>2. cogAngle' = a
      BY <3>1 DEF MeasureCoggingCurrent
    <3>3. CASE Crosses(a)
      <4>1. Passes
        BY <3>1, <3>3 DEF MeasureCoggingCurrent
      <4>2. coggingCurrent' \in 0 .. 2 * IdSwing
        BY <3>3, <4>1, SwingPasses
      <4>3. idsSeen' = {} /\ cogAngle' > Half
        BY <3>1, <3>2, <3>3 DEF Crosses
      <4> QED
        BY <3>2, <4>1, <4>2, <4>3 DEF Passes, SwingSeen
    <3>4. CASE ~Crosses(a)
      <4>1. Widens(id) /\ idsSeen' = idsSeen \cup {id}
        BY <3>1, <3>4 DEF MeasureCoggingCurrent
      <4>2. idsSeen \in SUBSET (-IdSwing .. IdSwing)
        BY DEF SwingSeen
      <4>3. minId \in Int /\ maxId \in Int
        BY ExtremesAreInt
      <4>4. \/ /\ minId \in idsSeen
               /\ maxId \in idsSeen
               /\ \A x \in idsSeen : minId <= x /\ x <= maxId
            \/ idsSeen = {} /\ minId = IntMax /\ maxId = -IntMax
        BY DEF SwingSeen
      <4>5. /\ Least(id, minId) \in idsSeen \cup {id}
            /\ Greatest(id, maxId) \in idsSeen \cup {id}
            /\ \A x \in idsSeen \cup {id} :
                 Least(id, minId) <= x /\ x <= Greatest(id, maxId)
        BY <4>2, <4>3, <4>4, ExtremesWiden
      <4>6. /\ minId' \in idsSeen'
            /\ maxId' \in idsSeen'
            /\ \A x \in idsSeen' : minId' <= x /\ x <= maxId'
        BY <4>1, <4>5 DEF Widens
      <4>7. coggingCurrent' = coggingCurrent /\ idsSeen' \subseteq -IdSwing .. IdSwing
        BY <4>1, <4>2 DEF Widens
      <4> QED
        BY <3>2, <4>6, <4>7 DEF SwingSeen
    <3> QED
      BY <3>3, <3>4
  <2>2. CASE UNCHANGED antiCogVars
    BY <2>2 DEF antiCogVars, swing, SwingSeen
  <2> QED
    BY <2>1, <2>2
<1> QED
  BY <1>1, <1>2, PTL DEF AntiCogSpec

\* For every angle resolution, current and sequence of angles: the swing taken at a
\* crossing is the spread of the currents sampled since the one before.
THEOREM SwingAlwaysReal == AntiCogSpec => SwingIsReal
<1>1. SwingSeen /\ [InjectAntiCog]_antiCogVars
        => [IF Crosses(cogAngle') THEN IsSpread(coggingCurrent', idsSeen)
            ELSE coggingCurrent' = coggingCurrent]_antiCogVars
  <2> SUFFICES ASSUME SwingSeen, InjectAntiCog
               PROVE  IF Crosses(cogAngle') THEN IsSpread(coggingCurrent', idsSeen)
                      ELSE coggingCurrent' = coggingCurrent
    OBVIOUS
  <2>1. PICK a \in Angles, id \in -IdSwing .. IdSwing : MeasureCoggingCurrent(a, id)
    BY DEF InjectAntiCog
  <2>2. cogAngle' = a
    BY <2>1 DEF MeasureCoggingCurrent
  <2>3. CASE Crosses(a)
    BY <2>1, <2>2, <2>3, SwingPasses DEF MeasureCoggingCurrent
  <2>4. CASE ~Crosses(a)
    BY <2>1, <2>2, <2>4 DEF MeasureCoggingCurrent, Widens
  <2> QED
    BY <2>2, <2>3, <2>4
<1> QED
  BY <1>1, SwingInvariant, PTL DEF AntiCogSpec, SwingIsReal

\* With the phase added the angle turns by the same step.
LEMMA PhaseTurns ==
  ASSUME NEW a \in Angles, NEW p \in Angles, NEW step \in {-1, 0, 1}
  PROVE  /\ (a + p) % Turn \in Angles
         /\ (((a + step) % Turn) + p) % Turn = (((a + p) % Turn) + step) % Turn
<1>1. Turn \in Nat /\ Turn >= 4 /\ Angles = 0 .. Turn - 1
  BY AntiCogAssumption DEF AntiCogAssumption, Turn, Angles
<1>2. ASSUME NEW x \in 0 .. Turn - 1, NEW y \in 0 .. Turn - 1
      PROVE  (x + y) % Turn = IF x + y >= Turn THEN x + y - Turn ELSE x + y
  <2> HIDE DEF Turn
  <2>1. ASSUME NEW z \in 0 .. Turn - 1
        PROVE  z % Turn = z /\ (z + Turn) % Turn = z
    BY <1>1
  <2>2. CASE x + y >= Turn
    <3> DEFINE z == x + y - Turn
    <3>1. z \in 0 .. Turn - 1 /\ z + Turn = x + y
      BY <1>1, <2>2
    <3> HIDE DEF z
    <3>2. (z + Turn) % Turn = z
      BY <2>1, <3>1
    <3>3. QED
      BY <2>2, <3>1, <3>2 DEF z
  <2>3. CASE ~(x + y >= Turn)
    BY <1>1, <2>1, <2>3
  <2>4. QED
    BY <2>2, <2>3
<1>3. ASSUME NEW x \in 0 .. Turn - 1
      PROVE  (x + step) % Turn = IF x + step = Turn THEN 0
                               ELSE IF x + step = -1 THEN Turn - 1 ELSE x + step
  BY <1>1, <1>3, AngleTurns
<1> HIDE DEF Turn, Angles
<1> DEFINE b == (a + p) % Turn
           c == (a + step) % Turn
<1>4. /\ b = (IF a + p >= Turn THEN a + p - Turn ELSE a + p)
      /\ b \in 0 .. Turn - 1
  BY <1>1, <1>2
<1>5. /\ c = (IF a + step = Turn THEN 0
              ELSE IF a + step = -1 THEN Turn - 1 ELSE a + step)
      /\ c \in 0 .. Turn - 1
  BY <1>1, <1>3
<1>6. (c + p) % Turn = IF c + p >= Turn THEN c + p - Turn ELSE c + p
  BY <1>1, <1>2, <1>5
<1>7. (b + step) % Turn = IF b + step = Turn THEN 0
                        ELSE IF b + step = -1 THEN Turn - 1 ELSE b + step
  BY <1>1, <1>3, <1>4
<1> HIDE DEF b, c
<1>8. (c + p) % Turn = (b + step) % Turn
  BY <1>1, <1>4, <1>5, <1>6, <1>7
<1>9. QED
  BY <1>1, <1>4, <1>8 DEF b, c

\* The fold has no jump, at no quarter turn and not where the angle wraps: the
\* triangle moves by its slope of 4 per digit, within half a turn.
THEOREM TriangleIsContinuous ==
  ASSUME NEW a \in Angles, NEW step \in {-1, 0, 1}
  PROVE  /\ AntiCogTriangle(a) \in -(2 * Quarter + 1) .. 2 * Quarter + 1
         /\ AntiCogTriangle((a + step) % Turn) - AntiCogTriangle(a) \in -4 .. 4
<1>1. Quarter \in Nat \ {0}
  BY AntiCogAssumption DEF AntiCogAssumption
<1> DEFINE b == (a + step) % Turn
<1>2. /\ b \in Angles
      /\ b = IF a + step = Turn THEN 0 ELSE IF a + step = -1 THEN Turn - 1 ELSE a + step
  BY AngleTurns
<1> HIDE DEF b
<1>3. AntiCogTriangle(a) \in -(2 * Quarter + 1) .. 2 * Quarter + 1
  BY <1>1 DEF AntiCogTriangle, Folded, Half, Angles, Turn
<1>4. AntiCogTriangle(b) - AntiCogTriangle(a) \in -4 .. 4
  BY <1>1, <1>2 DEF AntiCogTriangle, Folded, Half, Angles, Turn
<1>5. QED
  BY <1>3, <1>4 DEF b

LEMMA Cancel ==
  ASSUME NEW d \in Nat \ {0}, NEW x \in Int, NEW y \in Int, d * x < d * y
  PROVE  x < y
<1> SUFFICES ASSUME x >= y
             PROVE  FALSE
  OBVIOUS
<1> DEFINE k == x - y
<1>1. k \in Nat /\ x = y + k
  OBVIOUS
<1> HIDE DEF k
<1>2. d * (y + k) = d * y + d * k /\ d * k \in Nat
  BY <1>1
<1>3. QED
  BY <1>1, <1>2

\* Division rounds towards zero, and moves by the quotient of the change and one.
LEMMA QuotientSmooth ==
  ASSUME NEW d \in Nat \ {0}, NEW m \in Nat, NEW n \in Nat, NEW most \in Nat
  PROVE  /\ m <= n /\ n <= m + most => n \div d \in m \div d .. (m \div d) + (most \div d) + 1
         /\ m + n <= most => (m \div d) + (n \div d) <= most \div d
<1> DEFINE p == m \div d
           q == n \div d
           e == most \div d
<1>1. /\ p \in Nat /\ d * p <= m /\ m < d * p + d
      /\ q \in Nat /\ d * q <= n /\ n < d * q + d
      /\ e \in Nat /\ d * e <= most /\ most < d * e + d
  BY Quotient
<1>2. m <= n => p <= q
  BY QuotientMonotonic
<1> HIDE DEF p, q, e
<1>3. /\ d * (p + e + 2) = d * p + d * e + 2 * d
      /\ d * (p + q) = d * p + d * q
      /\ d * (e + 1) = d * e + d
      /\ d * p \in Nat /\ d * q \in Nat /\ d * e \in Nat
  BY <1>1
<1>4. ASSUME m <= n, n <= m + most
      PROVE  q \in p .. p + e + 1
  <2>1. d * q < d * (p + e + 2)
    BY <1>1, <1>3, <1>4
  <2>2. q < p + e + 2
    BY <1>1, <2>1, Cancel
  <2>3. QED
    BY <1>1, <1>2, <1>4, <2>2
<1>5. ASSUME m + n <= most
      PROVE  p + q <= e
  <2>1. d * (p + q) < d * (e + 1)
    BY <1>1, <1>3, <1>5
  <2>2. p + q < e + 1
    BY <1>1, <2>1, Cancel
  <2>3. QED
    BY <1>1, <2>2
<1>6. QED
  BY <1>4, <1>5 DEF p, q, e

LEMMA ScaledSmooth ==
  ASSUME NEW m \in Int, NEW n \in Int, NEW most \in Nat, n - m \in -most .. most
  PROVE  /\ Scaled(m) \in Int /\ Scaled(n) \in Int
         /\ Magnitude32(Scaled(n) - Scaled(m)) <= (most \div Turn) + 1
<1>1. Turn \in Nat \ {0}
  BY AntiCogAssumption DEF AntiCogAssumption, Turn
<1> HIDE DEF Turn
<1>2. ASSUME NEW k \in Nat
      PROVE  k \div Turn \in Nat
  BY <1>1
<1> DEFINE e == most \div Turn
<1>3. e \in Nat
  BY <1>2
<1>4. CASE m >= 0 /\ n >= 0
  <2>1. Scaled(m) = m \div Turn /\ Scaled(n) = n \div Turn
    BY <1>4 DEF Scaled
  <2>2. \/ n \div Turn \in m \div Turn .. (m \div Turn) + e + 1
        \/ m \div Turn \in n \div Turn .. (n \div Turn) + e + 1
    BY <1>1, <1>4, QuotientSmooth
  <2> HIDE DEF e
  <2>3. QED
    BY <1>2, <1>3, <1>4, <2>1, <2>2 DEF Magnitude32, e
<1>5. CASE m < 0 /\ n < 0
  <2> DEFINE p == -m
             q == -n
  <2>1. p \in Nat /\ q \in Nat /\ q - p \in -most .. most
    BY <1>5
  <2>2. Scaled(m) = -(p \div Turn) /\ Scaled(n) = -(q \div Turn)
    BY <1>5 DEF Scaled
  <2> HIDE DEF p, q
  <2>3. \/ q \div Turn \in p \div Turn .. (p \div Turn) + e + 1
        \/ p \div Turn \in q \div Turn .. (q \div Turn) + e + 1
    BY <1>1, <2>1, QuotientSmooth
  <2> HIDE DEF e
  <2>4. QED
    BY <1>2, <1>3, <2>1, <2>2, <2>3 DEF Magnitude32, e
<1>6. CASE m < 0 /\ n >= 0
  <2> DEFINE p == -m
  <2>1. p \in Nat /\ n \in Nat /\ p + n <= most
    BY <1>6
  <2>2. Scaled(m) = -(p \div Turn) /\ Scaled(n) = n \div Turn
    BY <1>6 DEF Scaled
  <2> HIDE DEF p
  <2>3. (p \div Turn) + (n \div Turn) <= e
    BY <1>1, <2>1, QuotientSmooth
  <2> HIDE DEF e
  <2>4. QED
    BY <1>2, <1>3, <2>1, <2>2, <2>3 DEF Magnitude32, e
<1>7. CASE m >= 0 /\ n < 0
  <2> DEFINE q == -n
  <2>1. q \in Nat /\ m \in Nat /\ m + q <= most
    BY <1>7
  <2>2. Scaled(m) = m \div Turn /\ Scaled(n) = -(q \div Turn)
    BY <1>7 DEF Scaled
  <2> HIDE DEF q
  <2>3. (m \div Turn) + (q \div Turn) <= e
    BY <1>1, <2>1, QuotientSmooth
  <2> HIDE DEF e
  <2>4. QED
    BY <1>2, <1>3, <2>1, <2>2, <2>3 DEF Magnitude32, e
<1>8. QED
  BY <1>4, <1>5, <1>6, <1>7

LEMMA LimitedSmooth ==
  ASSUME NEW x \in Int, NEW y \in Int
  PROVE  /\ Limited(x) \in Int /\ Limited(y) \in Int
         /\ Magnitude32(Limited(y) - Limited(x)) <= Magnitude32(y - x)
BY AntiCogAssumption DEF AntiCogAssumption, Limited, Least, Greatest, Magnitude32

\* A factor of a bounded product.
LEMMA ProductBounded ==
  ASSUME NEW k \in Nat, NEW f \in -k .. k, NEW c \in Nat, NEW g \in Int
  PROVE  /\ f * c * g = f * (c * g) /\ f * c * g \in Int
         /\ k * c * Magnitude32(g) \in Nat
         /\ f * c * g \in -(k * c * Magnitude32(g)) .. k * c * Magnitude32(g)
<1> DEFINE m == c * Magnitude32(g)
           w == c * g
<1>1. Magnitude32(g) \in Nat /\ (g = Magnitude32(g) \/ g = -Magnitude32(g))
  BY DEF Magnitude32
<1> DEFINE h == Magnitude32(g)
<1> HIDE DEF h
<1>2. h \in Nat /\ (g = h \/ g = -h) /\ m = c * h
  BY <1>1 DEF h
<1>3. m \in Nat /\ (w = m \/ w = -m)
  BY <1>2
<1>4. f * c * g = f * w /\ k * c * h = k * m
  BY <1>2
<1> HIDE DEF m, w
<1>5. ASSUME NEW z \in 0 .. k
      PROVE  z * m \in 0 .. k * m
  <2> DEFINE r == k - z
  <2>1. r \in Nat /\ z \in Nat /\ k = z + r
    OBVIOUS
  <2> HIDE DEF r
  <2>2. (z + r) * m = z * m + r * m /\ z * m \in Nat /\ r * m \in Nat
    BY <1>3, <2>1
  <2>3. QED
    BY <2>1, <2>2
<1>6. CASE f >= 0
  <2>1. f * m \in 0 .. k * m
    BY <1>5, <1>6
  <2>2. f * w = f * m \/ f * w = -(f * m)
    BY <1>3, <1>6
  <2>3. QED
    BY <1>3, <1>4, <2>1, <2>2 DEF h, w
<1>7. CASE f < 0
  <2> DEFINE z == -f
  <2>1. z \in 0 .. k /\ f = -z
    BY <1>7
  <2> HIDE DEF z
  <2>2. z * m \in 0 .. k * m
    BY <1>5, <2>1
  <2>3. f * w = z * m \/ f * w = -(z * m)
    BY <1>3, <2>1
  <2>4. QED
    BY <1>3, <1>4, <2>2, <2>3 DEF h, w
<1>8. QED
  BY <1>6, <1>7

\* The signal is the one for the angle and swing of the last interrupt.
SignalFollows ==
  /\ cogph \in Angles
  /\ cogkp \in Int
  /\ coggingCurrent \in Nat
  /\ anticog = GenerateAntiCoggingSignal(cogAngle, ToAmps(coggingCurrent))

LEMMA AmpsType ==
  ASSUME NEW n \in Nat
  PROVE  ToAmps(n) \in Nat
BY AntiCogAssumption DEF ToAmps

LEMMA GainsAreInt ==
  ASSUME cogph \in CogPhases, cogkp \in CogGains \cup {-gain : gain \in CogGains}
  PROVE  cogph \in Angles /\ cogkp \in Int
BY AntiCogAssumption DEF AntiCogAssumption, Angles, Turn

\* Without a swing there is no signal.
LEMMA NoSwingNoSignal ==
  ASSUME NEW a \in Angles, cogph \in Angles, cogkp \in Int
  PROVE  GenerateAntiCoggingSignal(a, 0) = 0
<1> DEFINE b == (a + cogph) % Turn
           f == AntiCogTriangle(b)
<1>1. b \in Angles
  <2>1. 0 \in {-1, 0, 1}
    OBVIOUS
  <2>2. QED
    BY <2>1, PhaseTurns
<1>2. f \in Int
  <2> HIDE DEF b
  <2>1. 0 \in {-1, 0, 1} /\ Quarter \in Nat
    BY AntiCogAssumption DEF AntiCogAssumption
  <2>2. QED
    BY <1>1, <2>1, TriangleIsContinuous
<1> HIDE DEF b, f
<1>3. f * 0 * cogkp = 0
  BY <1>2
<1>4. Overflowed(0) = 0
  <2>1. 0 \in -IntMax .. IntMax
    BY AntiCogAssumption DEF AntiCogAssumption
  <2>2. QED
    BY <2>1, NoOverflow
<1>5. Scaled(0) = 0
  <2>1. Turn \in Nat \ {0}
    BY AntiCogAssumption DEF AntiCogAssumption, Turn
  <2> HIDE DEF Turn
  <2>2. QED
    BY <2>1 DEF Scaled
<1>6. Limited(0) = 0
  BY AntiCogAssumption DEF AntiCogAssumption, Limited, Least, Greatest
<1>7. GenerateAntiCoggingSignal(a, 0) = Limited(Scaled(Overflowed(f * 0 * cogkp)))
  BY DEF GenerateAntiCoggingSignal, f, b
<1>8. QED
  BY <1>3, <1>4, <1>5, <1>6, <1>7

LEMMA SignalInvariant == AntiCogSpec => []SignalFollows
<1>1. AntiCogInit => SignalFollows
  <2> SUFFICES ASSUME AntiCogInit PROVE SignalFollows
    OBVIOUS
  <2>1. cogph \in Angles /\ cogkp \in Int /\ cogAngle \in Angles /\ coggingCurrent = 0 /\ anticog = 0
    BY GainsAreInt, AntiCogAssumption DEF AntiCogInit, AntiCogAssumption, Angles, Turn
  <2>2. GenerateAntiCoggingSignal(cogAngle, 0) = 0
    BY <2>1, NoSwingNoSignal
  <2>3. ToAmps(0) = 0
    BY AntiCogAssumption DEF ToAmps
  <2>4. QED
    BY <2>1, <2>2, <2>3 DEF SignalFollows
<1>2. SignalFollows /\ SwingSeen /\ SwingSeen' /\ [InjectAntiCog]_antiCogVars => SignalFollows'
  <2> SUFFICES ASSUME SignalFollows, SwingSeen', [InjectAntiCog]_antiCogVars
               PROVE  SignalFollows'
    OBVIOUS
  <2>1. coggingCurrent' \in Nat
    BY DEF SwingSeen
  <2>2. CASE InjectAntiCog
    <3>1. cogph' = cogph /\ cogkp' = cogkp
      BY <2>2 DEF InjectAntiCog, gains
    <3>2. anticog' = GenerateAntiCoggingSignal(cogAngle', ToAmps(coggingCurrent'))
      BY <2>2 DEF InjectAntiCog
    <3>3. GenerateAntiCoggingSignal(cogAngle, ToAmps(coggingCurrent))'
            = GenerateAntiCoggingSignal(cogAngle', ToAmps(coggingCurrent'))
      BY <3>1 DEF GenerateAntiCoggingSignal
    <3>4. QED
      BY <2>1, <3>1, <3>2, <3>3 DEF SignalFollows
  <2>3. CASE UNCHANGED antiCogVars
    BY <2>3 DEF antiCogVars, swing, gains, SignalFollows, GenerateAntiCoggingSignal
  <2>4. QED
    BY <2>2, <2>3
<1>3. QED
  BY <1>1, <1>2, SwingInvariant, PTL DEF AntiCogSpec

\* The signals of two angles a step apart.
LEMMA SignalSmooth ==
  ASSUME NEW a \in Angles, NEW step \in {-1, 0, 1}, NEW c \in Nat,
         cogph \in Angles, cogkp \in Int,
         (2 * Quarter + 1) * c * Magnitude32(cogkp) <= IntMax
  PROVE  Magnitude32(GenerateAntiCoggingSignal((a + step) % Turn, c)
                       - GenerateAntiCoggingSignal(a, c))
           <= (4 * c * Magnitude32(cogkp)) \div Turn + 1
<1> DEFINE b == (a + cogph) % Turn
           f == AntiCogTriangle(b)
           g == AntiCogTriangle((b + step) % Turn)
           k == 2 * Quarter + 1
           most == 4 * c * Magnitude32(cogkp)
<1>1. /\ b \in Angles
      /\ (((a + step) % Turn) + cogph) % Turn = (b + step) % Turn
  BY PhaseTurns
<1>2. k \in Nat /\ IntMax \in Nat
  BY AntiCogAssumption DEF AntiCogAssumption
<1>3. f \in -k .. k /\ g \in -k .. k /\ g - f \in -4 .. 4
  <2> HIDE DEF b
  <2>1. (b + step) % Turn \in Angles /\ 0 \in {-1, 0, 1}
    BY <1>1, AngleTurns
  <2>2. QED
    BY <1>1, <2>1, TriangleIsContinuous
<1>4. /\ GenerateAntiCoggingSignal((a + step) % Turn, c)
           = Limited(Scaled(Overflowed(g * c * cogkp)))
      /\ GenerateAntiCoggingSignal(a, c) = Limited(Scaled(Overflowed(f * c * cogkp)))
  BY <1>1 DEF GenerateAntiCoggingSignal
<1>5. k * c * Magnitude32(cogkp) <= IntMax
  OBVIOUS
<1> HIDE DEF b, f, g, k
<1> DEFINE x == f * c * cogkp
           y == g * c * cogkp
<1>6. x \in -IntMax .. IntMax /\ y \in -IntMax .. IntMax
  <2> DEFINE bound == k * c * Magnitude32(cogkp)
  <2>1. bound \in Nat /\ x \in -bound .. bound /\ y \in -bound .. bound
    BY <1>2, <1>3, ProductBounded
  <2>2. bound <= IntMax
    BY <1>5
  <2> HIDE DEF bound, x, y
  <2>3. QED
    BY <1>2, <2>1, <2>2
<1>7. Overflowed(x) = x /\ Overflowed(y) = y
  BY <1>6, NoOverflow
<1>8. most \in Nat /\ y - x \in -most .. most
  <2> DEFINE d == g - f
             n == 4
             w == c * cogkp
  <2>1. d \in -n .. n /\ n \in Nat
    BY <1>3
  <2>2. g = f + d /\ f \in Int /\ g \in Int /\ w \in Int
    BY <1>3, <1>2
  <2>3. /\ x = f * w /\ y = g * w
    BY <1>2, <1>3, ProductBounded
  <2> HIDE DEF d, n
  <2>4. d * c * cogkp = d * w /\ n * c * Magnitude32(cogkp) \in Nat
        /\ d * c * cogkp \in -(n * c * Magnitude32(cogkp)) .. n * c * Magnitude32(cogkp)
    BY <2>1, ProductBounded
  <2> HIDE DEF w, x, y
  <2>5. (f + d) * w = f * w + d * w /\ f * w \in Int /\ d * w \in Int
    BY <2>1, <2>2
  <2>6. y - x = d * w
    BY <2>2, <2>3, <2>5
  <2>7. QED
    BY <2>4, <2>6 DEF n
<1> HIDE DEF x, y, most
<1>9. /\ Scaled(x) \in Int /\ Scaled(y) \in Int
      /\ Magnitude32(Scaled(y) - Scaled(x)) <= (most \div Turn) + 1
  <2>1. x \in Int /\ y \in Int
    BY <1>2, <1>6
  <2>2. QED
    BY <1>8, <2>1, ScaledSmooth
<1>10. Magnitude32(Limited(Scaled(y)) - Limited(Scaled(x))) <= (most \div Turn) + 1
  <2> DEFINE p == Scaled(x)
             q == Scaled(y)
  <2>1. p \in Int /\ q \in Int
    BY <1>9
  <2>2. Turn \in Nat \ {0}
    BY AntiCogAssumption DEF AntiCogAssumption, Turn
  <2>3. most \div Turn \in Nat
    <3> HIDE DEF Turn
    <3>1. QED
      BY <1>8, <2>2
  <2>4. Magnitude32(q - p) <= (most \div Turn) + 1
    BY <1>9
  <2> HIDE DEF p, q
  <2>5. /\ Limited(p) \in Int /\ Limited(q) \in Int
        /\ Magnitude32(Limited(q) - Limited(p)) <= Magnitude32(q - p)
    BY <2>1, LimitedSmooth
  <2>6. Magnitude32(q - p) \in Int /\ Magnitude32(Limited(q) - Limited(p)) \in Int
    BY <2>1, <2>5 DEF Magnitude32
  <2>7. Magnitude32(Limited(q) - Limited(p)) <= (most \div Turn) + 1
    <3> DEFINE e == most \div Turn
    <3> HIDE DEF e
    <3>1. e \in Nat /\ Magnitude32(q - p) <= e + 1
      BY <2>3, <2>4 DEF e
    <3>2. Magnitude32(Limited(q) - Limited(p)) <= e + 1
      BY <2>5, <2>6, <3>1
    <3>3. QED
      BY <3>2 DEF e
  <2>8. QED
    BY <2>7 DEF p, q
<1>11. QED
  BY <1>4, <1>7, <1>10 DEF x, y, most

\* Angles a digit apart are a step apart.
LEMMA NeighboursStep ==
  ASSUME NEW a \in Angles, NEW b \in Angles, Neighbours(a, b)
  PROVE  \E step \in {-1, 0, 1} : b = (a + step) % Turn
<1>1. Turn \in Nat /\ Turn >= 4 /\ Angles = 0 .. Turn - 1
  BY AntiCogAssumption DEF Turn, Angles
<1>2. /\ b - a \in -(Turn - 1) .. Turn - 1
      /\ (b - a) % Turn = IF b - a < 0 THEN b - a + Turn ELSE b - a
  <2> DEFINE n == b - a
  <2>1. n \in -(Turn - 1) .. Turn - 1
    BY <1>1
  <2> HIDE DEF n, Turn
  <2>2. n % Turn = IF n < 0 THEN n + Turn ELSE n
    <3>1. CASE n >= 0
      BY <1>1, <2>1, <3>1
    <3>2. CASE n < 0
      BY <1>1, <2>1, <3>2
    <3> QED
      BY <1>1, <2>1, <3>1, <3>2
  <2> QED
    BY <2>1, <2>2 DEF n
<1>3. (b - a) % Turn \in {0, 1, Turn - 1}
  BY DEF Neighbours
<1> HIDE DEF Turn, Angles
<1>4. b - a \in {0, 1, -1, 1 - Turn, Turn - 1}
  BY <1>1, <1>2, <1>3
<1>5. \A step \in {-1, 0, 1} :
        (a + step) % Turn = IF a + step = Turn THEN 0
                            ELSE IF a + step = -1 THEN Turn - 1 ELSE a + step
  BY AngleTurns
<1>6. CASE b - a \in {0, 1, -1}
  BY <1>1, <1>5, <1>6
<1>7. CASE b - a = 1 - Turn
  <2>1. a = Turn - 1 /\ b = 0
    BY <1>1, <1>7
  <2> QED
    BY <1>1, <1>5, <2>1
<1>8. CASE b - a = Turn - 1
  <2>1. a = 0 /\ b = Turn - 1
    BY <1>1, <1>8
  <2> QED
    BY <1>1, <1>5, <2>1
<1> QED
  BY <1>4, <1>6, <1>7, <1>8

\* For every angle resolution, phase, gain and limit: the signals of two angles a
\* digit apart differ by the slope of the triangle, at every quarter turn and across
\* the wrap, as long as the product fits in an int.
THEOREM WaveAlwaysSmooth == AntiCogSpec => WaveIsSmooth
<1> DEFINE most == (4 * ToAmps(coggingCurrent) * Magnitude32(cogkp)) \div Turn + 1
<1>1. SignalFollows /\ SwingSeen /\ SwingSeen' /\ [InjectAntiCog]_antiCogVars
        => [/\ Neighbours(cogAngle, cogAngle')
            /\ coggingCurrent' = coggingCurrent
            /\ Fits
            => Magnitude32(anticog' - anticog) <= most]_antiCogVars
  <2> SUFFICES ASSUME SignalFollows, SwingSeen, SwingSeen', InjectAntiCog,
                      Neighbours(cogAngle, cogAngle'),
                      coggingCurrent' = coggingCurrent, Fits
               PROVE  Magnitude32(anticog' - anticog) <= most
    OBVIOUS
  <2>1. cogAngle \in Angles /\ cogAngle' \in Angles
    BY DEF SwingSeen
  <2>2. PICK step \in {-1, 0, 1} : cogAngle' = (cogAngle + step) % Turn
    BY <2>1, NeighboursStep
  <2>3. /\ anticog = GenerateAntiCoggingSignal(cogAngle, ToAmps(coggingCurrent))
        /\ anticog' = GenerateAntiCoggingSignal((cogAngle + step) % Turn,
                                                ToAmps(coggingCurrent))
    BY <2>2 DEF SignalFollows, InjectAntiCog
  <2>4. /\ ToAmps(coggingCurrent) \in Nat
        /\ cogph \in Angles /\ cogkp \in Int
        /\ (2 * Quarter + 1) * ToAmps(coggingCurrent) * Magnitude32(cogkp) <= IntMax
    BY AmpsType DEF SignalFollows, Fits
  <2> QED
    BY <2>1, <2>3, <2>4, SignalSmooth
<1> QED
  BY <1>1, SwingInvariant, SignalInvariant, PTL DEF AntiCogSpec, WaveIsSmooth

-----------------------------------------------------------------------------
(* The slip of the SINE variant.                                           *)

\* A filter that starts within most and is asked for no more than most and what it
\* loses stays within most; asked for no less than least it stays above that.
LEMMA FilterBounded ==
  ASSUME NEW last \in Int, NEW new \in Int, NEW weight \in Nat \ {0}, NEW most \in Int,
         last <= most, new <= most + weight - 1
  PROVE  IirFilter(last, new, weight) \in Int /\ IirFilter(last, new, weight) <= most
<1> DEFINE k == weight - 1
           n == new + last * k
<1>1. k \in Nat /\ weight = k + 1
  OBVIOUS
<1> HIDE DEF k
<1> DEFINE d == most - last
<1>2. d \in Nat /\ most = last + d
  OBVIOUS
<1> HIDE DEF d
<1>3. (last + d) * k = last * k + d * k /\ d * k \in Nat /\ last * k \in Int
  BY <1>1, <1>2
<1>4. most * weight = most * k + most /\ most * weight \in Int
  BY <1>1
<1>5. n \in Int /\ n <= most * weight + weight - 1
  BY <1>1, <1>2, <1>3, <1>4
<1> HIDE DEF n
<1>6. n \div weight \in Int /\ weight * (n \div weight) <= n
  BY <1>5
<1>7. n \div weight <= most
  <2> DEFINE q == n \div weight
  <2> SUFFICES ASSUME q >= most + 1
               PROVE  FALSE
    BY <1>6
  <2> DEFINE r == q - (most + 1)
  <2>1. r \in Nat /\ q = (most + 1) + r
    BY <1>6
  <2>2. q \in Int /\ weight * q <= n
    BY <1>6
  <2> HIDE DEF q, r
  <2>3. weight * ((most + 1) + r) = weight * most + weight + weight * r /\ weight * r \in Nat
    BY <2>1
  <2>4. weight * most = most * weight
    OBVIOUS
  <2>5. QED
    BY <1>4, <1>5, <2>1, <2>2, <2>3, <2>4
<1>8. QED
  BY <1>6, <1>7 DEF IirFilter, n, k

\* Field weakening never takes the slip at full torque beyond fslipconstmax.
LEMMA FullSlipBounded ==
  ASSUME NEW fstat \in StatorFrqs, NEW fweak \in WeakFrqs
  PROVE  FullSlip(fstat, fweak) \in Int /\ FullSlip(fstat, fweak) <= SlipConstMax
<1>1. /\ fstat \in Nat /\ fweak \in Nat /\ FConst \in Nat
      /\ SlipMax \in Nat /\ SlipConstMax \in Nat /\ SlipMax <= SlipConstMax
  BY SlipAssumption DEF SlipAssumption
<1> DEFINE run == IF FConst > fweak THEN fstat - fweak ELSE fweak - fstat
           span == IF FConst > fweak THEN FConst - fweak ELSE fweak - FConst
           more == run * (SlipConstMax - SlipMax)
<1>2. fweak # FConst => span \in Nat \ {0}
  BY <1>1
<1>3. more \in Int
  BY <1>1
<1> HIDE DEF more
<1>4. fweak # FConst => more \div span \in Int
  <2> HIDE DEF span
  <2> QED
    BY <1>2, <1>3
<1>5. CASE fstat <= fweak
  BY <1>1, <1>5 DEF FullSlip
<1>6. CASE fstat > fweak /\ fweak = FConst
  BY <1>1, <1>6 DEF FullSlip
<1>7. CASE fstat > fweak /\ fweak # FConst
  <2>1. FullSlip(fstat, fweak) = Lower(SlipMax + more \div span, SlipConstMax)
    BY <1>1, <1>7 DEF FullSlip, more
  <2> HIDE DEF span
  <2>2. QED
    BY <1>1, <1>4, <1>7, <2>1 DEF Lower
<1>8. QED
  BY <1>1, <1>5, <1>6, <1>7

\* Nor does the set point, but for what the filter will lose.
LEMMA SetPointBounded ==
  ASSUME NEW torque \in -FullAmp .. FullAmp, NEW forward \in BOOLEAN,
         NEW fullSlip \in Int, fullSlip <= SlipConstMax, NEW weight \in Nat \ {0}
  PROVE  /\ Fslipspnt(torque, forward, fullSlip, weight) \in Int
         /\ Fslipspnt(torque, forward, fullSlip, weight) <= SlipConstMax + weight - 1
<1>1. /\ FullAmp \in Nat \ {0} /\ SlipStart \in 1 .. FullAmp /\ SineCurve \in BOOLEAN
      /\ SlipMin \in Nat /\ SlipConstMax \in Nat /\ SlipMin <= SlipConstMax
  BY SlipAssumption DEF SlipAssumption
<1> DEFINE diff == fullSlip - SlipMin
           room == SlipConstMax - SlipMin
<1>2. diff \in Int /\ room \in Nat /\ diff <= room
  BY <1>1
<1> HIDE DEF diff, room
<1>3. ASSUME NEW part \in Nat, NEW whole \in Nat \ {0}, part <= whole
      PROVE  (diff * part) \div whole \in Int /\ (diff * part) \div whole <= room
  <2> DEFINE n == diff * part
  <2>1. n \in Int
    BY <1>2
  <2>2. n <= room * whole /\ room * whole \in Nat
    <3> DEFINE c == whole - part
               e == room - diff
    <3>1. c \in Nat /\ whole = part + c /\ e \in Nat /\ diff + e = room
      BY <1>2, <1>3
    <3> HIDE DEF c, e
    <3>2. (diff + e) * part = diff * part + e * part /\ e * part \in Nat
      BY <1>2, <3>1
    <3>3. room * (part + c) = room * part + room * c /\ room * c \in Nat /\ room * part \in Nat
      BY <1>2, <3>1
    <3>4. QED
      BY <2>1, <3>1, <3>2, <3>3
  <2> HIDE DEF n
  <2> DEFINE q == n \div whole
  <2>3. q \in Int /\ whole * q <= n
    BY <2>1
  <2> HIDE DEF q
  <2>4. q <= room
    <3> SUFFICES ASSUME q >= room + 1
                 PROVE  FALSE
      BY <1>2, <2>3
    <3> DEFINE r == q - (room + 1)
    <3>1. r \in Nat /\ q = (room + 1) + r
      BY <1>2, <2>3
    <3> HIDE DEF r
    <3>2. whole * ((room + 1) + r) = whole * room + whole + whole * r /\ whole * r \in Nat
      BY <1>2, <3>1
    <3>3. whole * room = room * whole
      BY <1>2
    <3>4. QED
      BY <2>1, <2>2, <2>3, <3>1, <3>2, <3>3
  <2>5. QED
    BY <2>3, <2>4 DEF n, q
<1>4. CASE torque >= 0
  <2>1. Fslipspnt(torque, forward, fullSlip, weight) = DrivingSlip(torque, fullSlip, weight)
    BY <1>1, <1>4 DEF Fslipspnt, WrongWay
  <2>2. CASE SineCurve
    <3>1. DrivingSlip(torque, fullSlip, weight) = weight - 1 + SlipMin + (diff * torque) \div FullAmp
      BY <2>2 DEF DrivingSlip, RoundingError, diff
    <3>2. torque \in Nat /\ torque <= FullAmp
      BY <1>1, <1>4
    <3>3. (diff * torque) \div FullAmp \in Int /\ (diff * torque) \div FullAmp <= room
      BY <1>1, <1>3, <3>2
    <3>4. QED
      BY <1>1, <2>1, <3>1, <3>3 DEF room
  <2>3. CASE ~SineCurve /\ torque < SlipStart
    <3>1. DrivingSlip(torque, fullSlip, weight) = weight - 1 + SlipMin + 0
      BY <1>1, <2>3 DEF DrivingSlip, RoundingError
    <3>2. QED
      BY <1>1, <2>1, <3>1
  <2>4. CASE ~SineCurve /\ torque >= SlipStart /\ SlipStart = FullAmp
    <3>1. DrivingSlip(torque, fullSlip, weight) = 0
      BY <1>1, <2>4 DEF DrivingSlip
    <3>2. QED
      BY <1>1, <2>1, <3>1
  <2>5. CASE ~SineCurve /\ torque >= SlipStart /\ SlipStart # FullAmp
    <3> DEFINE part == torque - SlipStart
               whole == FullAmp - SlipStart
    <3>1. part \in Nat /\ whole \in Nat \ {0} /\ part <= whole
      BY <1>1, <2>5
    <3>2. DrivingSlip(torque, fullSlip, weight) = weight - 1 + SlipMin + (diff * part) \div whole
      BY <1>1, <2>5 DEF DrivingSlip, RoundingError, diff
    <3> HIDE DEF part, whole
    <3>3. (diff * part) \div whole \in Int /\ (diff * part) \div whole <= room
      BY <1>3, <3>1
    <3>4. QED
      BY <1>1, <2>1, <3>2, <3>3 DEF room
  <2>6. QED
    BY <1>1, <2>2, <2>3, <2>4, <2>5
<1>5. CASE torque < 0
  BY <1>1, <1>5 DEF Fslipspnt
<1>6. QED
  BY <1>4, <1>5

\* What the task's first write sets, and what it leaves alone.
LEMMA AmpnomFrame ==
  ASSUME NEW torque, NEW forward, NEW fullSlip, NEW weight,
         WriteAmpnom(torque, forward, fullSlip, weight)
  PROVE  /\ ampnom' = IirFilter(ampnom, AmpnomLocal(torque, forward), weight)
         /\ nextSlip' = IirFilter(fslip, Fslipspnt(torque, forward, fullSlip, weight), weight)
         /\ writing' = "fslip"
         /\ backwards' = IF torque < 0 /\ ~forward THEN Lower(backwards + 1, SettleTicks) ELSE 0
         /\ fslip' = fslip /\ slipIncr' = slipIncr
         /\ curLimSpntFiltered' = curLimSpntFiltered /\ slipFiltered' = slipFiltered
         /\ overloaded' = overloaded /\ motoring' = motoring
         /\ leastAmp' = leastAmp /\ leastSlip' = leastSlip
BY Zenon DEF WriteAmpnom, limiter

\* The slip on its way from the filter to the increment is bounded everywhere.
SlipInv ==
  /\ {fslip, nextSlip, slipIncr, slipFiltered} \subseteq Int
  /\ fslip <= SlipConstMax
  /\ nextSlip <= SlipConstMax
  /\ slipIncr <= SlipConstMax

LEMMA SlipInvariant == SlipSpec => []SlipInv
<1>1. SlipInit => SlipInv
  BY SlipAssumption DEF SlipAssumption, SlipInit, SlipInv
<1>2. SlipInv /\ [SlipNext]_slipVars => SlipInv'
  <2> SUFFICES ASSUME SlipInv, [SlipNext]_slipVars
               PROVE  SlipInv'
    OBVIOUS
  <2>1. SlipConstMax \in Nat /\ SlipMin \in Nat
    BY SlipAssumption DEF SlipAssumption
  <2>2. ASSUME NEW torque \in Torques, NEW reversed \in BOOLEAN, NEW forward \in BOOLEAN,
               NEW fstat \in StatorFrqs, NEW fweak \in WeakFrqs, NEW weight \in Weights,
               WriteAmpnom(IF reversed THEN -torque ELSE torque, forward,
                           FullSlip(fstat, fweak), weight)
        PROVE  SlipInv'
    <3> DEFINE t == IF reversed THEN -torque ELSE torque
               spnt == Fslipspnt(t, forward, FullSlip(fstat, fweak), weight)
    <3>1. t \in -FullAmp .. FullAmp /\ weight \in Nat \ {0}
      BY SlipAssumption DEF SlipAssumption
    <3>2. FullSlip(fstat, fweak) \in Int /\ FullSlip(fstat, fweak) <= SlipConstMax
      BY FullSlipBounded
    <3>3. nextSlip' = IirFilter(fslip, spnt, weight)
      BY <2>2, AmpnomFrame
    <3> HIDE DEF t
    <3>4. spnt \in Int /\ spnt <= SlipConstMax + weight - 1
      BY <3>1, <3>2, SetPointBounded
    <3> HIDE DEF spnt
    <3>5. nextSlip' \in Int /\ nextSlip' <= SlipConstMax
      <4>1. fslip \in Int /\ fslip <= SlipConstMax /\ SlipConstMax \in Int
        BY <2>1 DEF SlipInv
      <4>2. /\ IirFilter(fslip, spnt, weight) \in Int
            /\ IirFilter(fslip, spnt, weight) <= SlipConstMax
        BY <3>1, <3>4, <4>1, FilterBounded
      <4>3. QED
        BY <3>3, <4>2
    <3>6. fslip' = fslip /\ slipIncr' = slipIncr /\ slipFiltered' = slipFiltered
      BY <2>2, AmpnomFrame
    <3>7. QED
      BY <3>5, <3>6 DEF SlipInv
  <2>3. CASE WriteFslip
    BY <2>3 DEF WriteFslip, limiter, SlipInv
  <2>4. CASE WriteSlipIncr
    BY <2>1, <2>4 DEF WriteSlipIncr, limiter, SlipInv
  <2>5. ASSUME NEW imax \in IacMaxs, NEW ilMax \in PhaseCurrents,
               IF imax = 0 THEN NoLimit ELSE LimitCurrent(imax, ilMax),
               UNCHANGED <<ampnom, fslip, nextSlip, writing, backwards>>
        PROVE  SlipInv'
    <3>1. CASE imax = 0
      BY <2>5, <3>1 DEF NoLimit, limiter, SlipInv
    <3>2. CASE imax # 0
      <4> DEFINE a == imax \div 20
                 x == fslip * (imax - ilMax)
                 slipSpnt == Higher(SlipMin, x \div a)
      <4>1. imax \in Nat /\ imax >= 20 /\ ilMax \in Nat
        BY <3>2, SlipAssumption DEF SlipAssumption
      <4>2. a \in Nat \ {0}
        BY <4>1
      <4>3. x \in Int
        BY <4>1 DEF SlipInv
      <4>4. /\ slipFiltered' = IirFilter(slipFiltered, slipSpnt, 2)
            /\ slipIncr' = Lower(fslip, slipFiltered')
        BY <2>5, <3>2 DEF LimitCurrent, LimitedSlip
      <4> HIDE DEF a, x
      <4>5. slipSpnt \in Int
        BY <2>1, <4>2, <4>3 DEF Higher
      <4> HIDE DEF slipSpnt
      <4>6. slipFiltered' \in Int
        BY <4>4, <4>5 DEF IirFilter, SlipInv
      <4>7. QED
        BY <2>1, <2>5, <4>4, <4>6 DEF Lower, SlipInv
    <3>3. QED
      BY <3>1, <3>2
  <2>6. CASE UNCHANGED slipVars
    BY <2>6 DEF slipVars, slipShared, limiter, SlipInv
  <2>7. QED
    BY <2>2, <2>3, <2>4, <2>5, <2>6 DEF SlipNext, SetTorquePercentSine, RunSlip
<1>3. QED
  BY <1>1, <1>2, PTL DEF SlipSpec

\* For every tuning with fslipmin <= fslipmax <= fslipconstmax, every order of
\* frequency and weakening point and every change of the filter: the slip never
\* exceeds fslipconstmax, with the interrupt between any two writes.
THEOREM SlipAlwaysBounded == SlipSpec => []SlipBounded
<1>1. SlipInv => SlipBounded
  BY DEF SlipInv, SlipBounded
<1>2. QED
  BY <1>1, SlipInvariant, PTL

\* What a quotient that rounds down stays below, and above.
LEMMA QuotientAtMost ==
  ASSUME NEW n \in Int, NEW d \in Nat \ {0}, NEW most \in Int, n <= most * d + d - 1
  PROVE  n \div d \in Int /\ n \div d <= most
<1> DEFINE q == n \div d
<1>1. q \in Int /\ d * q <= n
  OBVIOUS
<1> HIDE DEF q
<1>2. SUFFICES ASSUME q >= most + 1
               PROVE  FALSE
  BY <1>1 DEF q
<1> DEFINE r == q - (most + 1)
<1>3. r \in Nat /\ q = (most + 1) + r
  BY <1>1, <1>2
<1> HIDE DEF r
<1>4. d * ((most + 1) + r) = most * d + d + d * r /\ d * r \in Nat /\ most * d \in Int
  BY <1>3
<1>5. QED
  BY <1>1, <1>3, <1>4

LEMMA QuotientAtLeast ==
  ASSUME NEW n \in Int, NEW d \in Nat \ {0}, NEW least \in Int, least * d <= n
  PROVE  n \div d \in Int /\ least <= n \div d
<1> DEFINE q == n \div d
<1>1. q \in Int /\ n < d * q + d
  OBVIOUS
<1> HIDE DEF q
<1>2. SUFFICES ASSUME q + 1 <= least
               PROVE  FALSE
  BY <1>1 DEF q
<1> DEFINE r == least - (q + 1)
<1>3. r \in Nat /\ least = (q + 1) + r
  BY <1>1, <1>2
<1> HIDE DEF r
<1>4. ((q + 1) + r) * d = d * q + d + d * r /\ d * r \in Nat /\ d * q \in Int
  BY <1>1, <1>3
<1>5. QED
  BY <1>1, <1>3, <1>4

\* A filter that starts above least and is asked for no less stays above it.
LEMMA FilterAbove ==
  ASSUME NEW last \in Int, NEW new \in Int, NEW weight \in Nat \ {0}, NEW least \in Int,
         least <= last, least <= new
  PROVE  IirFilter(last, new, weight) \in Int /\ least <= IirFilter(last, new, weight)
<1> DEFINE k == weight - 1
           n == new + last * k
           d == last - least
<1>1. k \in Nat /\ weight = k + 1 /\ d \in Nat /\ last = least + d
  OBVIOUS
<1> HIDE DEF k, d
<1>2. (least + d) * k = least * k + d * k /\ d * k \in Nat /\ least * k \in Int
  BY <1>1
<1>3. least * (k + 1) = least * k + least
  BY <1>1
<1>4. n \in Int /\ least * weight <= n
  BY <1>1, <1>2, <1>3
<1> HIDE DEF n
<1>5. QED
  BY <1>4, QuotientAtLeast DEF IirFilter, n, k

\* What a filter holds beyond what it is asked for fades by the quotient.
LEMMA FilterFades ==
  ASSUME NEW last \in Int, NEW new \in Int, NEW weight \in Nat \ {0}, NEW most \in Int,
         NEW rest \in Nat, last <= most + rest, new <= most
  PROVE  IirFilter(last, new, weight) <= most + (rest * (weight - 1)) \div weight
<1> DEFINE k == weight - 1
           n == new + last * k
           f == rest * k
           d == most + rest - last
<1>1. k \in Nat /\ weight = k + 1 /\ d \in Nat /\ last + d = most + rest
  OBVIOUS
<1> HIDE DEF k, d
<1>2. (last + d) * k = last * k + d * k /\ d * k \in Nat /\ last * k \in Int
  BY <1>1
<1>3. (most + rest) * k = most * k + f /\ most * k \in Int /\ f \in Nat
  BY <1>1
<1>4. most * (k + 1) = most * k + most
  BY <1>1
<1> HIDE DEF f
<1>5. n \in Int /\ n <= most * weight + f
  BY <1>1, <1>2, <1>3, <1>4
<1> HIDE DEF n
<1> DEFINE q == f \div weight
<1>6. q \in Nat /\ f < weight * q + weight
  BY <1>3, Quotient
<1> HIDE DEF q
<1>7. (most + q) * weight = most * weight + weight * q /\ weight * q \in Nat /\ most * weight \in Int
  BY <1>6
<1>8. n <= (most + q) * weight + weight - 1
  BY <1>3, <1>5, <1>6, <1>7
<1>9. n \div weight <= most + q
  BY <1>5, <1>6, <1>8, QuotientAtMost
<1>10. QED
  BY <1>9 DEF IirFilter, n, k, f, q

\* A bound on what a filter still holds after each of so many steps, none of them
\* with another weight than these: nothing is left at the end.
Fades(left, steps, weights) ==
  /\ left \in [0 .. steps -> Nat]
  /\ left[steps] = 0
  /\ \A k \in 0 .. steps, weight \in weights :
       (left[k] * (weight - 1)) \div weight <= left[Lower(k + 1, steps)]

LEMMA FadesOn ==
  ASSUME NEW steps \in Nat, NEW weights \in SUBSET (Nat \ {0}), NEW left,
         Fades(left, steps, weights), NEW k \in 0 .. steps, NEW weight \in weights,
         NEW last \in Int, NEW new \in Int, NEW most \in Int,
         last <= most + left[k], new <= most
  PROVE  /\ Lower(k + 1, steps) \in 0 .. steps
         /\ IirFilter(last, new, weight) <= most + left[Lower(k + 1, steps)]
<1> DEFINE next == Lower(k + 1, steps)
<1>1. next \in 0 .. steps
  BY DEF Lower
<1>2. left[k] \in Nat /\ left[next] \in Nat
  BY <1>1 DEF Fades
<1>3. IirFilter(last, new, weight) <= most + (left[k] * (weight - 1)) \div weight
  BY <1>2, FilterFades
<1>4. (left[k] * (weight - 1)) \div weight <= left[next]
  BY DEF Fades
<1>5. IirFilter(last, new, weight) \in Int /\ (left[k] * (weight - 1)) \div weight \in Int
  <2> DEFINE n == new + last * (weight - 1)
             f == left[k] * (weight - 1)
  <2>1. n \in Int /\ f \in Int /\ weight \in Nat \ {0}
    BY <1>2
  <2> HIDE DEF n, f
  <2>2. n \div weight \in Int /\ f \div weight \in Int
    BY <2>1
  <2>3. QED
    BY <2>2 DEF IirFilter, n, f
<1> HIDE DEF next
<1>6. QED
  <2> DEFINE f == (left[k] * (weight - 1)) \div weight
             x == IirFilter(last, new, weight)
  <2> HIDE DEF f, x
  <2>1. x \in Int /\ f \in Int /\ x <= most + f /\ f <= left[next]
    BY <1>3, <1>4, <1>5 DEF f, x
  <2>2. x <= most + left[next]
    BY <1>2, <2>1
  <2>3. QED
    BY <1>1, <2>2 DEF x, next

\* The amplitude asked for is one of 0 to 100 %.
LEMMA AmpnomLocalBounded ==
  ASSUME NEW torque \in -FullAmp .. FullAmp, NEW forward \in BOOLEAN
  PROVE  AmpnomLocal(torque, forward) \in 0 .. FullAmp
<1>1. FullAmp \in Nat \ {0} /\ AmpMin \in 0 .. FullAmp /\ SlipStart \in 1 .. FullAmp
  BY SlipAssumption DEF SlipAssumption
<1>2. CASE torque >= 0
  <2> DEFINE whole == IF SineCurve THEN FullAmp ELSE SlipStart
             n == (FullAmp - AmpMin) * torque
  <2>1. whole \in Nat \ {0} /\ n \in Nat
    BY <1>1, <1>2
  <2>2. DrivingAmp(torque) = AmpMin + n \div whole
    BY DEF DrivingAmp
  <2> HIDE DEF whole, n
  <2>3. DrivingAmp(torque) \in Nat
    BY <1>1, <2>1, <2>2, Quotient
  <2>4. AmpnomLocal(torque, forward) = Lower(FullAmp, DrivingAmp(torque))
    BY <1>1, <1>2 DEF AmpnomLocal, WrongWay
  <2>5. QED
    BY <1>1, <2>3, <2>4 DEF Lower
<1>3. CASE torque < 0
  BY <1>1, <1>3 DEF AmpnomLocal, WrongWay, Lower
<1>4. QED
  BY <1>2, <1>3

\* The state that is not on the slip's way is of its type.
AmpInv ==
  /\ ampnom \in 0 .. FullAmp
  /\ curLimSpntFiltered \in Nat
  /\ writing \in {"ampnom", "fslip", "slipIncr"}
  /\ backwards \in 0 .. SettleTicks
  /\ {overloaded, motoring} \subseteq 0 .. SettleRuns
  /\ {leastAmp, leastSlip} \subseteq BOOLEAN

\* The filtered amplitude is one of 0 to 100 % again.
LEMMA AmpnomMoves ==
  ASSUME AmpInv, NEW torque \in -FullAmp .. FullAmp, NEW forward \in BOOLEAN,
         NEW weight \in Weights,
         ampnom' = IirFilter(ampnom, AmpnomLocal(torque, forward), weight)
  PROVE  ampnom' \in 0 .. FullAmp
<1> DEFINE new == AmpnomLocal(torque, forward)
<1>1. new \in 0 .. FullAmp
  BY AmpnomLocalBounded
<1>2. weight \in Nat \ {0} /\ FullAmp \in Nat
  BY SlipAssumption DEF SlipAssumption
<1> HIDE DEF new
<1>3. ampnom' = IirFilter(ampnom, new, weight) /\ ampnom \in 0 .. FullAmp
  BY DEF new, AmpInv
<1>4. IirFilter(ampnom, new, weight) \in Int /\ IirFilter(ampnom, new, weight) <= FullAmp
  BY <1>1, <1>2, <1>3, FilterBounded
<1>5. 0 <= IirFilter(ampnom, new, weight)
  BY <1>1, <1>2, <1>3, FilterAbove
<1>6. QED
  BY <1>2, <1>3, <1>4, <1>5

\* What one interrupt does to the limiter, with a limit set.
LEMMA LimiterMoves ==
  ASSUME AmpInv, SlipInv, NEW imax \in IacMaxs, imax # 0, NEW ilMax \in PhaseCurrents,
         LimitCurrent(imax, ilMax)
  PROVE  \E curLimSpnt \in Int, slipSpnt \in Int :
           /\ curLimSpnt = Higher(MinAmp, (FullAmp * (imax - ilMax)) \div (imax \div 20))
           /\ slipSpnt = Higher(SlipMin, (fslip * (imax - ilMax)) \div (imax \div 20))
           /\ curLimSpntFiltered'
                = IirFilter(curLimSpntFiltered, curLimSpnt,
                            IF curLimSpnt < curLimSpntFiltered THEN FallWeight ELSE RiseWeight)
           /\ slipFiltered' = IirFilter(slipFiltered, slipSpnt, 2)
           /\ slipIncr' = Lower(fslip, slipFiltered')
           /\ leastAmp' = (Lower(ampnom, curLimSpntFiltered') <= MinAmp)
           /\ leastSlip' = (slipIncr' <= SlipMin)
<1> DEFINE a == imax \div 20
           x == FullAmp * (imax - ilMax)
           y == fslip * (imax - ilMax)
           curLimSpnt == Higher(MinAmp, x \div a)
           slipSpnt == Higher(SlipMin, y \div a)
<1>1. imax \in Nat /\ imax >= 20 /\ ilMax \in Nat /\ FullAmp \in Nat /\ SlipMin \in Nat
  BY SlipAssumption DEF SlipAssumption
<1>2. a \in Nat \ {0} /\ x \in Int /\ y \in Int
  BY <1>1 DEF SlipInv
<1>3. MinAmp \in Int
  BY <1>1 DEF MinAmp
<1>4. /\ curLimSpntFiltered'
           = IirFilter(curLimSpntFiltered, curLimSpnt,
                       IF curLimSpnt < curLimSpntFiltered THEN FallWeight ELSE RiseWeight)
      /\ slipFiltered' = IirFilter(slipFiltered, slipSpnt, 2)
      /\ slipIncr' = Lower(fslip, slipFiltered')
      /\ leastAmp' = (Lower(ampnom, curLimSpntFiltered') <= MinAmp)
      /\ leastSlip' = (slipIncr' <= SlipMin)
  BY Zenon DEF LimitCurrent, LimitedSlip, PutOut
<1> HIDE DEF a, x, y
<1>5. curLimSpnt \in Int /\ slipSpnt \in Int
  BY <1>1, <1>2, <1>3 DEF Higher
<1>6. QED
  BY <1>4, <1>5, Zenon DEF a, x, y

\* The interrupt's current limit and reading, and what it counts.
LEMMA RunFrame ==
  ASSUME RunSlip
  PROVE  \E imax \in IacMaxs, ilMax \in PhaseCurrents :
           /\ imax = 0 => NoLimit
           /\ imax # 0 => LimitCurrent(imax, ilMax)
           /\ overloaded' = IF imax > 0 /\ ilMax >= imax
                            THEN Lower(overloaded + 1, SettleRuns) ELSE 0
           /\ motoring' = IF (imax > 0 /\ ilMax >= imax) /\ fslip >= 0
                          THEN Lower(motoring + 1, SettleRuns) ELSE 0
           /\ ampnom' = ampnom /\ fslip' = fslip /\ nextSlip' = nextSlip
           /\ writing' = writing /\ backwards' = backwards
<1>1. PICK imax \in IacMaxs, ilMax \in PhaseCurrents :
        /\ IF imax = 0 THEN NoLimit ELSE LimitCurrent(imax, ilMax)
        /\ overloaded' = IF imax > 0 /\ ilMax >= imax
                         THEN Lower(overloaded + 1, SettleRuns) ELSE 0
        /\ motoring' = IF (imax > 0 /\ ilMax >= imax) /\ fslip >= 0
                       THEN Lower(motoring + 1, SettleRuns) ELSE 0
  BY Zenon DEF RunSlip
<1>2. /\ ampnom' = ampnom /\ fslip' = fslip /\ nextSlip' = nextSlip
      /\ writing' = writing /\ backwards' = backwards
  BY Zenon DEF RunSlip
<1>3. QED
  BY <1>1, <1>2, Zenon

\* The filtered limit is a natural number again.
LEMMA LimitMoves ==
  ASSUME NEW last \in Nat, NEW new \in Int, MinAmp <= new, NEW weight \in Nat \ {0}
  PROVE  IirFilter(last, new, weight) \in Nat
<1>1. MinAmp \in Nat
  BY SlipAssumption, Quotient DEF SlipAssumption, MinAmp
<1>2. QED
  BY <1>1, FilterAbove

LEMMA AmpInvariant == SlipSpec => []AmpInv
<1>1. SlipInit => AmpInv
  BY SlipAssumption DEF SlipAssumption, SlipInit, AmpInv
<1>2. AmpInv /\ SlipInv /\ [SlipNext]_slipVars => AmpInv'
  <2> SUFFICES ASSUME AmpInv, SlipInv, [SlipNext]_slipVars
               PROVE  AmpInv'
    OBVIOUS
  <2>1. SettleTicks \in Nat /\ SettleRuns \in Nat /\ MinAmp \in Int
    BY SlipAssumption DEF SlipAssumption, MinAmp
  <2>2. ASSUME NEW torque \in Torques, NEW reversed \in BOOLEAN, NEW forward \in BOOLEAN,
               NEW fstat \in StatorFrqs, NEW fweak \in WeakFrqs, NEW weight \in Weights,
               WriteAmpnom(IF reversed THEN -torque ELSE torque, forward,
                           FullSlip(fstat, fweak), weight)
        PROVE  AmpInv'
    <3> DEFINE t == IF reversed THEN -torque ELSE torque
    <3>1. t \in -FullAmp .. FullAmp
      BY SlipAssumption DEF SlipAssumption
    <3>2. /\ ampnom' = IirFilter(ampnom, AmpnomLocal(t, forward), weight)
          /\ writing' = "fslip"
          /\ backwards' = IF t < 0 /\ ~forward THEN Lower(backwards + 1, SettleTicks) ELSE 0
          /\ curLimSpntFiltered' = curLimSpntFiltered
          /\ overloaded' = overloaded /\ motoring' = motoring
          /\ leastAmp' = leastAmp /\ leastSlip' = leastSlip
      BY <2>2, AmpnomFrame
    <3> HIDE DEF t
    <3>3. ampnom' \in 0 .. FullAmp
      BY <3>1, <3>2, AmpnomMoves
    <3>4. backwards' \in 0 .. SettleTicks
      BY <2>1, <3>2 DEF Lower, AmpInv
    <3>5. QED
      BY <3>2, <3>3, <3>4 DEF AmpInv
  <2>3. CASE WriteFslip
    BY <2>3 DEF WriteFslip, limiter, slipHistory, AmpInv
  <2>4. CASE WriteSlipIncr
    BY <2>4 DEF WriteSlipIncr, limiter, slipHistory, AmpInv
  <2>5. CASE RunSlip
    <3>1. PICK imax \in IacMaxs, ilMax \in PhaseCurrents :
            /\ imax = 0 => NoLimit
            /\ imax # 0 => LimitCurrent(imax, ilMax)
            /\ overloaded' = IF imax > 0 /\ ilMax >= imax
                             THEN Lower(overloaded + 1, SettleRuns) ELSE 0
            /\ motoring' = IF (imax > 0 /\ ilMax >= imax) /\ fslip >= 0
                           THEN Lower(motoring + 1, SettleRuns) ELSE 0
            /\ ampnom' = ampnom /\ fslip' = fslip /\ nextSlip' = nextSlip
            /\ writing' = writing /\ backwards' = backwards
      BY <2>5, RunFrame
    <3>2. overloaded' \in 0 .. SettleRuns /\ motoring' \in 0 .. SettleRuns
      BY <2>1, <3>1 DEF Lower, AmpInv
    <3>3. curLimSpntFiltered' \in Nat /\ leastAmp' \in BOOLEAN /\ leastSlip' \in BOOLEAN
      <4>1. CASE imax = 0
        BY <3>1, <4>1 DEF NoLimit, PutOut, limiter, AmpInv
      <4>2. CASE imax # 0
        <5>1. PICK curLimSpnt \in Int, slipSpnt \in Int :
                /\ curLimSpnt = Higher(MinAmp, (FullAmp * (imax - ilMax)) \div (imax \div 20))
                /\ curLimSpntFiltered'
                     = IirFilter(curLimSpntFiltered, curLimSpnt,
                                 IF curLimSpnt < curLimSpntFiltered THEN FallWeight ELSE RiseWeight)
                /\ leastAmp' = (Lower(ampnom, curLimSpntFiltered') <= MinAmp)
                /\ leastSlip' = (slipIncr' <= SlipMin)
          BY <3>1, <4>2, LimiterMoves
        <5>2. MinAmp <= curLimSpnt
          <6> DEFINE q == (FullAmp * (imax - ilMax)) \div (imax \div 20)
          <6> HIDE DEF q
          <6>1. curLimSpnt = Higher(MinAmp, q) /\ curLimSpnt \in Int
            BY <5>1 DEF q
          <6>2. QED
            BY <2>1, <6>1 DEF Higher
        <5>3. (IF curLimSpnt < curLimSpntFiltered THEN FallWeight ELSE RiseWeight) \in Nat \ {0}
          BY SlipAssumption DEF SlipAssumption
        <5>4. curLimSpntFiltered' \in Nat
          <6> DEFINE weight == IF curLimSpnt < curLimSpntFiltered THEN FallWeight ELSE RiseWeight
          <6>1. weight \in Nat \ {0}
            BY <5>3
          <6>2. curLimSpntFiltered' = IirFilter(curLimSpntFiltered, curLimSpnt, weight)
            BY <5>1
          <6> HIDE DEF weight
          <6>3. curLimSpntFiltered \in Nat
            BY DEF AmpInv
          <6>4. IirFilter(curLimSpntFiltered, curLimSpnt, weight) \in Nat
            BY <5>1, <5>2, <6>1, <6>3, LimitMoves
          <6>5. QED
            BY <6>2, <6>4
        <5>5. leastAmp' \in BOOLEAN /\ leastSlip' \in BOOLEAN
          <6>1. leastAmp' = (Lower(ampnom, curLimSpntFiltered') <= MinAmp)
            BY <5>1
          <6>2. leastSlip' = (slipIncr' <= SlipMin)
            BY <5>1
          <6>3. QED
            BY <6>1, <6>2, SMT
        <5>6. QED
          BY <5>4, <5>5
      <4>3. QED
        BY <4>1, <4>2
    <3>4. QED
      BY <3>1, <3>2, <3>3 DEF AmpInv
  <2>6. CASE UNCHANGED slipVars
    BY <2>6 DEF slipVars, slipShared, limiter, slipHistory, AmpInv
  <2>7. QED
    BY <2>2, <2>3, <2>4, <2>5, <2>6 DEF SlipNext, SetTorquePercentSine
<1>3. QED
  BY <1>1, <1>2, SlipInvariant, PTL DEF SlipSpec

\* Every quantity of the slip control has its type, for every tuning.
THEOREM SlipTypeCorrect == SlipSpec => []SlipTypeOK
<1>1. AmpInv /\ SlipInv => SlipTypeOK
  BY DEF AmpInv, SlipInv, SlipTypeOK
<1>2. QED
  BY <1>1, AmpInvariant, SlipInvariant, PTL

\* For every tuning, every filter constant changed on the way and every bound left
\* that the filter's rounding keeps to: regeneration asked for while rolling back
\* leaves no amplitude after SettleTicks task periods.
THEOREM WrongWayAlwaysFades ==
  ASSUME NEW left, Fades(left, SettleTicks, Weights), left[0] >= FullAmp
  PROVE  SlipSpec => []WrongWayFades
<1> DEFINE FadesAlong == ampnom <= left[backwards]
<1>1. /\ SettleTicks \in Nat /\ FullAmp \in Nat /\ Weights \in SUBSET (Nat \ {0})
      /\ left \in [0 .. SettleTicks -> Nat] /\ left[SettleTicks] = 0
  BY SlipAssumption DEF SlipAssumption, Fades
<1>2. SlipInit => FadesAlong
  BY <1>1 DEF SlipInit
<1>3. AmpInv /\ FadesAlong /\ [SlipNext]_slipVars => FadesAlong'
  <2> SUFFICES ASSUME AmpInv, FadesAlong, [SlipNext]_slipVars
               PROVE  ampnom' <= left[backwards']
    OBVIOUS
  <2>1. ampnom \in 0 .. FullAmp /\ backwards \in 0 .. SettleTicks
    BY DEF AmpInv
  <2>2. ASSUME NEW torque \in Torques, NEW reversed \in BOOLEAN, NEW forward \in BOOLEAN,
               NEW fstat \in StatorFrqs, NEW fweak \in WeakFrqs, NEW weight \in Weights,
               WriteAmpnom(IF reversed THEN -torque ELSE torque, forward,
                           FullSlip(fstat, fweak), weight)
        PROVE  ampnom' <= left[backwards']
    <3> DEFINE t == IF reversed THEN -torque ELSE torque
    <3>1. t \in -FullAmp .. FullAmp
      BY SlipAssumption DEF SlipAssumption
    <3>2. /\ ampnom' = IirFilter(ampnom, AmpnomLocal(t, forward), weight)
          /\ backwards' = IF t < 0 /\ ~forward THEN Lower(backwards + 1, SettleTicks) ELSE 0
      BY <2>2, AmpnomFrame
    <3> HIDE DEF t
    <3>3. CASE t < 0 /\ ~forward
      <4>1. AmpnomLocal(t, forward) = 0
        BY <1>1, <3>1, <3>3 DEF AmpnomLocal, WrongWay, Lower
      <4>2. ampnom' = IirFilter(ampnom, 0, weight) /\ backwards' = Lower(backwards + 1, SettleTicks)
        BY <3>2, <3>3, <4>1
      <4> DEFINE zero == 0
      <4>3. zero \in Int /\ ampnom \in Int /\ ampnom <= zero + left[backwards]
        BY <1>1, <2>1
      <4> HIDE DEF zero
      <4>4. /\ Lower(backwards + 1, SettleTicks) \in 0 .. SettleTicks
            /\ IirFilter(ampnom, zero, weight) <= zero + left[Lower(backwards + 1, SettleTicks)]
        <5>1. zero <= zero
          BY <4>3
        <5>2. QED
          BY <1>1, <2>1, <4>3, <5>1, FadesOn
      <4>5. QED
        BY <1>1, <4>2, <4>4 DEF zero
    <3>4. CASE ~(t < 0 /\ ~forward)
      <4>1. ampnom' \in 0 .. FullAmp
        BY <3>1, <3>2, AmpnomMoves
      <4>2. QED
        BY <1>1, <3>2, <3>4, <4>1
    <3>5. QED
      BY <3>3, <3>4
  <2>3. CASE WriteFslip
    BY <2>3 DEF WriteFslip, slipHistory
  <2>4. CASE WriteSlipIncr
    BY <2>4 DEF WriteSlipIncr, slipHistory
  <2>5. CASE RunSlip
    BY <2>5 DEF RunSlip
  <2>6. CASE UNCHANGED slipVars
    BY <2>6 DEF slipVars, slipShared, slipHistory
  <2>7. QED
    BY <2>2, <2>3, <2>4, <2>5, <2>6 DEF SlipNext, SetTorquePercentSine
<1>4. AmpInv /\ FadesAlong => WrongWayFades
  BY <1>1 DEF AmpInv, WrongWayFades
<1>5. QED
  BY <1>2, <1>3, <1>4, AmpInvariant, PTL DEF SlipSpec

\* Every filter loses at least one digit a step, so that many steps are enough.
LEMMA OneDigitAStep ==
  ASSUME NEW steps \in Nat, NEW weights \in SUBSET (Nat \ {0}), NEW from \in 0 .. steps
  PROVE  Fades([k \in 0 .. steps |-> Higher(from - k, 0)], steps, weights)
<1> DEFINE left == [k \in 0 .. steps |-> Higher(from - k, 0)]
<1>1. left \in [0 .. steps -> Nat] /\ left[steps] = 0
  BY DEF Higher
<1>2. ASSUME NEW k \in 0 .. steps, NEW weight \in weights
      PROVE  (left[k] * (weight - 1)) \div weight <= left[Lower(k + 1, steps)]
  <2> DEFINE rest == left[k]
             n == rest * (weight - 1)
  <2>1. rest \in Nat /\ weight \in Nat \ {0} /\ weight - 1 \in Nat
    BY <1>1
  <2>2. n \in Nat /\ n = rest * weight - rest /\ rest * weight \in Nat
    <3> HIDE DEF rest
    <3>1. QED
      BY <2>1
  <2>3. CASE rest = 0
    <3>1. n = 0 * (weight - 1) /\ 0 * (weight - 1) = 0
      BY <2>1, <2>3
    <3>2. n \div weight <= 0
      BY <2>1, <3>1
    <3>3. Lower(k + 1, steps) \in 0 .. steps
      BY DEF Lower
    <3>4. left[Lower(k + 1, steps)] \in Nat
      BY <1>1, <3>3
    <3> HIDE DEF n, left
    <3>5. n \div weight \in Nat
      BY <2>1, <2>2, Quotient
    <3>6. QED
      BY <3>2, <3>4, <3>5 DEF n
  <2>4. CASE rest # 0
    <3>1. rest = from - k /\ k < from
      BY <2>1, <2>4 DEF Higher
    <3>2. Lower(k + 1, steps) = k + 1 /\ k + 1 \in 0 .. steps
      BY <3>1 DEF Lower
    <3>3. left[k + 1] = rest - 1
      BY <3>1, <3>2 DEF Higher
    <3> HIDE DEF rest, left
    <3>4. (rest - 1) * weight = rest * weight - weight
      BY <2>1
    <3>5. n <= (rest - 1) * weight + weight - 1
      BY <2>1, <2>2, <2>4, <3>4
    <3>6. rest - 1 \in Int /\ n \in Int /\ weight \in Nat \ {0}
      BY <2>1, <2>2
    <3> HIDE DEF n
    <3>7. n \div weight <= rest - 1
      BY <3>5, <3>6, QuotientAtMost
    <3>8. QED
      BY <3>2, <3>3, <3>7 DEF n, rest
  <2>5. QED
    BY <2>3, <2>4
<1> HIDE DEF left
<1>3. Fades(left, steps, weights)
  BY <1>1, <1>2 DEF Fades
<1>4. QED
  BY <1>3 DEF left

\* For every tuning: as many task periods as 100 % has digits always suffice.
THEOREM WrongWayFadesInTime == SettleTicks >= FullAmp => (SlipSpec => []WrongWayFades)
<1> SUFFICES ASSUME SettleTicks >= FullAmp
             PROVE  SlipSpec => []WrongWayFades
  OBVIOUS
<1> DEFINE left == [k \in 0 .. SettleTicks |-> Higher(FullAmp - k, 0)]
<1>1. /\ SettleTicks \in Nat /\ FullAmp \in 0 .. SettleTicks
      /\ Weights \in SUBSET (Nat \ {0})
  BY SlipAssumption DEF SlipAssumption
<1>2. Fades(left, SettleTicks, Weights)
  BY <1>1, OneDigitAStep
<1>3. left[0] >= FullAmp
  BY <1>1 DEF Higher
<1> HIDE DEF left
<1>4. QED
  BY <1>2, <1>3, WrongWayAlwaysFades

\* The share of a quantity that the margin allows; none at or beyond the limit.
LEMMA MarginShare ==
  ASSUME NEW x \in Int, NEW imax \in IacMaxs, imax # 0, NEW ilMax \in PhaseCurrents
  PROVE  /\ (x * (imax - ilMax)) \div (imax \div 20) \in Int
         /\ ilMax >= imax /\ x >= 0 => (x * (imax - ilMax)) \div (imax \div 20) <= 0
<1> DEFINE a == imax \div 20
           margin == imax - ilMax
           n == x * margin
           q == n \div a
<1>1. imax \in Nat /\ imax >= 20 /\ ilMax \in Nat
  BY SlipAssumption DEF SlipAssumption
<1>2. a \in Nat \ {0} /\ margin \in Int
  BY <1>1
<1>3. ilMax >= imax => margin <= 0
  BY <1>1
<1> HIDE DEF a, margin
<1>4. n \in Int
  BY <1>2
<1>5. ilMax >= imax /\ x >= 0 => n <= 0
  <2> SUFFICES ASSUME ilMax >= imax, x >= 0
               PROVE  n <= 0
    OBVIOUS
  <2> DEFINE m == -margin
  <2>1. m \in Nat /\ margin = -m /\ x \in Nat
    BY <1>2, <1>3
  <2> HIDE DEF m
  <2>2. x * (-m) = -(x * m) /\ x * m \in Nat
    BY <2>1
  <2>3. QED
    BY <2>1, <2>2
<1> HIDE DEF n
<1>6. n <= 0 => q \in Int /\ q <= 0
  <2> SUFFICES ASSUME n <= 0
               PROVE  q \in Int /\ q <= 0
    OBVIOUS
  <2> DEFINE zero == 0
  <2>1. zero \in Int /\ n <= zero * a + a - 1
    BY <1>2, <1>4
  <2> HIDE DEF zero
  <2>2. q \in Int /\ q <= zero
    BY <1>2, <1>4, <2>1, QuotientAtMost
  <2>3. QED
    BY <2>2 DEF zero
<1>7. q \in Int
  BY <1>2, <1>4
<1> HIDE DEF q
<1>8. q \in Int /\ (ilMax >= imax /\ x >= 0 => q <= 0)
  BY <1>5, <1>6, <1>7
<1>9. QED
  BY <1>8 DEF q, n, a, margin

\* No set point of the slip lies below least, and the limiter's filters are never
\* asked for more than so much beyond 40 % and the least slip.
WindsUpTo(least, ampRest, slipRest) ==
  /\ least \in Int /\ least <= 0
  /\ \A torque \in Torques, forward \in BOOLEAN, fstat \in StatorFrqs, fweak \in WeakFrqs,
        weight \in Weights :
       \A t \in {torque, -torque} :
         least <= Fslipspnt(t, forward, FullSlip(fstat, fweak), weight)
  /\ \A imax \in IacMaxs \ {0}, ilMax \in PhaseCurrents :
       /\ (FullAmp * (imax - ilMax)) \div (imax \div 20) <= MinAmp + ampRest
       /\ \A slip \in least .. SlipConstMax :
            (slip * (imax - ilMax)) \div (imax \div 20) <= SlipMin + slipRest

\* The slip does not fall below least on its way.
LEMMA SlipNotBelow ==
  ASSUME SlipInv, NEW least, NEW ampRest, NEW slipRest, WindsUpTo(least, ampRest, slipRest),
         least <= fslip, least <= nextSlip, SetTorquePercentSine
  PROVE  least <= fslip' /\ least <= nextSlip'
<1>1. least \in Int /\ least <= 0
  BY DEF WindsUpTo
<1>2. ASSUME NEW torque \in Torques, NEW reversed \in BOOLEAN, NEW forward \in BOOLEAN,
             NEW fstat \in StatorFrqs, NEW fweak \in WeakFrqs, NEW weight \in Weights,
             WriteAmpnom(IF reversed THEN -torque ELSE torque, forward,
                         FullSlip(fstat, fweak), weight)
      PROVE  least <= fslip' /\ least <= nextSlip'
  <2> DEFINE t == IF reversed THEN -torque ELSE torque
             full == FullSlip(fstat, fweak)
             spnt == Fslipspnt(t, forward, full, weight)
  <2>1. t \in -FullAmp .. FullAmp /\ weight \in Nat \ {0}
    BY SlipAssumption DEF SlipAssumption
  <2>2. full \in Int /\ full <= SlipConstMax
    BY FullSlipBounded
  <2>3. least <= spnt
    <3>1. t \in {torque, -torque}
      OBVIOUS
    <3> HIDE DEF t
    <3>2. QED
      BY <3>1 DEF WindsUpTo
  <2>4. nextSlip' = IirFilter(fslip, spnt, weight) /\ fslip' = fslip
    BY <1>2, AmpnomFrame
  <2> HIDE DEF t, full
  <2>5. spnt \in Int
    BY <2>1, <2>2, SetPointBounded
  <2> HIDE DEF spnt
  <2>6. fslip \in Int
    BY DEF SlipInv
  <2>7. least <= IirFilter(fslip, spnt, weight)
    BY <1>1, <2>1, <2>3, <2>5, <2>6, FilterAbove
  <2>8. QED
    BY <2>4, <2>7
<1>3. CASE WriteFslip
  BY <1>3 DEF WriteFslip
<1>4. CASE WriteSlipIncr
  BY <1>1, <1>4 DEF WriteSlipIncr
<1>5. QED
  BY <1>2, <1>3, <1>4 DEF SetTorquePercentSine

\* One step of a limiting filter: it stays within what it can be asked for, and at
\* or beyond the limit what it holds beyond the lowest fades.
LEMMA LimiterFilter ==
  ASSUME NEW lowest \in Nat, NEW last \in Int, NEW spnt \in Int, NEW left,
         NEW fall \in Nat \ {0}, NEW rise \in Nat \ {0}, NEW steps \in Nat,
         Fades(left, steps, {fall}), NEW k \in 0 .. steps,
         last <= lowest + left[0], last <= lowest + left[k],
         spnt <= lowest + left[0], NEW next,
         next = IirFilter(last, spnt, IF spnt < last THEN fall ELSE rise)
  PROVE  /\ next \in Int /\ next <= lowest + left[0]
         /\ spnt = lowest => next <= lowest + left[Lower(k + 1, steps)]
<1> DEFINE w == IF spnt < last THEN fall ELSE rise
<1>1. w \in Nat \ {0} /\ left[0] \in Nat /\ left[k] \in Nat
  BY DEF Fades
<1>2. Lower(k + 1, steps) \in 0 .. steps /\ left[Lower(k + 1, steps)] \in Nat
  <2>1. Lower(k + 1, steps) \in 0 .. steps
    BY DEF Lower
  <2>2. QED
    BY <2>1 DEF Fades
<1>3. next = IirFilter(last, spnt, w)
  OBVIOUS
<1>4. next \in Int /\ next <= lowest + left[0]
  <2> HIDE DEF w
  <2> DEFINE most == lowest + left[0]
  <2>1. most \in Int /\ last <= most /\ spnt <= most + w - 1
    BY <1>1
  <2> HIDE DEF most
  <2>2. QED
    <3>1. IirFilter(last, spnt, w) \in Int /\ IirFilter(last, spnt, w) <= most
      BY <1>1, <2>1, FilterBounded
    <3>2. QED
      BY <1>3, <3>1 DEF most
<1>5. ASSUME spnt = lowest, spnt < last
      PROVE  next <= lowest + left[Lower(k + 1, steps)]
  <2>1. next = IirFilter(last, spnt, fall)
    BY <1>3, <1>5
  <2>2. {fall} \in SUBSET (Nat \ {0}) /\ fall \in {fall} /\ spnt <= lowest
    BY <1>5
  <2> DEFINE weights == {fall}
  <2> HIDE DEF weights
  <2>3. IirFilter(last, spnt, fall) <= lowest + left[Lower(k + 1, steps)]
    <3>1. weights \in SUBSET (Nat \ {0}) /\ fall \in weights /\ Fades(left, steps, weights)
      BY <2>2 DEF weights
    <3>2. spnt <= lowest /\ lowest \in Int /\ last <= lowest + left[k]
      BY <2>2
    <3>3. QED
      BY <3>1, <3>2, FadesOn
  <2>4. QED
    BY <2>1, <2>3
<1>6. ASSUME spnt = lowest, ~(spnt < last)
      PROVE  next <= lowest + left[Lower(k + 1, steps)]
  <2> HIDE DEF w
  <2>1. last <= lowest /\ spnt <= lowest + w - 1
    BY <1>1, <1>6
  <2>2. next <= lowest
    BY <1>1, <1>3, <2>1, FilterBounded
  <2>3. QED
    BY <1>2, <1>4, <2>2
<1>7. QED
  BY <1>4, <1>5, <1>6

\* What the limiter's filters still hold beyond the lowest, after so many interrupts
\* at or beyond the limit.
WindsDown(least, leftAmp, leftSlip) ==
  /\ least <= fslip /\ least <= nextSlip
  /\ curLimSpntFiltered <= MinAmp + leftAmp[0]
  /\ curLimSpntFiltered <= MinAmp + leftAmp[overloaded]
  /\ slipFiltered <= SlipMin + leftSlip[0]
  /\ slipFiltered <= SlipMin + leftSlip[motoring]
  /\ OverloadHeld

\* An interrupt with a limit set.
LEMMA LimitWindsDown ==
  ASSUME AmpInv, SlipInv, SettleRuns # 0,
         NEW least, NEW leftAmp, NEW leftSlip, WindsDown(least, leftAmp, leftSlip),
         Fades(leftAmp, SettleRuns, {FallWeight}), Fades(leftSlip, SettleRuns, {2}),
         WindsUpTo(least, leftAmp[0], leftSlip[0]),
         NEW imax \in IacMaxs, imax # 0, NEW ilMax \in PhaseCurrents,
         LimitCurrent(imax, ilMax),
         overloaded' = IF imax > 0 /\ ilMax >= imax THEN Lower(overloaded + 1, SettleRuns) ELSE 0,
         motoring' = IF (imax > 0 /\ ilMax >= imax) /\ fslip >= 0
                     THEN Lower(motoring + 1, SettleRuns) ELSE 0
  PROVE  /\ curLimSpntFiltered' <= MinAmp + leftAmp[0]
         /\ curLimSpntFiltered' <= MinAmp + leftAmp[overloaded']
         /\ slipFiltered' <= SlipMin + leftSlip[0]
         /\ slipFiltered' <= SlipMin + leftSlip[motoring']
         /\ OverloadHeld'
<1>1. PICK curLimSpnt \in Int, slipSpnt \in Int :
        /\ curLimSpnt = Higher(MinAmp, (FullAmp * (imax - ilMax)) \div (imax \div 20))
        /\ slipSpnt = Higher(SlipMin, (fslip * (imax - ilMax)) \div (imax \div 20))
        /\ curLimSpntFiltered'
             = IirFilter(curLimSpntFiltered, curLimSpnt,
                         IF curLimSpnt < curLimSpntFiltered THEN FallWeight ELSE RiseWeight)
        /\ slipFiltered' = IirFilter(slipFiltered, slipSpnt, 2)
        /\ slipIncr' = Lower(fslip, slipFiltered')
        /\ leastAmp' = (Lower(ampnom, curLimSpntFiltered') <= MinAmp)
        /\ leastSlip' = (slipIncr' <= SlipMin)
  BY LimiterMoves
<1>2. /\ MinAmp \in Nat /\ SlipMin \in Nat /\ SettleRuns \in Nat \ {0}
      /\ FallWeight \in Nat \ {0} /\ RiseWeight \in Nat \ {0} /\ FullAmp \in Nat
      /\ imax \in Nat /\ imax >= 20 /\ ilMax \in Nat
  BY SlipAssumption, Quotient DEF SlipAssumption, MinAmp
<1>3. /\ fslip \in Int /\ slipFiltered \in Int /\ curLimSpntFiltered \in Nat /\ ampnom \in Nat
      /\ overloaded \in 0 .. SettleRuns /\ motoring \in 0 .. SettleRuns
      /\ least \in Int /\ fslip \in least .. SlipConstMax
  <2>1. SlipConstMax \in Nat
    BY SlipAssumption DEF SlipAssumption
  <2>2. QED
    BY <2>1 DEF AmpInv, SlipInv, WindsDown, WindsUpTo
<1>4. /\ leftAmp[0] \in Nat /\ leftSlip[0] \in Nat
      /\ leftAmp[SettleRuns] = 0 /\ leftSlip[SettleRuns] = 0
  BY <1>2 DEF Fades
<1>5. /\ curLimSpnt <= MinAmp + leftAmp[0]
      /\ ilMax >= imax => curLimSpnt = MinAmp
  <2>1. (FullAmp * (imax - ilMax)) \div (imax \div 20) <= MinAmp + leftAmp[0]
    BY DEF WindsUpTo
  <2> DEFINE q == (FullAmp * (imax - ilMax)) \div (imax \div 20)
  <2>2. q \in Int /\ (ilMax >= imax /\ FullAmp >= 0 => q <= 0)
    BY <1>2, <1>3, MarginShare
  <2>3. q <= MinAmp + leftAmp[0] /\ curLimSpnt = Higher(MinAmp, q)
    BY <1>1, <2>1
  <2> HIDE DEF q
  <2>4. QED
    BY <1>2, <1>3, <1>4, <2>2, <2>3 DEF Higher
<1>6. /\ slipSpnt <= SlipMin + leftSlip[0]
      /\ ilMax >= imax /\ fslip >= 0 => slipSpnt = SlipMin
  <2>1. (fslip * (imax - ilMax)) \div (imax \div 20) <= SlipMin + leftSlip[0]
    BY <1>3 DEF WindsUpTo
  <2> DEFINE q == (fslip * (imax - ilMax)) \div (imax \div 20)
  <2>2. q \in Int /\ (ilMax >= imax /\ fslip >= 0 => q <= 0)
    BY <1>2, <1>3, MarginShare
  <2>3. q <= SlipMin + leftSlip[0] /\ slipSpnt = Higher(SlipMin, q)
    BY <1>1, <2>1
  <2> HIDE DEF q
  <2>4. QED
    BY <1>2, <1>3, <1>4, <2>2, <2>3 DEF Higher
<1>7. /\ curLimSpntFiltered' \in Int /\ curLimSpntFiltered' <= MinAmp + leftAmp[0]
      /\ curLimSpnt = MinAmp
           => curLimSpntFiltered' <= MinAmp + leftAmp[Lower(overloaded + 1, SettleRuns)]
  <2>1. /\ curLimSpntFiltered <= MinAmp + leftAmp[0]
        /\ curLimSpntFiltered <= MinAmp + leftAmp[overloaded]
    BY DEF WindsDown
  <2>2. curLimSpntFiltered' = IirFilter(curLimSpntFiltered, curLimSpnt,
                         IF curLimSpnt < curLimSpntFiltered THEN FallWeight ELSE RiseWeight)
    BY <1>1
  <2>3. curLimSpnt \in Int /\ curLimSpnt <= MinAmp + leftAmp[0]
    BY <1>5
  <2> DEFINE next == curLimSpntFiltered'
  <2> HIDE DEF next
  <2>4. next = IirFilter(curLimSpntFiltered, curLimSpnt,
                         IF curLimSpnt < curLimSpntFiltered THEN FallWeight ELSE RiseWeight)
    BY <2>2 DEF next
  <2>5. /\ next \in Int /\ next <= MinAmp + leftAmp[0]
        /\ curLimSpnt = MinAmp => next <= MinAmp + leftAmp[Lower(overloaded + 1, SettleRuns)]
    <3>1. SettleRuns \in Nat /\ curLimSpntFiltered \in Int
      BY <1>2, <1>3
    <3>2. QED
      BY <1>2, <1>3, <2>1, <2>3, <2>4, <3>1, LimiterFilter, Zenon
  <2>6. QED
    BY <2>5 DEF next
<1>8. /\ slipFiltered' \in Int /\ slipFiltered' <= SlipMin + leftSlip[0]
      /\ slipSpnt = SlipMin => slipFiltered' <= SlipMin + leftSlip[Lower(motoring + 1, SettleRuns)]
  <2>1. slipFiltered <= SlipMin + leftSlip[0] /\ slipFiltered <= SlipMin + leftSlip[motoring]
    BY DEF WindsDown
  <2> DEFINE two == 2
  <2>2. two \in Nat \ {0} /\ Fades(leftSlip, SettleRuns, {two})
    OBVIOUS
  <2>3. slipFiltered' = IirFilter(slipFiltered, slipSpnt, IF slipSpnt < slipFiltered THEN two ELSE two)
    BY <1>1
  <2> HIDE DEF two
  <2>4. slipSpnt \in Int /\ slipSpnt <= SlipMin + leftSlip[0]
    BY <1>6
  <2> DEFINE next == slipFiltered'
  <2> HIDE DEF next
  <2>5. next = IirFilter(slipFiltered, slipSpnt, IF slipSpnt < slipFiltered THEN two ELSE two)
    BY <2>3 DEF next
  <2>6. /\ next \in Int /\ next <= SlipMin + leftSlip[0]
        /\ slipSpnt = SlipMin => next <= SlipMin + leftSlip[Lower(motoring + 1, SettleRuns)]
    BY <1>2, <1>3, <2>1, <2>2, <2>4, <2>5, LimiterFilter
  <2>7. QED
    BY <2>6 DEF next
<1>9. curLimSpntFiltered' <= MinAmp + leftAmp[overloaded']
  BY <1>2, <1>5, <1>7
<1>10. slipFiltered' <= SlipMin + leftSlip[motoring']
  BY <1>2, <1>6, <1>8
<1>11. OverloadHeld'
  <2>1. ASSUME overloaded' = SettleRuns
        PROVE  leastAmp'
    <3>1. curLimSpntFiltered' <= MinAmp
      BY <1>2, <1>4, <1>7, <1>9, <2>1
    <3>2. Lower(ampnom, curLimSpntFiltered') <= MinAmp
      BY <1>2, <1>3, <1>7, <3>1 DEF Lower
    <3>3. QED
      BY <1>1, <3>2
  <2>2. ASSUME motoring' = SettleRuns
        PROVE  leastSlip'
    <3>1. slipFiltered' <= SlipMin
      BY <1>2, <1>4, <1>8, <1>10, <2>2
    <3>2. Lower(fslip, slipFiltered') <= SlipMin
      BY <1>2, <1>3, <1>8, <3>1 DEF Lower
    <3>3. QED
      BY <1>1, <3>2
  <2>3. QED
    BY <2>1, <2>2 DEF OverloadHeld
<1>12. QED
  BY <1>7, <1>8, <1>9, <1>10, <1>11

\* For every tuning, every current and every wind-up: once the limiter's two filters
\* have had the time their rounding takes, an overload puts out no more than 40 %,
\* and no more than the least slip while the slip is not negative.
THEOREM OverloadAlwaysHeld ==
  ASSUME SettleRuns # 0, NEW least, NEW leftAmp, NEW leftSlip,
         Fades(leftAmp, SettleRuns, {FallWeight}), Fades(leftSlip, SettleRuns, {2}),
         WindsUpTo(least, leftAmp[0], leftSlip[0])
  PROVE  SlipSpec => []OverloadHeld
<1> DEFINE W == WindsDown(least, leftAmp, leftSlip)
<1>1. /\ MinAmp \in Nat /\ SlipMin \in Nat /\ SettleRuns \in Nat \ {0}
      /\ leftAmp[0] \in Nat /\ leftSlip[0] \in Nat /\ least \in Int /\ least <= 0
  BY SlipAssumption, Quotient DEF SlipAssumption, MinAmp, Fades, WindsUpTo
<1>2. SlipInit => W
  BY <1>1 DEF SlipInit, WindsDown, OverloadHeld
<1>3. AmpInv /\ SlipInv /\ W /\ [SlipNext]_slipVars => W'
  <2> SUFFICES ASSUME AmpInv, SlipInv, WindsDown(least, leftAmp, leftSlip), [SlipNext]_slipVars
               PROVE  WindsDown(least, leftAmp, leftSlip)'
    OBVIOUS
  <2>1. CASE SetTorquePercentSine
    <3>1. least <= fslip' /\ least <= nextSlip'
      BY <2>1, SlipNotBelow DEF WindsDown
    <3>2. /\ curLimSpntFiltered' = curLimSpntFiltered /\ slipFiltered' = slipFiltered
          /\ overloaded' = overloaded /\ motoring' = motoring
          /\ leastAmp' = leastAmp /\ leastSlip' = leastSlip
      <4>1. ASSUME NEW torque \in Torques, NEW reversed \in BOOLEAN, NEW forward \in BOOLEAN,
                   NEW fstat \in StatorFrqs, NEW fweak \in WeakFrqs, NEW weight \in Weights,
                   WriteAmpnom(IF reversed THEN -torque ELSE torque, forward,
                               FullSlip(fstat, fweak), weight)
            PROVE  /\ curLimSpntFiltered' = curLimSpntFiltered /\ slipFiltered' = slipFiltered
                   /\ overloaded' = overloaded /\ motoring' = motoring
                   /\ leastAmp' = leastAmp /\ leastSlip' = leastSlip
        BY <4>1, AmpnomFrame
      <4>2. CASE WriteFslip
        BY <4>2 DEF WriteFslip, limiter, slipHistory
      <4>3. CASE WriteSlipIncr
        BY <4>3 DEF WriteSlipIncr, limiter, slipHistory
      <4>4. QED
        BY <2>1, <4>1, <4>2, <4>3 DEF SetTorquePercentSine
    <3>3. QED
      BY <3>1, <3>2 DEF WindsDown, OverloadHeld
  <2>2. CASE RunSlip
    <3>1. PICK imax \in IacMaxs, ilMax \in PhaseCurrents :
            /\ imax = 0 => NoLimit
            /\ imax # 0 => LimitCurrent(imax, ilMax)
            /\ overloaded' = IF imax > 0 /\ ilMax >= imax
                             THEN Lower(overloaded + 1, SettleRuns) ELSE 0
            /\ motoring' = IF (imax > 0 /\ ilMax >= imax) /\ fslip >= 0
                           THEN Lower(motoring + 1, SettleRuns) ELSE 0
            /\ ampnom' = ampnom /\ fslip' = fslip /\ nextSlip' = nextSlip
            /\ writing' = writing /\ backwards' = backwards
      BY <2>2, RunFrame
    <3>2. CASE imax = 0
      <4>1. curLimSpntFiltered' = curLimSpntFiltered /\ slipFiltered' = slipFiltered
        BY <3>1, <3>2 DEF NoLimit, limiter
      <4>2. overloaded' = 0 /\ motoring' = 0
        BY <3>1, <3>2
      <4>3. QED
        BY <1>1, <3>1, <4>1, <4>2 DEF WindsDown, OverloadHeld
    <3>3. CASE imax # 0
      <4>1. /\ curLimSpntFiltered' <= MinAmp + leftAmp[0]
            /\ curLimSpntFiltered' <= MinAmp + leftAmp[overloaded']
            /\ slipFiltered' <= SlipMin + leftSlip[0]
            /\ slipFiltered' <= SlipMin + leftSlip[motoring']
            /\ OverloadHeld'
        BY <3>1, <3>3, LimitWindsDown
      <4>2. least <= fslip' /\ least <= nextSlip'
        BY <3>1 DEF WindsDown
      <4>3. QED
        BY <4>1, <4>2 DEF WindsDown
    <3>4. QED
      BY <3>2, <3>3
  <2>3. CASE UNCHANGED slipVars
    BY <2>3 DEF slipVars, slipShared, limiter, slipHistory, WindsDown, OverloadHeld
  <2>4. QED
    BY <2>1, <2>2, <2>3 DEF SlipNext
<1>4. W => OverloadHeld
  BY DEF WindsDown
<1>5. QED
  BY <1>2, <1>3, <1>4, AmpInvariant, SlipInvariant, PTL DEF SlipSpec

\* For every tuning: as many interrupts as the wind-up has digits always suffice.
THEOREM OverloadHeldInTime ==
  ASSUME SettleRuns # 0, NEW least, NEW rest \in 0 .. SettleRuns, WindsUpTo(least, rest, rest)
  PROVE  SlipSpec => []OverloadHeld
<1> DEFINE left == [k \in 0 .. SettleRuns |-> Higher(rest - k, 0)]
<1>1. SettleRuns \in Nat /\ FallWeight \in Nat \ {0}
  BY SlipAssumption DEF SlipAssumption
<1>2. left[0] = rest
  BY <1>1 DEF Higher
<1>3. Fades(left, SettleRuns, {FallWeight}) /\ Fades(left, SettleRuns, {2})
  <2>1. {FallWeight} \in SUBSET (Nat \ {0}) /\ {2} \in SUBSET (Nat \ {0})
    BY <1>1
  <2>2. QED
    BY <1>1, <2>1, OneDigitAStep
<1> HIDE DEF left
<1>4. WindsUpTo(least, left[0], left[0])
  BY <1>2
<1>5. QED
  BY <1>3, <1>4, OverloadAlwaysHeld

-----------------------------------------------------------------------------
(* The types of the clamp, the offsets, the charger and the anti-cogging.  *)

LEMMA ClampTypeStep ==
  QClampTypeOK /\ InCircle /\ InCircle' /\ [QClampNext]_qClampVars => QClampTypeOK'
<1> SUFFICES ASSUME QClampTypeOK, InCircle, InCircle', [QClampNext]_qClampVars
             PROVE  QClampTypeOK'
  OBVIOUS
<1>1. {qMinLim', qMaxLim', minY', maxY', uq'} \subseteq Int
  BY DEF InCircle
<1>2. qdir' \in {-1, 0, 1} /\ blocked' \in 0 .. 2 * SlewDivisor
  BY DEF InCircle
<1>3. restricted' \in BOOLEAN /\ {qlimit', base'} \subseteq QLimits
  <2>1. restricted \in BOOLEAN /\ qlimit \in QLimits /\ base \in QLimits
    BY DEF QClampTypeOK
  <2>2. CASE ClampedRun
    <3>1. PICK frqFiltered \in Speeds, limit \in QLimits, dir \in {-1, 0, 1},
               thresholdHz \in ThresholdsHz :
            Update(frqFiltered, limit, dir, thresholdHz)
      BY <2>2 DEF ClampedRun
    <3>2. restricted' = Restricts(frqFiltered, thresholdHz)
      BY <3>1 DEF Update
    <3>3. Restricts(frqFiltered, thresholdHz) \in BOOLEAN
      BY DEF Restricts
    <3>4. qlimit' = limit /\ base' = IF GoesOn(limit, dir) THEN base ELSE limit
      BY <3>1 DEF Update
    <3>5. qlimit' \in QLimits /\ base' \in QLimits
      BY <2>1, <3>4
    <3> QED
      BY <3>2, <3>3, <3>5
  <2>3. CASE ResetVoltageLimits
    BY <2>1, <2>3 DEF ResetVoltageLimits, qClampState, qClampHistory
  <2>4. CASE UNCHANGED qClampVars
    BY <2>1, <2>4 DEF qClampVars, qClampState, qClampHistory
  <2> QED
    BY <2>2, <2>3, <2>4 DEF QClampNext
<1> QED
  BY <1>1, <1>2, <1>3 DEF QClampTypeOK

\* The clamp's state, the controller's and the limits stay in their ranges.
THEOREM ClampTypeCorrect == QClampSpec => []QClampTypeOK
<1>1. QClampInit => QClampTypeOK
  BY QClampAssumption DEF QClampInit, QClampTypeOK
<1> QED
  BY <1>1, ClampInvariant, ClampTypeStep, PTL DEF QClampSpec

LEMMA OffsetsTypeStep ==
  OffsetsTypeOK /\ WaitSuffices /\ WaitSuffices' /\ [OffsetsNext]_offsetsVars => OffsetsTypeOK'
<1> SUFFICES ASSUME OffsetsTypeOK, WaitSuffices, WaitSuffices', [OffsetsNext]_offsetsVars
             PROVE  OffsetsTypeOK'
  OBVIOUS
<1>1. /\ phase' \in {"off", "published", "waiting", "on"}
      /\ initwait' \in 0 .. PwmInitWait
      /\ samples' \in 0 .. OffsetSamples /\ own' \in 0 .. OffsetSamples
  BY OffsetsAssumption DEF WaitSuffices
<1>2. isIdle \in BOOLEAN /\ mainOutput \in BOOLEAN /\ calibrated \in BOOLEAN
  BY Zenon DEF OffsetsTypeOK
<1>3. (calibrated \/ own = samples) \in BOOLEAN
  OBVIOUS
<1>4. isIdle' \in BOOLEAN /\ mainOutput' \in BOOLEAN /\ calibrated' \in BOOLEAN
  BY <1>2, <1>3, Zenon DEF OffsetsNext, PublishRun, PwmInitSetsWait, ConnectChannels, StopPwm,
     SetIdle, RunIsr, HoldOff, GoLive, RunOffsetCalibration, offsetsVars
<1> QED
  BY <1>1, <1>4 DEF OffsetsTypeOK

\* Wait, buffer and counts stay in their ranges.
THEOREM OffsetsTypeCorrect == OffsetsSpec => []OffsetsTypeOK
<1>1. OffsetsInit => OffsetsTypeOK
  <2>1. OffsetsInit => isIdle \in BOOLEAN /\ mainOutput \in BOOLEAN /\ calibrated \in BOOLEAN
    BY Zenon DEF OffsetsInit
  <2> QED
    BY <2>1, OffsetsAssumption DEF OffsetsInit, OffsetsTypeOK
<1> QED
  BY <1>1, WaitInvariant, OffsetsTypeStep, PTL DEF OffsetsSpec

LEMMA ChargerTypeStep ==
  ChargerTypeOK /\ ReferenceGranted' /\ [ChargerNext]_chargerVars => ChargerTypeOK'
<1> SUFFICES ASSUME ChargerTypeOK, ReferenceGranted', [ChargerNext]_chargerVars
             PROVE  ChargerTypeOK'
  OBVIOUS
<1>1. session' \in {"off", "published", "enabled", "on"} /\ drawn' \in Nat
  BY DEF ChargerTypeOK, ChargerNext, PublishCharge, EnableCharge, ConfigureChargeController,
     StopCharge, RunCharger, Charge, chargerVars
<1> QED
  BY <1>1 DEF ReferenceGranted, ChargerTypeOK

\* Ramp, reference and what is drawn stay natural numbers.
THEOREM ChargerTypeCorrect == ChargerSpec => []ChargerTypeOK
<1>1. ChargerInit => ChargerTypeOK
  BY DEF ChargerInit, ChargerTypeOK
<1> QED
  BY <1>1, GrantInvariant, ChargerTypeStep, PTL DEF ChargerSpec

LEMMA SignalLimited ==
  ASSUME NEW a \in Angles, NEW c \in Nat, cogph \in Angles, cogkp \in Int
  PROVE  GenerateAntiCoggingSignal(a, c) \in -CogMax .. CogMax
<1> DEFINE angleNow == (a + cogph) % Turn
           f == AntiCogTriangle(angleNow)
           n == Overflowed(f * c * cogkp)
<1>1. Turn \in Nat \ {0} /\ Quarter \in Nat /\ IntMax \in Nat /\ CogMax \in Nat
  BY AntiCogAssumption DEF Turn
<1>2. angleNow \in Int
  BY <1>1 DEF Angles
<1> HIDE DEF angleNow
<1>3. f \in Int
  BY <1>1, <1>2 DEF AntiCogTriangle, Folded, Half, Turn
<1> HIDE DEF f
<1>4. n \in Int
  <2> DEFINE product == f * c * cogkp
             width == 2 * IntMax + 2
  <2>1. product \in Int
    <3>1. f * c \in Int
      BY <1>3
    <3> QED
      BY <3>1
  <2>2. width \in Nat \ {0}
    BY <1>1
  <2> HIDE DEF product, width
  <2>3. (product + IntMax + 1) % width \in Int
    BY <1>1, <2>1, <2>2
  <2> QED
    BY <1>1, <2>3 DEF Overflowed, product, width
<1> HIDE DEF n
<1>5. Scaled(n) \in Int
  BY <1>1, <1>4 DEF Scaled
<1>6. Limited(Scaled(n)) \in -CogMax .. CogMax
  <2> DEFINE m == Scaled(n)
  <2> HIDE DEF m
  <2>1. m \in Int
    BY <1>5 DEF m
  <2>2. Limited(m) \in -CogMax .. CogMax
    BY <1>1, <2>1 DEF Limited, Least, Greatest
  <2> QED
    BY <2>2 DEF m
<1> QED
  BY <1>6 DEF GenerateAntiCoggingSignal, n, f, angleNow

LEMMA AntiCogTypeStep ==
  AntiCogTypeOK /\ SwingSeen /\ SwingSeen' /\ [InjectAntiCog]_antiCogVars => AntiCogTypeOK'
<1> SUFFICES ASSUME AntiCogTypeOK, SwingSeen, SwingSeen', [InjectAntiCog]_antiCogVars
             PROVE  AntiCogTypeOK'
  OBVIOUS
<1>1. cogph' \in CogPhases /\ cogkp' \in CogGains \cup {-gain : gain \in CogGains}
  BY DEF AntiCogTypeOK, InjectAntiCog, antiCogVars, gains
<1>2. /\ cogAngle' \in Angles /\ idsSeen' \subseteq -IdSwing .. IdSwing
      /\ {minId', maxId'} \subseteq -IntMax .. IntMax /\ coggingCurrent' \in 0 .. IntMax
  <2>1. IdSwing \in Nat /\ IntMax \in Nat /\ 2 * IdSwing <= IntMax
    BY AntiCogAssumption
  <2>2. \/ minId' \in -IdSwing .. IdSwing /\ maxId' \in -IdSwing .. IdSwing
        \/ minId' = IntMax /\ maxId' = -IntMax
    BY DEF SwingSeen
  <2>3. minId' \in -IntMax .. IntMax /\ maxId' \in -IntMax .. IntMax
    BY <2>1, <2>2
  <2> QED
    BY <2>1, <2>3 DEF SwingSeen
<1>3. anticog' \in -CogMax .. CogMax
  <2>1. cogph \in Angles /\ cogkp \in Int
    BY GainsAreInt DEF AntiCogTypeOK
  <2>2. cogAngle' \in Angles /\ ToAmps(coggingCurrent') \in Nat
    BY <1>2, AntiCogAssumption, AmpsType
  <2> QED
    BY <2>1, <2>2, SignalLimited DEF InjectAntiCog, antiCogVars, AntiCogTypeOK
<1> QED
  BY <1>1, <1>2, <1>3 DEF AntiCogTypeOK

\* Extremes, swing and signal stay in their ranges, the signal within cogmax.
THEOREM AntiCogTypeCorrect == AntiCogSpec => []AntiCogTypeOK
<1>1. AntiCogInit => AntiCogTypeOK
  BY AntiCogAssumption DEF AntiCogInit, AntiCogTypeOK, Angles, Turn
<1> QED
  BY <1>1, SwingInvariant, AntiCogTypeStep, PTL DEF AntiCogSpec
=============================================================================
