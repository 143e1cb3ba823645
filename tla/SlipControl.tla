---------------------------- MODULE SlipControl ----------------------------
(***************************************************************************)
(* Amplitude and slip of the SINE variant (pwmgeneration-sine.cpp). The    *)
(* 10 ms task maps the torque command to an amplitude and a slip and       *)
(* filters both; the PWM interrupt limits them by the current and advances *)
(* the angle by the slip increment, which both write. The interrupt may    *)
(* fall between any two writes of the task.                                *)
(*                                                                         *)
(* Quantities are in digits of the fixed point format, quotients of floats *)
(* rounded down to digits. The slip increment stands as the slip it was    *)
(* computed from. The test parameters ampnom and fslipspnt, by which a     *)
(* host sets both "directly, bypassing the throttle-to-slip calculation",  *)
(* are left alone.                                                         *)
(***************************************************************************)
EXTENDS Integers

CONSTANTS
  FullAmp,                          \* 100 %, of amplitude and of torque
  AmpMin, SlipStart, SineCurve,     \* ampmin, slipstart, sinecurve
  SlipMin, SlipMax, SlipConstMax,   \* fslipmin, fslipmax, fslipconstmax
  FConst,                           \* fconst
  StatorFrqs,   \* values of fstat, which the interrupt publishes
  WeakFrqs,     \* values of fweakcalc, which moves with pedal and bus voltage
  Torques,      \* sizes of the torque command, 0 to 100 %
  Weights,      \* values of 2 ^ throtfilter
  RiseWeight,   \* 2 ^ ifltrise
  FallWeight,   \* 2 ^ ifltfall
  IacMaxs,      \* values of iacmax; 0 switches the limit off
  PhaseCurrents,\* values of ilMax
  SettleTicks,  \* task periods the amplitude's filter takes from 100 % to 0
  SettleRuns    \* interrupts the limiting filters take to their lower ends

ASSUME SlipAssumption ==
  /\ FullAmp \in Nat \ {0}
  /\ AmpMin \in 0 .. FullAmp
  /\ SlipStart \in 1 .. FullAmp
  /\ SineCurve \in BOOLEAN
  /\ {SlipMin, SlipMax, SlipConstMax, FConst} \subseteq Nat
  /\ SlipMin <= SlipMax /\ SlipMax <= SlipConstMax
  /\ StatorFrqs \subseteq Nat /\ WeakFrqs \subseteq Nat
  /\ Torques \subseteq 0 .. FullAmp
  /\ Weights \subseteq Nat \ {0} /\ {RiseWeight, FallWeight} \subseteq Nat \ {0}
  /\ IacMaxs \subseteq {0} \union {n \in Nat : n >= 20}
  /\ PhaseCurrents \subseteq Nat
  /\ {SettleTicks, SettleRuns} \subseteq Nat

VARIABLES
  ampnom, fslip, slipIncr,           \* PwmGeneration, shared by task and interrupt
  writing, nextSlip,                 \* the write the task does next, and fslip's new value
  curLimSpntFiltered, slipFiltered,  \* statics of LimitCurrent
  backwards,                         \* history: task periods of regeneration asked for
                                     \* while rolling against the selected direction
  overloaded,                        \* history: interrupts at or beyond the limit, and
  motoring,                          \* those of them, in a row, with no negative slip
  leastAmp, leastSlip                \* history: did the last one put out the least

slipShared == <<ampnom, fslip, slipIncr>>
limiter == <<curLimSpntFiltered, slipFiltered>>
slipHistory == <<backwards, overloaded, motoring, leastAmp, leastSlip>>
slipVars == <<slipShared, writing, nextSlip, limiter, slipHistory>>

SlipTypeOK ==
  /\ ampnom \in 0 .. FullAmp
  /\ {fslip, nextSlip, slipIncr, slipFiltered} \subseteq Int
  /\ curLimSpntFiltered \in Nat
  /\ writing \in {"ampnom", "fslip", "slipIncr"}
  /\ backwards \in 0 .. SettleTicks
  /\ {overloaded, motoring} \subseteq 0 .. SettleRuns
  /\ {leastAmp, leastSlip} \subseteq BOOLEAN

SlipInit ==
  /\ ampnom = 0 /\ fslip = 0 /\ slipIncr = 0
  /\ writing = "ampnom" /\ nextSlip = 0
  /\ curLimSpntFiltered = 0 /\ slipFiltered = 0
  /\ backwards = 0 /\ overloaded = 0 /\ motoring = 0 /\ leastAmp = TRUE /\ leastSlip = TRUE

Lower(x, y) == IF x < y THEN x ELSE y
Higher(x, y) == IF x > y THEN x ELSE y

\* IIRFILTER with a filter constant of which weight is the power of two: a shift,
\* which rounds down.
IirFilter(last, new, weight) == (new + last * (weight - 1)) \div weight

-----------------------------------------------------------------------------

\* The slip at full torque, which grows from fweak on. fweak may lie at or beyond
\* fconst; a quotient by zero is infinite.
FullSlip(fstat, fweak) ==
  CASE fstat <= fweak -> SlipMax
    [] fweak = FConst -> SlipConstMax
    [] OTHER ->
         LET run == IF FConst > fweak THEN fstat - fweak ELSE fweak - fstat
             span == IF FConst > fweak THEN FConst - fweak ELSE fweak - FConst
         IN Lower(SlipMax + (run * (SlipConstMax - SlipMax)) \div span, SlipConstMax)

RoundingError_Whole(weight) == weight

\* What the filter loses on the way up.
RoundingError(weight) == weight - 1

\* The slip asked for at a torque of 0 or more. At slipstart = 100 % and full
\* torque the quotient is 0 / 0, which converts to 0.
DrivingSlip(torque, fullSlip, weight) ==
  LET from(x) == RoundingError(weight) + SlipMin + x
  IN CASE SineCurve -> from(((fullSlip - SlipMin) * torque) \div FullAmp)
       [] ~SineCurve /\ torque < SlipStart -> from(0)
       [] ~SineCurve /\ torque >= SlipStart /\ SlipStart = FullAmp -> 0
       [] OTHER -> from(((fullSlip - SlipMin) * (torque - SlipStart)) \div (FullAmp - SlipStart))

DrivingAmp(torque) ==
  AmpMin + ((FullAmp - AmpMin) * torque) \div (IF SineCurve THEN FullAmp ELSE SlipStart)

WrongWay_Unchecked(torque, forward) == FALSE

\* Negative torque while "already traveling backwards".
WrongWay(torque, forward) == torque < 0 /\ ~forward

AmpnomLocal(torque, forward) ==
  Lower(FullAmp, CASE torque >= 0 -> DrivingAmp(torque)
                   [] WrongWay(torque, forward) -> 0
                   [] OTHER -> -torque)

Fslipspnt(torque, forward, fullSlip, weight) ==
  CASE torque >= 0 -> DrivingSlip(torque, fullSlip, weight)
    [] WrongWay(torque, forward) -> 0
    [] OTHER -> -SlipMin

\* SetTorquePercent up to its first write.
WriteAmpnom(torque, forward, fullSlip, weight) ==
  /\ writing = "ampnom"
  /\ ampnom' = IirFilter(ampnom, AmpnomLocal(torque, forward), weight)
  /\ nextSlip' = IirFilter(fslip, Fslipspnt(torque, forward, fullSlip, weight), weight)
  /\ writing' = "fslip"
  /\ backwards' = IF torque < 0 /\ ~forward THEN Lower(backwards + 1, SettleTicks) ELSE 0
  /\ UNCHANGED <<fslip, slipIncr, limiter, overloaded, motoring, leastAmp, leastSlip>>

WriteFslip ==
  /\ writing = "fslip"
  /\ fslip' = nextSlip
  /\ writing' = "slipIncr"
  /\ UNCHANGED <<ampnom, slipIncr, nextSlip, limiter, slipHistory>>

WriteSlipIncr ==
  /\ writing = "slipIncr"
  /\ slipIncr' = fslip
  /\ nextSlip' = 0
  /\ writing' = "ampnom"
  /\ UNCHANGED <<ampnom, fslip, limiter, slipHistory>>

\* The task's call, with whatever the encoder and the interrupt have published. A
\* host may change throtfilter between two calls.
SetTorquePercentSine ==
  \/ \E torque \in Torques, reversed \in BOOLEAN, forward \in BOOLEAN,
        fstat \in StatorFrqs, fweak \in WeakFrqs, weight \in Weights :
       WriteAmpnom(IF reversed THEN -torque ELSE torque, forward, FullSlip(fstat, fweak), weight)
  \/ WriteFslip
  \/ WriteSlipIncr

-----------------------------------------------------------------------------

MinAmp == (40 * FullAmp) \div 100

\* The amplitude and the increment this interrupt advances the angle by.
PutOut(ampNomLimited) ==
  /\ leastAmp' = (ampNomLimited <= MinAmp)
  /\ leastSlip' = (slipIncr' <= SlipMin)

LimitedSlip_Unlimited(filtered) == fslip

LimitedSlip(filtered) == Lower(fslip, filtered)

\* LimitCurrent with a limit set, which acts from 95 % of it on.
LimitCurrent(imax, ilMax) ==
  LET a == imax \div 20
      imargin == imax - ilMax
      curLimSpnt == Higher(MinAmp, (FullAmp * imargin) \div a)
      weight == IF curLimSpnt < curLimSpntFiltered THEN FallWeight ELSE RiseWeight
      slipSpnt == Higher(SlipMin, (fslip * imargin) \div a)
  IN /\ curLimSpntFiltered' = IirFilter(curLimSpntFiltered, curLimSpnt, weight)
     /\ slipFiltered' = IirFilter(slipFiltered, slipSpnt, 2)
     /\ slipIncr' = LimitedSlip(slipFiltered')
     /\ PutOut(Lower(ampnom, curLimSpntFiltered'))

\* Otherwise the amplitude passes and the increment stays what the task made it.
NoLimit ==
  /\ UNCHANGED <<limiter, slipIncr>>
  /\ PutOut(ampnom)

\* The PWM interrupt: limit, then advance the angle.
RunSlip ==
  /\ \E imax \in IacMaxs, ilMax \in PhaseCurrents :
       LET overload == imax > 0 /\ ilMax >= imax
       IN /\ IF imax = 0 THEN NoLimit ELSE LimitCurrent(imax, ilMax)
          /\ overloaded' = IF overload THEN Lower(overloaded + 1, SettleRuns) ELSE 0
          /\ motoring' = IF overload /\ fslip >= 0 THEN Lower(motoring + 1, SettleRuns) ELSE 0
  /\ UNCHANGED <<ampnom, fslip, nextSlip, writing, backwards>>

SlipNext ==
  \/ SetTorquePercentSine
  \/ RunSlip

SlipSpec == SlipInit /\ [][SlipNext]_slipVars

\* "Never exceed fslipconstmax!": neither the slip nor the increment does, at any
\* torque, frequency and field weakening point, although the set point is raised by
\* what the filter will lose and the filter's constant may change on the way.
SlipBounded == fslip <= SlipConstMax /\ slipIncr <= SlipConstMax

\* "Do not apply negative torque if we are already traveling backwards": regeneration
\* asked for while rolling back leaves no amplitude once the filter has had its
\* time, whatever was applied before (RunSine then shuts the output down).
WrongWayFades == backwards = SettleTicks => ampnom = 0

\* After SettleRuns interrupts at or beyond iacmax every further one puts out no more
\* than 40 %, however high the limiter had wound up and whatever the task writes in
\* between; and no more than the least slip, when the slip was not negative in any of
\* them. (Of a negative slip and a negative margin the code makes a positive set
\* point: regeneration beyond the limit winds the slip's filter up.)
OverloadHeld ==
  /\ overloaded = SettleRuns => leastAmp
  /\ motoring = SettleRuns => leastSlip
=============================================================================
