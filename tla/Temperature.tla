---------------------------- MODULE Temperature -----------------------------
(***************************************************************************)
(* Heat sink and motor temperature (CalcAndOutputTemp and GetTemps): what  *)
(* the derating and the fan go by. On the Tesla board one analog input     *)
(* each for motor and inverter is switched over four sensors in turn, one  *)
(* per run of the 10 ms task, and the board finds out by itself which of   *)
(* two drive units it sits in: the fourth motor input is grounded on the   *)
(* small one (SDU) and a stator sensor on the large one (LDU).             *)
(***************************************************************************)
EXTENDS TempMeas

CONSTANTS
  TempBoards,  \* values of hwRev: "TESLA", "PRIUS" or any other
  TempDigits,  \* readings of the analog inputs
  HsSensors,   \* values of snshs, and of snsm
  MotorSensors,
  Functions,   \* values of pwmfunc, but for the one that shows the speed
  FanThresh,   \* fanthresh, in degrees
  PwmOfs       \* pwmofs; pwmgain is 1

ASSUME TemperatureAssumption ==
  /\ TempDigits \subseteq 0 .. MaxDigit
  /\ HsSensors \cup MotorSensors \subseteq DOMAIN sensors
  /\ Functions \subseteq {"tmpm", "tmphs", "exciter"}
  /\ FanThresh \in Nat
  /\ PwmOfs \in Nat

VARIABLES
  board, ldu,            \* hwRev; is this the large drive unit
  snshs, snsm, pwmfunc,
  mux,                   \* temp0_out + 2 * temp1_out
  hsTemps, mTemps, isLdu, coeffDoubled,  \* statics of GetTemps
  temphsFiltered, tempmFiltered,         \* also Param::tmphs, Param::tmpm
  fan, gauge,            \* fan_out, the PWM output for an instrument
  hsHottest, mHottest,   \* history: hottest inverter and motor sensor of the
                         \* current round, read with its own table
  rounds                 \* history: rounds since boot or since the large drive
                         \* unit was last taken for the small one, up to 2

tempConfig == <<board, ldu, snshs, snsm, pwmfunc>>
tesla == <<mux, hsTemps, mTemps, isLdu, hsHottest, mHottest, rounds>>
filtered == <<temphsFiltered, tempmFiltered>>
tempVars == <<tempConfig, tesla, coeffDoubled, filtered, fan, gauge>>

Coldest == -100 * TempScale

\* The most the PWM output for an instrument can be told.
MaxOut == 65535

TemperatureTypeOK ==
  /\ board \in TempBoards /\ ldu \in BOOLEAN
  /\ snshs \in HsSensors /\ snsm \in MotorSensors /\ pwmfunc \in Functions
  /\ mux \in 0 .. 3
  /\ hsTemps \in [0 .. 2 -> Int] /\ mTemps \in [0 .. 1 -> Int]
  /\ {isLdu, coeffDoubled, fan} \subseteq BOOLEAN
  /\ {temphsFiltered, tempmFiltered, hsHottest, mHottest} \subseteq Int
  /\ gauge \in 0 .. MaxOut
  /\ rounds \in 0 .. 2

TemperatureInit ==
  /\ board \in TempBoards
  /\ ldu \in BOOLEAN
  /\ snshs \in HsSensors
  /\ snsm \in MotorSensors
  /\ pwmfunc \in Functions
  /\ mux = 0
  /\ hsTemps = [i \in 0 .. 2 |-> 0]
  /\ mTemps = [i \in 0 .. 1 |-> 0]
  /\ isLdu = FALSE
  /\ coeffDoubled = FALSE
  /\ temphsFiltered = 0
  /\ tempmFiltered = 0
  /\ fan = FALSE
  /\ gauge = 0
  /\ hsHottest = Coldest
  /\ mHottest = Coldest
  /\ rounds = 0

-----------------------------------------------------------------------------
(* What the multiplexed inputs are wired to.                               *)

\* The table of the motor sensor at this position; "fluid" and "GND" are none.
MotorSensorAt(position) ==
  IF ldu THEN IF position >= 2 THEN "TESLA_100K" ELSE "fluid"
  ELSE CASE position = 0 -> "fluid"
         [] position = 1 -> "TESLA_100K"
         [] position = 2 -> "TESLA_10K"
         [] position = 3 -> "GND"

Hotter(x, y) == IF x < y THEN y ELSE x

\* The sensors as a round reads them, each with its own table.
Witness(hsDigit, mDigit) ==
  /\ hsHottest' = IF mux = 3 THEN hsHottest
                  ELSE Hotter(IF mux = 0 THEN Coldest ELSE hsHottest, Lookup(hsDigit, "TESLA_52K"))
  /\ mHottest' = IF MotorSensorAt(mux) \in DOMAIN sensors
                 THEN Hotter(IF mux = 0 THEN Coldest ELSE mHottest, Lookup(mDigit, MotorSensorAt(mux)))
                 ELSE IF mux = 0 THEN Coldest ELSE mHottest
  /\ rounds' = IF mux < 3 THEN rounds
               ELSE IF ldu /\ mDigit <= 20 THEN 0
               ELSE IF rounds < 2 THEN rounds + 1 ELSE 2

-----------------------------------------------------------------------------
(* GetTemps.                                                               *)

ReadMotor_SwappedSlot(mDigit) ==
  mTemps' =
    CASE mux = 1 /\ ~isLdu -> [mTemps EXCEPT ![0] = Lookup(mDigit, "TESLA_100K")]
      [] mux = 2 /\ isLdu  -> [mTemps EXCEPT ![1] = Lookup(mDigit, "TESLA_100K")]
      [] mux = 2 /\ ~isLdu -> [mTemps EXCEPT ![1] = Lookup(mDigit, "TESLA_10K")]
      [] mux = 3 /\ isLdu' -> [mTemps EXCEPT ![1] = Lookup(mDigit, "TESLA_100K")]
      [] OTHER             -> mTemps

\* isLdu' and isLdu differ at position 3 only.
ReadMotor(mDigit) ==
  mTemps' =
    CASE mux = 1 /\ ~isLdu -> [mTemps EXCEPT ![0] = Lookup(mDigit, "TESLA_100K")]
      [] mux = 2 /\ isLdu  -> [mTemps EXCEPT ![0] = Lookup(mDigit, "TESLA_100K")]
      [] mux = 2 /\ ~isLdu -> [mTemps EXCEPT ![1] = Lookup(mDigit, "TESLA_10K")]
      [] mux = 3 /\ isLdu' -> [mTemps EXCEPT ![1] = Lookup(mDigit, "TESLA_100K")]
      [] OTHER             -> mTemps

\* One position of the multiplexer, and on to the next.
ReadTesla(hsDigit, mDigit) ==
  /\ hsTemps' = IF mux = 3 THEN hsTemps
                ELSE [hsTemps EXCEPT ![mux] = Lookup(hsDigit, "TESLA_52K")]
  /\ isLdu' = IF mux = 3 THEN mDigit > 20 ELSE isLdu
  /\ ReadMotor(mDigit)
  /\ mux' = (mux + 1) % 4
  /\ Witness(hsDigit, mDigit)
  /\ UNCHANGED coeffDoubled

\* What GetTemps returns there: the maximum once all are read, else the last value.
TeslaTmphs ==
  IF mux = 2 THEN Hotter(hsTemps'[0], Hotter(hsTemps'[1], hsTemps'[2])) ELSE temphsFiltered

TeslaTmpm == IF mux = 3 THEN Hotter(mTemps'[0], mTemps'[1]) ELSE tempmFiltered

\* The Prius' linear sensor: 18.62 digits per degree, and 37.24 for good once a
\* reading shows that the pull-down resistor is missing.
PriusTmphs(hsDigit) ==
  (16666 * TempScale) \div 100
    - (hsDigit * TempScale * 100) \div (IF coeffDoubled' THEN 3724 ELSE 1862)

-----------------------------------------------------------------------------
(* CalcAndOutputTemp.                                                      *)

\* IIRFILTERF(reading, last, 5): the arguments in this order follow the reading.
IirFilterF(l, n, c) == (n + l * (c - 1)) \div c

\* outmode may select either temperature for the fan; here it is the heat sink's.
SwitchFan ==
  fan' = \/ temphsFiltered' > FanThresh * TempScale
         \/ fan /\ temphsFiltered' >= (FanThresh - 5) * TempScale

TmpOut ==
  CASE pwmfunc = "tmpm"    -> tempmFiltered' \div TempScale + PwmOfs
    [] pwmfunc = "tmphs"   -> temphsFiltered' \div TempScale + PwmOfs
    [] pwmfunc = "exciter" -> -1

\* An output that would not be positive is left as it is.
DriveGauge == gauge' = IF TmpOut > 0 THEN Min({TmpOut, MaxOut}) ELSE gauge

OutputTemps(tmphs, tmpm) ==
  /\ temphsFiltered' = IirFilterF(tmphs, temphsFiltered, 5)
  /\ tempmFiltered' = IirFilterF(tmpm, tempmFiltered, 5)
  /\ SwitchFan
  /\ DriveGauge
  /\ UNCHANGED tempConfig

CalcAndOutputTempTesla ==
  /\ board = "TESLA"
  /\ \E hsDigit, mDigit \in TempDigits \cup {0} :
       /\ mux = 3 => hsDigit = 0
       /\ MotorSensorAt(mux) = "GND" => mDigit = 0
       /\ ReadTesla(hsDigit, mDigit)
  /\ OutputTemps(TeslaTmphs, TeslaTmpm)

CalcAndOutputTempPrius ==
  /\ board = "PRIUS"
  /\ \E hsDigit, mDigit \in TempDigits :
       /\ coeffDoubled' = (coeffDoubled \/ hsDigit > 3200)
       /\ OutputTemps(PriusTmphs(hsDigit), Lookup(mDigit, snsm))
  /\ UNCHANGED tesla

\* The BMW i3 module has three sensors, which ProcessUdc reads over SPI; the lowest
\* of the readings counts.
CalcAndOutputTempOther ==
  /\ board \notin {"TESLA", "PRIUS"}
  /\ \E hsDigits \in SUBSET TempDigits, mDigit \in TempDigits :
       /\ Cardinality(hsDigits) \in IF snshs = "BMWI3HS" THEN 1 .. 3 ELSE {1}
       /\ OutputTemps(Lookup(Min(hsDigits), snshs), Lookup(mDigit, snsm))
  /\ UNCHANGED <<tesla, coeffDoubled>>

TemperatureNext ==
  \/ CalcAndOutputTempTesla
  \/ CalcAndOutputTempPrius
  \/ CalcAndOutputTempOther

TemperatureSpec == TemperatureInit /\ [][TemperatureNext]_tempVars

-----------------------------------------------------------------------------

\* Whichever drive unit the board sits in, from the second round on the motor
\* temperature is that of the hottest of this unit's own sensors in this round, each
\* read with its own table: neither the fluid, nor ground, nor a value of the round
\* before is taken for the motor. Heat sink likewise. The exception is a large unit
\* whose second stator reads 20 or less: it is taken for a small one.
OwnSensorsCount ==
  board = "TESLA" /\ mux = 0 /\ rounds = 2
    => /\ Hotter(mTemps[0], mTemps[1]) = mHottest
       /\ Hotter(hsTemps[0], Hotter(hsTemps[1], hsTemps[2])) = hsHottest
=============================================================================
