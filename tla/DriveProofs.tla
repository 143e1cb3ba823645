---------------------------- MODULE DriveProofs -----------------------------
(***************************************************************************)
(* Theorems about module Drive, for every tuning the parameter table       *)
(* allows, every configuration, pedal and reading.                         *)
(***************************************************************************)
EXTENDS Drive, ThrottleProofs

USE TuningAssumption, DriveAssumption

-----------------------------------------------------------------------------
(* Type correctness.                                                       *)

LEMMA TuningTypes ==
  /\ Tuning.throtramp \in Nat /\ Tuning.rampmax \in Nat /\ Tuning.potspeed \in Nat
  /\ Tuning.idlespeed \in Int /\ Tuning.speedkp \in Nat
  /\ Tuning.idlethrotlim \in Nat /\ Tuning.cruisethrotlim \in Nat
  /\ Tuning.cruiseregen \in Int /\ Tuning.holdkp \in Int
  /\ Tuning.brklightout \in Int /\ Tuning.brklightout < 0
  /\ Tuning.regenrampstr \in Nat /\ Tuning.holdcalls \in Nat
BY DEF TuningType

LEMMA NumberTypes ==
  ASSUME TypeOK
  PROVE  speed \in Nat /\ throttleRamped \in Int
<1>1. throttleRamped \in Int
  BY DEF TypeOK
<1>2. speed \in Nat
  BY DEF TypeOK
<1>3. QED
  BY <1>1, <1>2

LEMMA RampTypes == ThrottleRamp \in Nat
BY TuningTypes DEF ThrottleRamp

LEMMA PotTypes ==
  ASSUME NEW p \in Pedals
  PROVE  /\ Potnom1[p] \in 0 .. Tuning.full /\ Potnom2[p] \in 0 .. Tuning.full
         /\ Potnom(p) \in 0 .. Tuning.full
         /\ RegenPreset(p) \in 0 .. Tuning.full
<1>1. p.pot \in Int /\ p.pot2 \in Int /\ p.preset \in 0 .. Tuning.full
  BY DEF PedalType
<1>2. Tuning.potmin \in Nat /\ Tuning.potmax \in Nat
      /\ Tuning.pot2min \in Nat /\ Tuning.pot2max \in Nat
  BY DEF TuningType
<1>3. Potnom1[p] \in 0 .. Tuning.full
  <2>1. Potnom1[p] = DigitsToPercent(Limited(p.pot, Tuning.potmin, Tuning.potmax),
                                     Tuning.potmin, Tuning.potmax)
    BY DEF Potnom1
  <2>2. DigitsToPercent(Limited(p.pot, Tuning.potmin, Tuning.potmax),
                        Tuning.potmin, Tuning.potmax) \in 0 .. Tuning.full
    BY <1>1, <1>2, LimitedIsPercent
  <2>3. QED
    BY <2>1, <2>2
<1>4. Potnom2[p] \in 0 .. Tuning.full
  <2>1. Potnom2[p] = DigitsToPercent(Limited(p.pot2, Tuning.pot2min, Tuning.pot2max),
                                     Tuning.pot2min, Tuning.pot2max)
    BY DEF Potnom2
  <2>2. DigitsToPercent(Limited(p.pot2, Tuning.pot2min, Tuning.pot2max),
                        Tuning.pot2min, Tuning.pot2max) \in 0 .. Tuning.full
    BY <1>1, <1>2, LimitedIsPercent
  <2>3. QED
    BY <2>1, <2>2
<1>5. Potnom(p) \in {Potnom1[p], Potnom2[p]}
  BY DEF Potnom, Least
<1>6. RegenPreset(p) \in 0 .. Tuning.full
  BY <1>1, <1>4 DEF RegenPreset
<1>7. QED
  BY <1>3, <1>4, <1>5, <1>6

LEMMA TravelTypes ==
  ASSUME TypeOK
  PROVE  RegenTravel(speed) \in 0 .. Tuning.regentravel
<1>1. speed \in Nat
  BY NumberTypes
<1>2. QED
  BY <1>1, TravelIsPart

\* What the driver asks for is no more than the whole travel and no more regeneration than
\* the parameters say and one unit; nothing on the brake drives.
THEOREM UserCommandBounded ==
  ASSUME TypeOK, NEW p \in Pedals
  PROVE  /\ GetUserThrottleCommand(p) \in
              (Least(Tuning.brakeregen, Tuning.offthrotregen) - 1) .. Tuning.full
         /\ Brake => GetUserThrottleCommand(p) <= 0
<1> DEFINE least == Least(Tuning.brakeregen, Tuning.offthrotregen)
           throt == BiDirThrot(p)
           ordinary == CalcThrottle(Potnom(p), RegenPreset(p), Brake, RegenTravel(speed))
<1>1. least \in Int /\ least <= 0 /\ least <= Tuning.offthrotregen
      /\ Tuning.full \in Nat /\ Tuning.offthrotregen \in Int /\ Tuning.offthrotregen <= 0
  BY PedalTuning DEF Least
<1>2. throt \in -Tuning.full .. Tuning.full /\ (Brake => throt = 0)
  <2>1. Brake \in BOOLEAN
    BY DEF Brake
  <2>2. Potnom1[p] \in 0 .. Tuning.full /\ RegenTravel(speed) \in 0 .. Tuning.regentravel
    BY PotTypes, TravelTypes
  <2>3. QED
    BY <2>1, <2>2, BiDirBounded DEF BiDirThrot
<1>3. ordinary \in (least - 1) .. Tuning.full /\ (Brake => ordinary < 0)
  <2>1. Brake \in BOOLEAN
    BY DEF Brake
  <2>2. Potnom(p) \in 0 .. Tuning.full /\ RegenPreset(p) \in 0 .. Tuning.full
        /\ RegenTravel(speed) \in 0 .. Tuning.regentravel
    BY PotTypes, TravelTypes
  <2>3. QED
    BY <2>1, <2>2, CalcThrottleBounded
<1>4. GetUserThrottleCommand(p) =
        CASE ~Usable(p) -> 0
          [] Usable(p) /\ BiDir ->
               IF Opposes(p) THEN Tuning.offthrotregen ELSE Greatest(throt, -throt)
          [] OTHER -> ordinary
  BY DEF GetUserThrottleCommand
<1>5. throt = 0 => Opposes(p)
  BY DEF Opposes
<1> HIDE DEF throt, ordinary, least
<1>6. Greatest(throt, -throt) \in 0 .. Tuning.full
  BY <1>1, <1>2 DEF Greatest
<1>7. CASE ~Usable(p)
  BY <1>1, <1>4, <1>7 DEF least
<1>8. CASE Usable(p) /\ BiDir
  BY <1>1, <1>2, <1>4, <1>5, <1>6, <1>8 DEF least
<1>9. CASE Usable(p) /\ ~BiDir
  BY <1>1, <1>3, <1>4, <1>9 DEF least
<1>10. QED
  BY <1>7, <1>8, <1>9

LEMMA PedalTypes ==
  ASSUME TypeOK, NEW p \in Pedals
  PROVE  GetUserThrottleCommand(p) \in Int /\ PotDirection(p) \in {-1, 0, 1}
<1>1. GetUserThrottleCommand(p) \in Int
  <2>1. Least(Tuning.brakeregen, Tuning.offthrotregen) \in Int
    BY PedalTuning DEF Least
  <2>2. QED
    BY <2>1, PedalTuning, UserCommandBounded
<1>2. PotDirection(p) \in {-1, 0, 1}
  BY DEF TypeOK, PotDirection, Toward
<1>3. QED
  BY <1>1, <1>2

LEMMA SelectionTypes ==
  ASSUME TypeOK
  PROVE  SelectDirection \in {-1, 0, 1}
<1>1. UserDirSelection \in {-1, 0, 1}
  <2>1. DirSign \in {-1, 1} /\ seldir \in {-1, 0, 1}
    BY DEF TypeOK, DirSign
  <2>2. -DirSign \in {-1, 1}
    BY <2>1
  <2>3. QED
    BY <2>1, <2>2 DEF UserDirSelection
<1>2. QED
  BY <1>1 DEF TypeOK, SelectDirection

LEMMA CruiseTypes ==
  ASSUME TypeOK, NEW commanded \in Speeds, NEW p \in Pedals
  PROVE  CruiseControl(commanded, p) \in Int
<1>1. GetUserThrottleCommand(p) * Tuning.potspeed \in Int
  BY PedalTypes, TuningTypes
<1>2. CruiseSwitched \in Int
  BY DEF TypeOK, CruiseSwitched
<1>3. QED
  BY <1>1, <1>2 DEF CruiseControl

LEMMA FloorTypes ==
  ASSUME TypeOK
  PROVE  CruiseFloor \in Int
BY TuningTypes DEF TypeOK, CruiseFloor, Greatest

LEMMA RequestTypes ==
  ASSUME TypeOK, NEW throtSpnt \in Int, NEW distance \in Distances, NEW filtered \in Speeds,
         NEW p \in Pedals
  PROVE  Cruise(Creep(throtSpnt, distance, IdleThrotLim(p)), throtSpnt, filtered) \in Int
<1>1. IdleThrotLim(p) \in Int
  <2>1. p.pot2 \in Int /\ Tuning.pot2min \in Nat /\ Tuning.pot2max \in Nat
    BY DEF PedalType, TuningType
  <2>2. BrakePressure(p) \in Int
    BY <2>1, PercentIsInt DEF BrakePressure
  <2>3. Tuning.idlethrotlim * (Tuning.full - BrakePressure(p)) \in Int
    BY <2>2, TuningTypes, PedalTuning
  <2>4. QED
    BY <2>3, TuningTypes, PedalTuning DEF IdleThrotLim
<1>2. speed \in Nat /\ distance \in Int /\ filtered \in Nat /\ cruiseSpeed \in Int
  BY DEF TypeOK
<1> DEFINE limit == IdleThrotLim(p)
<1>3. limit \in Int
  BY <1>1
<1> HIDE DEF limit
<1>4. CalcIdleSpeed(speed, limit) \in Int
  <2>1. Tuning.speedkp * (Tuning.idlespeed - speed) \in Int
    BY <1>2, TuningTypes
  <2>2. QED
    BY <1>3, <2>1 DEF CalcIdleSpeed, Least
<1>5. HoldPosition(distance, limit) \in Int
  <2>1. Tuning.holdkp * distance \in Int
    BY <1>2, TuningTypes
  <2>2. QED
    BY <1>3, <2>1 DEF HoldPosition, Least, Greatest
<1>6. CalcCruiseSpeed(cruiseSpeed, filtered) \in Int
  <2>1. Tuning.speedkp * (cruiseSpeed - filtered) \in Int
    BY <1>2, TuningTypes
  <2>2. QED
    BY <2>1, TuningTypes DEF CalcCruiseSpeed, Least, Greatest
<1>7. Creep(throtSpnt, distance, limit) \in Int
  BY <1>4, <1>5 DEF Creep, Greatest
<1>8. QED
  BY <1>6, <1>7 DEF Cruise, Least, Greatest, limit

LEMMA TypeCorrectInit == Init => TypeOK
<1> SUFFICES ASSUME Init
             PROVE  TypeOK
  OBVIOUS
<1>1. 0 \in 0 .. Tuning.regenrampstr /\ 0 \in 0 .. Tuning.holdcalls
      /\ 0 \in 0 .. Tuning.holdcalls + 1
  BY TuningTypes
<1>2. {cruiseSpeed, throttleRamped, potnom} \subseteq Int /\ {rotordir, seldir} \subseteq {-1, 0, 1}
  BY DEF Init
<1>3. QED
  BY <1>1, <1>2 DEF Init, TypeOK

LEMMA TypeCorrectStep == TypeOK /\ [Next]_vars => TypeOK'
<1> SUFFICES ASSUME TypeOK, [Next]_vars
             PROVE  TypeOK'
  OBVIOUS
<1> USE DEF sampled, cruise, request, output, history
<1>1. CASE Ms100Task
  <2>1. PICK commanded \in Speeds, p \in Pedals :
          /\ seldir' = IF ReadsPedal /\ BiDir THEN PotDirection(p)
                       ELSE SelectDirection
          /\ cruiseSpeed' = CruiseControl(commanded, p)
    BY <1>1 DEF Ms100Task
  <2>2. seldir' \in {-1, 0, 1} /\ cruiseSpeed' \in Int
    BY <2>1, PedalTypes, SelectionTypes, CruiseTypes
  <2>3. lastCruiseSwitchState' \in BOOLEAN
    <3>1. lastCruiseSwitchState \in BOOLEAN /\ CruiseSwitch \in BOOLEAN
      BY DEF TypeOK, CruiseSwitch
    <3>2. QED
      BY <1>1, <3>1 DEF Ms100Task
  <2>4. cancelled' \in BOOLEAN /\ onBrake' \in BOOLEAN
    BY <1>1 DEF Ms100Task, CruiseSwitch, Brake
  <2>5. QED
    BY <1>1, <2>2, <2>3, <2>4 DEF Ms100Task, TypeOK
<1>2. CASE Sample
  <2>1. rotordir' \in {-1, 0, 1}
    BY <1>2 DEF Sample, TypeOK
  <2>2. onBrake' \in BOOLEAN
    BY <1>2 DEF Sample
  <2>3. QED
    BY <1>2, <2>1, <2>2 DEF Sample, TypeOK
<1>3. CASE Request
  <2>1. PICK p \in Pedals, distance \in Distances, filtered \in Speeds :
          LET throtSpnt == IF config.cruisemode = "pot" THEN 0 ELSE GetUserThrottleCommand(p)
              creep == Creep(throtSpnt, distance, IdleThrotLim(p))
              holds == HoldsAt(distance)
          IN /\ seldir' = IF config.cruisemode = "pot" THEN seldir ELSE PotDirection(p)
             /\ runHillHold' = IF MayHold
                               THEN (Arms \/ holds) /\ ~(throtSpnt > 0 /\ throtSpnt > creep)
                               ELSE runHillHold
             /\ determineDirection' = ~holds
             /\ throttleRamped' =
                  RampThrottle(Cruise(creep, throtSpnt, filtered), throttleRamped, ThrottleRamp)
    BY <1>3 DEF Request
  <2> DEFINE throtSpnt == IF config.cruisemode = "pot" THEN 0 ELSE GetUserThrottleCommand(p)
             req == Cruise(Creep(throtSpnt, distance, IdleThrotLim(p)), throtSpnt, filtered)
  <2>2. throtSpnt \in Int
    BY PedalTypes
  <2>3. req \in Int
    BY <2>2, RequestTypes
  <2>4. throttleRamped' = RampThrottle(req, throttleRamped, ThrottleRamp)
    BY <2>1
  <2>5. throttleRamped' \in Int
    <3> HIDE DEF req
    <3>1. throttleRamped \in Int
      BY DEF TypeOK
    <3>2. QED
      BY <2>3, <2>4, <3>1, RampTypes, RampNeverRaises
  <2>6. seldir' \in {-1, 0, 1}
    BY <2>1, PedalTypes DEF TypeOK
  <2>7. runHillHold' \in BOOLEAN /\ determineDirection' \in BOOLEAN
    BY <2>1 DEF TypeOK, HoldsAt
  <2>8. cruiseSpeed' \in Int
    BY <1>3, FloorTypes DEF Request
  <2>9. still' \in 0 .. Tuning.holdcalls + 1
    BY <1>3, TuningTypes DEF Request, TypeOK, Least
  <2>10. QED
    BY <1>3, <2>5, <2>6, <2>7, <2>8, <2>9 DEF Request, TypeOK
<1>4. CASE Output
  <2>1. potnom' \in Int
    <3>1. PICK r \in Readings : potnom' = LimitCommand(throttleRamped, r, speed)
      BY <1>4 DEF Output
    <3>2. r \in ReadingType /\ speed \in Nat /\ throttleRamped \in Int
      BY NumberTypes
    <3>3. QED
      BY <3>1, <3>2, LimitCommandNarrows
  <2>2. brakeLight' \in BOOLEAN
    BY <1>4 DEF Output, BrakeLight, TypeOK
  <2>3. heldFactor' \in 0 .. Tuning.regenrampstr /\ holdCounter' \in 0 .. Tuning.holdcalls
    <3>1. /\ heldFactor \in 0 .. Tuning.regenrampstr /\ holdCounter \in 0 .. Tuning.holdcalls
          /\ speed \in Nat /\ Tuning.regenrampstr \in Nat /\ Tuning.holdcalls \in Nat
      BY NumberTypes, TuningTypes DEF TypeOK
    <3>2. \/ RegenTaper(potnom')
          \/ heldFactor' = heldFactor /\ holdCounter' = holdCounter
      BY <1>4 DEF Output
    <3>3. QED
      BY <3>1, <3>2 DEF RegenTaper, TapersOff
  <2>4. startedPressed' \in BOOLEAN
    BY <1>4 DEF Output
  <2>5. QED
    BY <1>4, <2>1, <2>2, <2>3, <2>4 DEF Output, TypeOK
<1>5. CASE Start
  BY <1>5 DEF Start, TypeOK, PotPressed
<1>6. CASE Run
  <2>1. throttleRamped' \in Int
    BY <1>6, RampTypes, RampNeverRaises DEF Run, TypeOK
  <2>2. QED
    BY <1>6, <2>1 DEF Run, TypeOK
<1>7. CASE Stay
  BY <1>7 DEF Stay, TypeOK
<1>8. CASE Off
  <2>1. cancelled' \in BOOLEAN /\ cruiseSpeed' \in Int
    BY <1>8 DEF Off
  <2>2. QED
    BY <1>8, <2>1 DEF Off, TypeOK
<1>9. CASE UNCHANGED vars
  BY <1>9 DEF vars, TypeOK
<1>10. QED
  BY <1>1, <1>2, <1>3, <1>4, <1>5, <1>6, <1>7, <1>8, <1>9 DEF Next, Ms10Task

\* The drive's variables keep their types, for every tuning and configuration.
THEOREM TypeCorrect == Spec => []TypeOK
BY TypeCorrectInit, TypeCorrectStep, PTL DEF Spec

-----------------------------------------------------------------------------
(* What the safety properties rest on.                                     *)

\* A set cruise speed and a cancelled one both imply that the switch was last seen on.
CruiseInv ==
  config.cruisemode = "switch" =>
    /\ cruiseSpeed > 0 => lastCruiseSwitchState
    /\ cancelled => lastCruiseSwitchState /\ cruiseSpeed <= 0

\* Once a 100 ms task has seen the brake, only the limiter keeps a cruise speed.
BrakeInv ==
  onBrake /\ config.idlemode # "always" =>
    Brake /\ (config.cruisemode = "limiter" \/ cruiseSpeed <= 0)

\* The hold counter runs down while the rotor reads standstill.
TaperInv ==
  /\ pc # "output" => holdCounter = 0 \/ holdCounter + still <= Tuning.holdcalls
  /\ pc = "output" =>
       still = 0 \/ holdCounter = 0 \/ holdCounter + still <= Tuning.holdcalls + 1
  /\ pc \in {"output", "mode"} /\ still > 0 => speed = 0 /\ determineDirection
  /\ pc = "mode" /\ Tuning.regenrampstr > 0 /\ still > Tuning.holdcalls /\ potnom < 0 =>
       heldFactor = 0

\* A request present since the start is one to drive, of a percent or more, and under
\* slip control it was admitted, and stays, in neutral.
PressedInv ==
  startedPressed =>
    /\ PotPressed
    /\ config.control = "SINE" /\ ~BiDir => seldir = 0

DriveInv ==
  TypeOK /\ LimitersNarrow /\ CruiseInv /\ BrakeInv /\ NoBrakeLightUnderPower /\ TaperInv /\ PressedInv

LEMMA DriveInvInit == Init => DriveInv
<1> SUFFICES ASSUME Init
             PROVE  DriveInv
  OBVIOUS
<1>1. TypeOK
  BY TypeCorrectInit
<1>2. LimitersNarrow /\ CruiseInv /\ BrakeInv /\ NoBrakeLightUnderPower /\ PressedInv
  BY DEF Init, LimitersNarrow, CruiseInv, BrakeInv, NoBrakeLightUnderPower, PressedInv
<1>3. TaperInv
  BY DEF Init, TaperInv
<1>4. QED
  BY <1>1, <1>2, <1>3 DEF DriveInv

LEMMA NarrowStep == TypeOK /\ LimitersNarrow /\ [Next]_vars => LimitersNarrow'
<1> SUFFICES ASSUME TypeOK, LimitersNarrow, [Next]_vars
             PROVE  LimitersNarrow'
  OBVIOUS
<1>1. CASE Output
  <2>1. PICK r \in Readings : potnom' = LimitCommand(throttleRamped, r, speed)
    BY <1>1 DEF Output
  <2>2. r \in ReadingType /\ speed \in Nat /\ throttleRamped \in Int
    BY NumberTypes
  <2>3. Narrows(potnom', throttleRamped)
    BY <2>1, <2>2, LimitCommandNarrows
  <2>4. throttleRamped' = throttleRamped
    BY <1>1 DEF Output, request
  <2>5. QED
    BY <2>3, <2>4 DEF LimitersNarrow, Narrows
<1>2. CASE Ms100Task \/ Sample \/ Request \/ Start \/ Run \/ Stay \/ Off
  BY <1>2 DEF Ms100Task, Sample, Request, Start, Run, Stay, Off, LimitersNarrow
<1>3. CASE UNCHANGED vars
  BY <1>3 DEF vars, output, request, LimitersNarrow, Narrows
<1>4. QED
  BY <1>1, <1>2, <1>3 DEF Next, Ms10Task

LEMMA CruiseStep == TypeOK /\ CruiseInv /\ [Next]_vars => CruiseInv'
<1> SUFFICES ASSUME TypeOK, CruiseInv, [Next]_vars,
                    config'.cruisemode = "switch"
             PROVE  /\ cruiseSpeed' > 0 => lastCruiseSwitchState'
                    /\ cancelled' => lastCruiseSwitchState' /\ cruiseSpeed' <= 0
  BY DEF CruiseInv
<1>1. config' = config
  BY DEF Next, Ms10Task, Ms100Task, Sample, Request, Output, Start, Run, Stay, Off, vars
<1>2. /\ config.cruisemode = "switch"
      /\ cruiseSpeed > 0 => lastCruiseSwitchState
      /\ cancelled => lastCruiseSwitchState /\ cruiseSpeed <= 0
      /\ cruiseSpeed \in Int /\ speed \in Nat
  BY <1>1, NumberTypes DEF CruiseInv, TypeOK
<1>3. CASE Ms100Task
  <2>1. PICK commanded \in Speeds, p \in Pedals : cruiseSpeed' = CruiseControl(commanded, p)
    BY <1>3 DEF Ms100Task
  <2>2. cruiseSpeed' = IF CruiseEnds THEN -1 ELSE CruiseSwitched
    BY <1>2, <2>1 DEF CruiseControl, ReadsPedal
  <2>3. /\ lastCruiseSwitchState' = CruiseSwitch
        /\ cancelled' => CruiseSwitch /\ (cancelled \/ ~(cruiseSpeed' > 0))
    BY <1>2, <1>3 DEF Ms100Task
  <2>4. cruiseSpeed' \in Int /\ (cruiseSpeed' > 0 => CruiseSwitch)
    BY <1>2, <2>2 DEF CruiseSwitched
  <2>5. cancelled' => cruiseSpeed' <= 0
    BY <1>2, <2>2, <2>3, <2>4 DEF CruiseSwitched
  <2>6. QED
    BY <2>3, <2>4, <2>5
<1>4. CASE Request
  BY <1>2, <1>4 DEF Request, CruiseFloor
<1>5. CASE Off
  <2>1. cruiseSpeed' = -1 /\ lastCruiseSwitchState' = lastCruiseSwitchState
    BY <1>5 DEF Off
  <2>2. cancelled' => cancelled \/ cruiseSpeed > 0
    BY <1>5 DEF Off
  <2>3. QED
    BY <1>2, <2>1, <2>2
<1>6. CASE Sample \/ Output \/ Start \/ Run \/ Stay
  BY <1>2, <1>6 DEF Sample, Output, Start, Run, Stay, cruise, history
<1>7. CASE UNCHANGED vars
  BY <1>2, <1>7 DEF vars, cruise, history
<1>8. QED
  BY <1>3, <1>4, <1>5, <1>6, <1>7 DEF Next, Ms10Task

LEMMA BrakeStep == TypeOK /\ BrakeInv /\ [Next]_vars => BrakeInv'
<1> SUFFICES ASSUME TypeOK, BrakeInv, [Next]_vars, onBrake', config'.idlemode # "always"
             PROVE  Brake' /\ (config'.cruisemode = "limiter" \/ cruiseSpeed' <= 0)
  BY DEF BrakeInv
<1>1. config' = config
  BY DEF Next, Ms10Task, Ms100Task, Sample, Request, Output, Start, Run, Stay, Off, vars
<1>2. CASE Ms100Task
  <2>1. PICK commanded \in Speeds, p \in Pedals : cruiseSpeed' = CruiseControl(commanded, p)
    BY <1>2 DEF Ms100Task
  <2>2. Brake /\ din' = din
    BY <1>2 DEF Ms100Task, sampled
  <2>3. config.cruisemode # "limiter" => cruiseSpeed' = -1
    BY <2>1, <2>2 DEF CruiseControl, CruiseEnds, ReadsPedal
  <2>4. QED
    BY <1>1, <2>2, <2>3 DEF Brake
<1>3. CASE Sample
  BY <1>1, <1>3 DEF Sample, Brake, BrakeInv, cruise
<1>4. CASE Request
  <2>1. onBrake /\ din' = din
    BY <1>4 DEF Request, sampled
  <2>2. Brake /\ (config.cruisemode = "limiter" \/ cruiseSpeed <= 0)
    BY <1>1, <2>1 DEF BrakeInv
  <2>3. ~Idles
    BY <1>1, <2>2 DEF Idles
  <2>4. cruiseSpeed' = cruiseSpeed
    BY <1>4, <2>3 DEF Request, CruiseFloor
  <2>5. QED
    BY <1>1, <2>1, <2>2, <2>4 DEF Brake
<1>5. CASE Off
  BY <1>1, <1>5 DEF Off, sampled, Brake, BrakeInv
<1>6. CASE Output \/ Start \/ Run \/ Stay
  BY <1>1, <1>6 DEF Output, Start, Run, Stay, sampled, cruise, history, Brake, BrakeInv
<1>7. CASE UNCHANGED vars
  BY <1>1, <1>7 DEF vars, sampled, cruise, history, Brake, BrakeInv
<1>8. QED
  BY <1>2, <1>3, <1>4, <1>5, <1>6, <1>7 DEF Next, Ms10Task

LEMMA LightStep == TypeOK /\ TypeOK' /\ NoBrakeLightUnderPower /\ [Next]_vars => NoBrakeLightUnderPower'
<1> SUFFICES ASSUME TypeOK, TypeOK', NoBrakeLightUnderPower, [Next]_vars
             PROVE  NoBrakeLightUnderPower'
  OBVIOUS
<1>1. CASE Output
  <2>1. brakeLight' => BrakeLight(potnom')
    BY <1>1 DEF Output
  <2>2. potnom' \in Int
    BY DEF TypeOK
  <2>3. BrakeLight(potnom') => potnom' <= 0
    BY <2>2, TuningTypes DEF BrakeLight, Least
  <2>4. QED
    BY <2>1, <2>3 DEF NoBrakeLightUnderPower
<1>2. CASE Ms100Task \/ Sample \/ Request \/ Start \/ Run \/ Stay \/ Off
  BY <1>2 DEF Ms100Task, Sample, Request, Start, Run, Stay, Off, output, NoBrakeLightUnderPower
<1>3. CASE UNCHANGED vars
  BY <1>3 DEF vars, output, NoBrakeLightUnderPower
<1>4. QED
  BY <1>1, <1>2, <1>3 DEF Next, Ms10Task

LEMMA TaperStep == TypeOK /\ TypeOK' /\ TaperInv /\ [Next]_vars => TaperInv'
<1> SUFFICES ASSUME TypeOK, TypeOK', TaperInv, [Next]_vars
             PROVE  TaperInv'
  OBVIOUS
<1>1. /\ Tuning.holdcalls \in Nat /\ Tuning.regenrampstr \in Nat
      /\ holdCounter \in 0 .. Tuning.holdcalls /\ still \in 0 .. Tuning.holdcalls + 1
      /\ speed \in Nat
  <2>1. Tuning.holdcalls \in Nat /\ Tuning.regenrampstr \in Nat
    BY TuningTypes
  <2>2. speed \in Nat
    BY NumberTypes
  <2>3. QED
    BY <2>1, <2>2 DEF TypeOK
<1>2. CASE Request
  <2>1. /\ pc = "request" /\ pc' = "output"
        /\ holdCounter' = holdCounter /\ speed' = speed
        /\ still' = IF ~(speed = 0 /\ determineDirection') THEN 0
                    ELSE Least(still + 1, Tuning.holdcalls + 1)
    BY <1>2 DEF Request, output, sampled
  <2>2. still' > 0 => speed = 0 /\ determineDirection'
    BY <2>1
  <2>3. still' = 0 \/ still' <= still + 1
    BY <1>1, <2>1 DEF Least
  <2>4. holdCounter = 0 \/ holdCounter + still <= Tuning.holdcalls
    BY <2>1 DEF TaperInv
  <2>5. still' \in Nat
    BY TuningTypes DEF TypeOK
  <2>6. still' = 0 \/ holdCounter' = 0 \/ holdCounter' + still' <= Tuning.holdcalls + 1
    BY <1>1, <2>1, <2>3, <2>4, <2>5
  <2>7. QED
    BY <2>1, <2>2, <2>6 DEF TaperInv
<1>3. CASE Output
  <2>1. /\ pc = "output" /\ pc' = "mode"
        /\ still' = still /\ speed' = speed /\ determineDirection' = determineDirection
        /\ IF determineDirection THEN RegenTaper(potnom') ELSE UNCHANGED <<heldFactor, holdCounter>>
    BY <1>3 DEF Output, sampled, request
  <2>2. /\ still = 0 \/ holdCounter = 0 \/ holdCounter + still <= Tuning.holdcalls + 1
        /\ still > 0 => speed = 0 /\ determineDirection
    BY <2>1 DEF TaperInv
  <2>3. holdCounter' \in 0 .. Tuning.holdcalls /\ potnom' \in Int
    BY DEF TypeOK
  <2>4. CASE still = 0
    <3>1. holdCounter' + still' <= Tuning.holdcalls
      BY <1>1, <2>1, <2>3, <2>4
    <3>2. QED
      BY <1>1, <2>1, <2>4, <3>1 DEF TaperInv
  <2>5. CASE still > 0
    <3>1. speed = 0 /\ determineDirection
      BY <2>2, <2>5
    <3>2. holdCounter' = 0 \/ (holdCounter > 0 /\ holdCounter' = holdCounter - 1)
      BY <1>1, <2>1, <3>1 DEF RegenTaper
    <3>3. holdCounter' = 0 \/ holdCounter' + still <= Tuning.holdcalls
      BY <1>1, <2>2, <2>5, <3>2
    <3>4. Tuning.regenrampstr > 0 /\ still > Tuning.holdcalls /\ potnom' < 0 => heldFactor' = 0
      BY <1>1, <2>1, <2>2, <2>5, <3>1 DEF RegenTaper, TapersOff
    <3>5. QED
      BY <2>1, <3>1, <3>3, <3>4 DEF TaperInv
  <2>6. QED
    BY <1>1, <2>4, <2>5
<1>4. CASE Sample
  BY <1>4 DEF Sample, TaperInv, output
<1>5. CASE Ms100Task \/ Start \/ Run \/ Stay \/ Off
  BY <1>5 DEF Ms100Task, Start, Run, Stay, Off, TaperInv, output, history
<1>6. CASE UNCHANGED vars
  BY <1>6 DEF vars, sampled, request, output, history, TaperInv
<1>7. QED
  BY <1>2, <1>3, <1>4, <1>5, <1>6 DEF Next, Ms10Task

\* What counts as pressed is a request to drive.
LEMMA PressedIsRequest ==
  ASSUME potnom \in Int, PotPressed
  PROVE  potnom > 0
<1>1. Tuning.percent \in Nat \ {0}
  BY DEF TuningType
<1> DEFINE unit == Tuning.percent
<1>2. potnom \div unit > 0
  BY DEF PotPressed
<1> HIDE DEF unit
<1>3. unit \in Nat \ {0}
  BY <1>1 DEF unit
<1> QED
  BY <1>2, <1>3

LEMMA PressedStep == TypeOK /\ PressedInv /\ [Next]_vars => PressedInv'
<1> SUFFICES ASSUME TypeOK, PressedInv, [Next]_vars, startedPressed'
             PROVE  /\ PotPressed'
                    /\ config'.control = "SINE" /\ ~BiDir' => seldir' = 0
  BY DEF PressedInv
<1>1. config' = config /\ BiDir' = BiDir
  BY DEF Next, Ms10Task, Ms100Task, Sample, Request, Output, Start, Run, Stay, Off, vars, BiDir
<1>2. potnom \in Int /\ seldir \in {-1, 0, 1}
  BY DEF TypeOK
<1>3. CASE Ms100Task
  <2>1. startedPressed /\ PotPressed' = PotPressed
    BY <1>3 DEF Ms100Task, output, PotPressed
  <2>2. ~BiDir => seldir' = SelectDirection
    BY <1>3 DEF Ms100Task
  <2>3. QED
    BY <1>1, <2>1, <2>2 DEF PressedInv, SelectDirection
<1>4. CASE Request
  <2>1. startedPressed /\ PotPressed' = PotPressed
    BY <1>4 DEF Request, output, PotPressed
  <2>2. ~BiDir => seldir' = seldir
    BY <1>4 DEF Request, PotDirection
  <2>3. QED
    BY <1>1, <2>1, <2>2 DEF PressedInv
<1>5. CASE Output
  BY <1>1, <1>5 DEF Output, PressedInv
<1>6. CASE Start
  <2>1. /\ PotPressed /\ PotPressed' = PotPressed
        /\ ~(TorquePercent > 0) /\ seldir' = seldir
    BY <1>6 DEF Start, NotPressed, output, PotPressed
  <2>2. potnom > 0
    BY <1>2, <2>1, PressedIsRequest
  <2>3. config.control = "SINE" /\ seldir # 0 => TorquePercent = potnom
    BY <1>2, <2>2 DEF TorquePercent, Directed, Tapered, TapersOff
  <2>4. QED
    BY <1>1, <2>1, <2>2, <2>3
<1>7. CASE Sample \/ Run \/ Stay \/ Off
  BY <1>1, <1>7 DEF Sample, Run, Stay, Off, output, history, PressedInv, PotPressed
<1>8. CASE UNCHANGED vars
  BY <1>1, <1>8 DEF vars, output, history, PressedInv, PotPressed
<1>9. QED
  BY <1>3, <1>4, <1>5, <1>6, <1>7, <1>8 DEF Next, Ms10Task

LEMMA DriveInvStep == DriveInv /\ [Next]_vars => DriveInv'
BY TypeCorrectStep, NarrowStep, CruiseStep, BrakeStep, LightStep, TaperStep, PressedStep DEF DriveInv

LEMMA DriveInvariant == Spec => []DriveInv
BY DriveInvInit, DriveInvStep, PTL DEF Spec

-----------------------------------------------------------------------------
(* The properties.                                                         *)

\* In every state in which a command has just been computed, the limiters have only
\* narrowed the ramped request.
THEOREM LimitersOnlyNarrow == Spec => []LimitersNarrow
<1>1. DriveInv => LimitersNarrow
  BY DEF DriveInv
<1>2. QED
  BY <1>1, DriveInvariant, PTL

\* A cruise control that has been cancelled stays so until the switch was seen off.
THEOREM CruiseStaysCancelled == Spec => []CancelledStaysCancelled
<1>1. DriveInv => CancelledStaysCancelled
  BY DEF DriveInv, CruiseInv, CancelledStaysCancelled
<1>2. QED
  BY <1>1, DriveInvariant, PTL

\* The brake light is off while the command drives.
THEOREM BrakeLightIsHonest == Spec => []NoBrakeLightUnderPower
<1>1. DriveInv => NoBrakeLightUnderPower
  BY DEF DriveInv
<1>2. QED
  BY <1>1, DriveInvariant, PTL

\* Regeneration ends within the hold time of a standstill.
THEOREM RegenIsReleased == Spec => []RegenReleased
<1>1. ASSUME DriveInv
      PROVE  RegenReleased
  <2> SUFFICES ASSUME pc = "mode", Tuning.regenrampstr > 0, still > Tuning.holdcalls,
                      determineDirection, potnom < 0
               PROVE  TorquePercent = 0
    BY DEF RegenReleased
  <2>1. TypeOK /\ TaperInv
    BY <1>1 DEF DriveInv
  <2>2. potnom \in Int /\ rotordir \in Int /\ still > 0
    BY <2>1, TuningTypes DEF TypeOK
  <2>3. heldFactor = 0 /\ speed = 0
    BY <2>1, <2>2 DEF TaperInv
  <2>4. Tapered(potnom) = 0
    <3>1. Tapered(potnom) = -((0 * (-potnom)) \div Tuning.regenrampstr)
      BY <2>3 DEF Tapered, TapersOff
    <3>2. 0 * (-potnom) = 0 /\ 0 \div Tuning.regenrampstr = 0
      BY <2>2, TuningTypes
    <3>3. QED
      BY <3>1, <3>2
  <2>5. Directed(0) = 0
    <3>1. seldir \in Int
      BY <2>1 DEF TypeOK
    <3>2. QED
      BY <3>1, <2>2 DEF Directed
  <2>6. QED
    BY <2>4, <2>5 DEF TorquePercent
<1>2. DriveInv => RegenReleased
  BY <1>1
<1>3. QED
  BY <1>2, DriveInvariant, PTL

\* For every tuning and configuration: under slip control a request to drive of a percent
\* or more that was present at the start yields no torque until it has been smaller.
THEOREM PressedStartYieldsNothing == Spec => []PressedStartIsIdle
<1>1. DriveInv => PressedStartIsIdle
  BY DEF DriveInv, PressedInv, PressedStartIsIdle, TorquePercent
<1>2. QED
  BY <1>1, DriveInvariant, PTL

LEMMA BrakeWinsStep ==
  ASSUME DriveInv, Request, onBrake, config.idlemode \notin {"always", "hillHold"}
  PROVE  throttleRamped' <= 0 \/ throttleRamped' <= throttleRamped
<1>1. TypeOK /\ Brake /\ (config.cruisemode = "limiter" \/ cruiseSpeed <= 0)
  BY DEF DriveInv, BrakeInv
<1>2. PICK p \in Pedals, distance \in Distances, filtered \in Speeds :
        LET throtSpnt == IF config.cruisemode = "pot" THEN 0 ELSE GetUserThrottleCommand(p)
            creep == Creep(throtSpnt, distance, IdleThrotLim(p))
        IN throttleRamped' =
             RampThrottle(Cruise(creep, throtSpnt, filtered), throttleRamped, ThrottleRamp)
  BY DEF Request
<1> DEFINE throtSpnt == IF config.cruisemode = "pot" THEN 0 ELSE GetUserThrottleCommand(p)
           limit == IdleThrotLim(p)
           req == Cruise(Creep(throtSpnt, distance, limit), throtSpnt, filtered)
<1>3. throttleRamped' = RampThrottle(req, throttleRamped, ThrottleRamp)
  BY <1>2
<1>4. throtSpnt \in Int /\ throtSpnt <= 0
  <2>1. GetUserThrottleCommand(p) \in Int /\ GetUserThrottleCommand(p) <= 0
    BY <1>1, PedalTypes, UserCommandBounded
  <2>2. QED
    BY <2>1
<1>5. req \in Int
  BY <1>1, <1>4, RequestTypes
<1>6. req <= 0
  <2> HIDE DEF throtSpnt, limit
  <2>1. ~Idles /\ ~MayHold
    BY <1>1 DEF Idles, MayHold
  <2>2. Creep(throtSpnt, distance, limit) = throtSpnt
    BY <2>1 DEF Creep, HoldsAt
  <2>3. CruiseFloor = cruiseSpeed /\ cruiseSpeed \in Int
    BY <1>1, <2>1 DEF CruiseFloor, TypeOK
  <2>4. CASE ~(cruiseSpeed > 0)
    BY <1>4, <2>2, <2>3, <2>4 DEF Cruise
  <2>5. CASE cruiseSpeed > 0
    <3>1. config.cruisemode = "limiter"
      BY <1>1, <2>3, <2>5
    <3> DEFINE cruiseSpnt == CalcCruiseSpeed(cruiseSpeed, filtered)
    <3>2. req \in {throtSpnt, Least(cruiseSpnt, throtSpnt)}
      BY <2>2, <3>1 DEF Cruise
    <3>3. cruiseSpnt \in Int
      <4>1. Tuning.speedkp * (cruiseSpeed - filtered) \in Int
        BY <2>3, TuningTypes
      <4>2. QED
        BY <4>1, TuningTypes DEF CalcCruiseSpeed, Least, Greatest
    <3> HIDE DEF cruiseSpnt
    <3>4. Least(cruiseSpnt, throtSpnt) <= 0
      BY <1>4, <3>3 DEF Least
    <3>5. QED
      BY <1>4, <3>2, <3>4
  <2>6. QED
    BY <2>4, <2>5
<1> HIDE DEF req
<1>7. throttleRamped \in Int
  BY <1>1 DEF TypeOK
<1>8. QED
  BY <1>3, <1>5, <1>6, <1>7, RampTypes, RampNeverRaises

\* No request to drive is raised while the brake is held, once a 100 ms task has seen it.
THEOREM BrakeAlwaysWins == Spec => BrakeWins
<1>1. DriveInv /\ [Next]_vars =>
        [ pc = "request" /\ pc' = "output" /\ onBrake
          /\ config.idlemode \notin {"always", "hillHold"} =>
          throttleRamped' <= 0 \/ throttleRamped' <= throttleRamped ]_vars
  <2> SUFFICES ASSUME DriveInv, [Next]_vars, pc = "request", pc' = "output", onBrake,
                      config.idlemode \notin {"always", "hillHold"}
               PROVE  throttleRamped' <= 0 \/ throttleRamped' <= throttleRamped
    OBVIOUS
  <2>1. Request
    BY DEF Next, Ms10Task, Ms100Task, Sample, Output, Start, Run, Stay, Off, vars
  <2>2. QED
    BY <2>1, BrakeWinsStep
<1>2. QED
  BY <1>1, DriveInvariant, PTL DEF Spec, BrakeWins
=============================================================================
