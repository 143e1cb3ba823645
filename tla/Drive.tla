------------------------------- MODULE Drive --------------------------------
(***************************************************************************)
(* From pedal, inputs and rotor speed to a torque command: the direction   *)
(* and cruise control of the 100 ms task (SelectDirection, CruiseControl)  *)
(* and, in the 10 ms task, the throttle pipeline (ProcessThrottle) and the *)
(* throttle's part in starting and stopping.                               *)
(*                                                                         *)
(* Neither task preempts the other, but about ten runs of the one fall     *)
(* between two of the other, and each works with what the other left       *)
(* behind. The 10 ms task is cut in four for the checker's sake: it        *)
(* samples, computes and ramps a request, limits and applies it, and       *)
(* changes the operating state.                                            *)
(*                                                                         *)
(* Rotor frequency and speed are one quantity.                             *)
(***************************************************************************)
EXTENDS ThrottleLimits

CONSTANTS
  Configs,       \* the mode parameters to run with
  Pedals,        \* what a read of the pedal may find
  Dins,          \* sets of digital inputs that are high together
  Speeds,        \* rotor speeds
  Distances,     \* distances the hill hold may measure
  Readings       \* readings of the limiters' inputs

ConfigType ==
  [control : {"SINE", "FOC"},
   dirmode : {"button", "switch", "buttonReversed", "switchReversed", "defaultForward"},
   cruisemode : {"off", "switch", "can", "pot", "limiter"},
   idlemode : {"always", "noBrake", "cruise", "off", "hillHold"},
   potmode : SUBSET {"dualChannel", "can", "biDir"}]   \* flags; none is "regenAdj"

\* Two channels, as received or measured; the regenpreset by CAN or host; and whether the
\* last CAN frame is too old.
PedalType == [pot : Nat, pot2 : Nat, preset : 0 .. Tuning.full, timeout : BOOLEAN]

ASSUME DriveAssumption ==
  /\ Configs \subseteq ConfigType
  /\ Pedals \subseteq PedalType
  /\ Dins \subseteq SUBSET {"forward", "reverse", "brake", "cruise"}
  /\ Speeds \subseteq Nat
  /\ Distances \subseteq Int
  /\ Readings \subseteq ReadingType

VARIABLES
  config,                           \* the mode parameters
  pc,                               \* progress of the 10 ms task
  mode,                             \* off, waiting to start, or running
  din, speed, rotordir,             \* sampled inputs, Encoder speed and direction
  seldir, cruiseSpeed, lastCruiseSwitchState,
  runHillHold, determineDirection, throttleRamped,
  potnom, brakeLight,
  heldFactor, holdCounter,          \* RegenTaperHold
  cancelled,                        \* history: an active cruise control ended and no
                                    \* 100 ms task has seen the switch off since
  onBrake,                          \* history: a 100 ms task ran since the brake is held
  startedPressed,                   \* history: driving was requested at the start and
                                    \* has been ever since, by a percent or more
  still                             \* history: ticks at speed 0 with the direction
                                    \* determined, up to holdcalls + 1

sampled == <<din, speed, rotordir>>
cruise == <<cruiseSpeed, lastCruiseSwitchState>>
request == <<runHillHold, determineDirection, throttleRamped>>
output == <<potnom, brakeLight, heldFactor, holdCounter>>
history == <<cancelled, onBrake, startedPressed, still>>
vars == <<config, pc, mode, sampled, seldir, cruise, request, output, history>>

TypeOK ==
  /\ config \in Configs
  /\ pc \in {"idle", "request", "output", "mode"}
  /\ mode \in {"off", "wait", "run"}
  /\ din \in Dins \cup {{}}
  /\ speed \in Speeds \cup {0}
  /\ {rotordir, seldir} \subseteq {-1, 0, 1}
  /\ {cruiseSpeed, throttleRamped, potnom} \subseteq Int
  /\ {lastCruiseSwitchState, runHillHold, determineDirection, brakeLight} \subseteq BOOLEAN
  /\ heldFactor \in 0 .. Tuning.regenrampstr
  /\ holdCounter \in 0 .. Tuning.holdcalls
  /\ {cancelled, onBrake, startedPressed} \subseteq BOOLEAN
  /\ still \in 0 .. Tuning.holdcalls + 1

Init ==
  /\ config \in Configs
  /\ pc = "idle" /\ mode = "off"
  /\ din = {} /\ speed = 0 /\ rotordir = 0 /\ seldir = 0
  /\ cruiseSpeed = 0 /\ lastCruiseSwitchState = FALSE
  /\ runHillHold = FALSE /\ determineDirection = TRUE /\ throttleRamped = 0
  /\ potnom = 0 /\ brakeLight = FALSE /\ heldFactor = 0 /\ holdCounter = 0
  /\ cancelled = FALSE /\ onBrake = FALSE /\ startedPressed = FALSE /\ still = 0

Brake == "brake" \in din
CruiseSwitch == "cruise" \in din
Forward == "forward" \in din
Reverse == "reverse" \in din

-----------------------------------------------------------------------------
(* The pedal.                                                              *)

BiDir == "biDir" \in config.potmode
DualChannel == "dualChannel" \in config.potmode /\ ~BiDir

Good1 == {p \in Pedals : InRange(p.pot, Tuning.potmin, Tuning.potmax)}
Good2 == {p \in Pedals : InRange(p.pot2, Tuning.pot2min, Tuning.pot2max)}

Potnom1 == [p \in Pedals |->
  DigitsToPercent(Limited(p.pot, Tuning.potmin, Tuning.potmax), Tuning.potmin, Tuning.potmax)]
Potnom2 == [p \in Pedals |->
  DigitsToPercent(Limited(p.pot2, Tuning.pot2min, Tuning.pot2max),
                  Tuning.pot2min, Tuning.pot2max)]

\* The pedal asks for nothing when CAN falls silent or no channel is left.
Usable(p) ==
  /\ ~("can" \in config.potmode /\ p.timeout)
  /\ p \in Good1 \/ (DualChannel /\ p \in Good2)

\* The good channel, or the lower one of two.
Potnom(p) ==
  IF p \notin Good1 THEN Potnom2[p]
  ELSE IF DualChannel /\ p \in Good2 THEN Least(Potnom1[p], Potnom2[p])
  ELSE Potnom1[p]

\* With one channel on the pedal the other one adjusts the regeneration.
RegenPreset(p) == IF config.potmode = {} THEN Potnom2[p] ELSE p.preset

BiDirThrot(p) == CalcThrottleBiDir(Potnom1[p], Brake, RegenTravel(speed))

Toward(n) == IF n < 0 THEN -1 ELSE 1

\* A bidirectional pot in the middle, or against the rotation.
Opposes(p) ==
  LET throt == BiDirThrot(p)
  IN throt = 0 \/ (Toward(throt) # rotordir /\ speed > Tuning.bidirrpm)

\* A bidirectional pot brakes where it opposes the rotation and else drives, to either side.
GetUserThrottleCommand(p) ==
  CASE ~Usable(p) -> 0
    [] Usable(p) /\ BiDir ->
         IF Opposes(p) THEN Tuning.offthrotregen ELSE Greatest(BiDirThrot(p), -BiDirThrot(p))
    [] OTHER -> CalcThrottle(Potnom(p), RegenPreset(p), Brake, RegenTravel(speed))

\* The direction selected after it: a bidirectional pot selects one while it is read.
PotDirection(p) ==
  IF ~BiDir \/ ~Usable(p) THEN seldir
  ELSE IF Opposes(p) THEN rotordir
  ELSE Toward(BiDirThrot(p))

-----------------------------------------------------------------------------
(* The 100 ms task.                                                        *)

DirSign == IF config.dirmode \in {"buttonReversed", "switchReversed"} THEN -1 ELSE 1

\* What the inputs select, 0 for neutral.
UserDirSelection ==
  CASE Forward /\ Reverse -> 0
    [] Forward /\ ~Reverse -> DirSign
    [] ~Forward /\ Reverse -> -DirSign
    [] OTHER ->
         IF config.dirmode = "defaultForward" THEN 1
         ELSE IF config.dirmode \in {"button", "buttonReversed"} THEN seldir
         ELSE 0

\* Neutral is taken at any speed, with any pedal.
ForcesNeutral ==
  \/ Forward /\ Reverse
  \/ config.dirmode \in {"switch", "switchReversed"} /\ ~Forward /\ ~Reverse

\* Param::GetInt(potnom) > 0: a command below one percent is cut off to none.
PotPressed == potnom \div Tuning.percent > 0

SelectDirection_IgnoresPedal ==
  IF BiDir THEN seldir
  ELSE IF speed < Tuning.dirchrpm \/ UserDirSelection = rotordir THEN UserDirSelection
  ELSE IF ForcesNeutral THEN 0 ELSE seldir

\* "Only change direction when below certain motor speed and throttle is not
\* pressed": the command looked at is the limited one of the last 10 ms task.
SelectDirection ==
  IF BiDir THEN seldir
  ELSE IF (speed < Tuning.dirchrpm \/ UserDirSelection = rotordir) /\ ~PotPressed
  THEN UserDirSelection
  ELSE IF ForcesNeutral THEN 0 ELSE seldir

CruiseSwitched_NoEdge == IF CruiseSwitch THEN speed ELSE -1

\* Cruise control by switch: taken on when it is toggled, off while it is low.
CruiseSwitched ==
  IF ~CruiseSwitch THEN -1
  ELSE IF ~lastCruiseSwitchState THEN speed ELSE cruiseSpeed

CruiseEnds_NotByBrake == ~Forward /\ config.cruisemode # "pot"

\* The brake, or a forward signal that goes away, ends cruise control.
CruiseEnds == Brake \/ (~Forward /\ config.cruisemode # "pot")

ReadsPedal == config.cruisemode = "pot" /\ ~CruiseEnds

\* The cruise speed for a commanded speed and a pedal; the limiter alone stays on
\* under the brake.
CruiseControl(commanded, p) ==
  CASE config.cruisemode # "limiter" /\ CruiseEnds -> -1
    [] config.cruisemode = "limiter" \/ (config.cruisemode = "can" /\ ~CruiseEnds) ->
         IF CruiseSwitch THEN commanded ELSE -1
    [] config.cruisemode = "switch" /\ ~CruiseEnds -> CruiseSwitched
    [] ReadsPedal -> GetUserThrottleCommand(p) * Tuning.potspeed
    [] OTHER -> -1

Ms100Task ==
  /\ pc = "idle"
  /\ \E commanded \in Speeds, p \in Pedals :
       /\ seldir' = IF ReadsPedal /\ BiDir THEN PotDirection(p)
                    ELSE SelectDirection
       /\ cruiseSpeed' = CruiseControl(commanded, p)
  /\ lastCruiseSwitchState' =
       IF config.cruisemode = "limiter" THEN lastCruiseSwitchState ELSE CruiseSwitch
  /\ cancelled' = (CruiseSwitch /\ (cancelled \/ (cruiseSpeed > 0 /\ ~(cruiseSpeed' > 0))))
  /\ onBrake' = Brake
  /\ UNCHANGED <<config, pc, mode, sampled, request, output, startedPressed, still>>

-----------------------------------------------------------------------------
(* The 10 ms task.                                                         *)

\* Inputs and encoder are read (a resolver or sine encoder, which keeps its direction
\* at standstill).
Sample ==
  /\ pc = "idle"
  /\ pc' = "request"
  /\ din' \in Dins
  /\ speed' \in Speeds
  /\ rotordir' \in (IF speed' = 0 THEN {rotordir} ELSE {-1, 1})
  /\ onBrake' = (onBrake /\ "brake" \in din')
  /\ UNCHANGED <<config, mode, seldir, cruise, request, output>>
  /\ UNCHANGED <<cancelled, startedPressed, still>>

\* Idle speed control is on.
Idles ==
  /\ mode # "off"
  /\ \/ config.idlemode = "always"
     \/ config.idlemode = "noBrake" /\ ~Brake
     \/ config.idlemode = "cruise" /\ ~Brake /\ CruiseSwitch

\* Taken from the second channel as it is, broken or not.
BrakePressure(p) == DigitsToPercent(p.pot2, Tuning.pot2min, Tuning.pot2max)

\* With idle speed always on, the brake transducer on the second channel lowers it.
IdleThrotLim(p) ==
  IF config.idlemode = "always" /\ config.potmode = {}
  THEN (Tuning.idlethrotlim * (Tuning.full - BrakePressure(p))) \div Tuning.full
  ELSE Tuning.idlethrotlim

\* Hill hold is armed on the brake at standstill, and then holds off the brake.
MayHold == mode # "off" /\ config.idlemode = "hillHold"
Arms == MayHold /\ Brake /\ speed = 0
HoldsAt(distance) == MayHold /\ ~Arms /\ runHillHold /\ Holds(distance)

\* The request of idle speed control or hill hold.
Creep(throtSpnt, distance, limit) ==
  IF Idles THEN Greatest(throtSpnt, CalcIdleSpeed(speed, limit))
  ELSE IF HoldsAt(distance) THEN HoldPosition(distance, limit)
  ELSE throtSpnt

\* Combined with throttle speed control, the set speed never drops below idle speed.
CruiseFloor ==
  IF Idles /\ config.cruisemode = "pot" THEN Greatest(cruiseSpeed, Tuning.idlespeed)
  ELSE cruiseSpeed

\* GetCruiseCreepCommand's last part: the cruise speed controller's command.
Cruise(creep, throtSpnt, filtered) ==
  LET cruiseSpnt == CalcCruiseSpeed(cruiseSpeed, filtered)
  IN IF ~(CruiseFloor > 0 /\ CruiseFloor >= Tuning.idlespeed) THEN creep
     ELSE IF config.cruisemode = "limiter" THEN Least(cruiseSpnt, throtSpnt)
     ELSE IF throtSpnt <= 0 THEN cruiseSpnt
     ELSE Greatest(cruiseSpnt, throtSpnt)

ThrottleRamp == IF speed < Tuning.throtramprpm THEN Tuning.throtramp ELSE Tuning.rampmax

\* ProcessThrottle up to the ramp.
Request ==
  /\ pc = "request"
  /\ pc' = "output"
  /\ \E p \in Pedals, distance \in Distances, filtered \in Speeds :
       LET throtSpnt == IF config.cruisemode = "pot" THEN 0 ELSE GetUserThrottleCommand(p)
           creep == Creep(throtSpnt, distance, IdleThrotLim(p))
           holds == HoldsAt(distance)
       IN /\ seldir' = IF config.cruisemode = "pot" THEN seldir ELSE PotDirection(p)
          /\ runHillHold' = IF MayHold THEN (Arms \/ holds) /\ ~(throtSpnt > 0 /\ throtSpnt > creep)
                            ELSE runHillHold
          /\ determineDirection' = ~holds
          /\ throttleRamped' =
               RampThrottle(Cruise(creep, throtSpnt, filtered), throttleRamped, ThrottleRamp)
  /\ cruiseSpeed' = CruiseFloor
  /\ still' = IF ~(speed = 0 /\ determineDirection') THEN 0
              ELSE Least(still + 1, Tuning.holdcalls + 1)
  /\ UNCHANGED <<config, mode, sampled, lastCruiseSwitchState, output>>
  /\ UNCHANGED <<cancelled, onBrake, startedPressed>>

\* The brake light: off two points above its threshold, or out of regeneration.
BrakeLight(spnt) ==
  \/ spnt < Tuning.brklightout
  \/ brakeLight /\ ~(spnt > Least(0, Tuning.brklightout + 2))

TapersOff(spnt) == spnt < 0 /\ speed < Tuning.regenrampstr

RegenTaper_NeverExpires(spnt) ==
  /\ holdCounter' = IF ~TapersOff(spnt) THEN 0
                    ELSE IF speed # 0 THEN Tuning.holdcalls ELSE holdCounter
  /\ heldFactor' = IF ~TapersOff(spnt) THEN heldFactor
                   ELSE IF speed # 0 THEN speed
                   ELSE IF holdCounter > 0 THEN heldFactor ELSE 0

RegenTaper_CountsPastZero(spnt) ==
  /\ holdCounter' = IF ~TapersOff(spnt) THEN 0
                    ELSE IF speed # 0 THEN Tuning.holdcalls ELSE holdCounter - 1
  /\ heldFactor' = IF ~TapersOff(spnt) THEN heldFactor
                   ELSE IF speed # 0 THEN speed
                   ELSE IF holdCounter > 0 THEN heldFactor ELSE 0

\* RegenTaperHold::Apply: below regenrampstr the last factor above zero is kept for
\* holdcalls ticks of a speed that reads zero. It is in parts of regenrampstr.
RegenTaper(spnt) ==
  /\ holdCounter' = IF ~TapersOff(spnt) THEN 0
                    ELSE IF speed # 0 THEN Tuning.holdcalls
                    ELSE IF holdCounter > 0 THEN holdCounter - 1 ELSE 0
  /\ heldFactor' = IF ~TapersOff(spnt) THEN heldFactor
                   ELSE IF speed # 0 THEN speed
                   ELSE IF holdCounter > 0 THEN heldFactor ELSE 0

Tapered(spnt) ==
  IF TapersOff(spnt) THEN -((heldFactor * (-spnt)) \div Tuning.regenrampstr) ELSE spnt

\* FOC regenerates against the rotation and drives in the selected direction; under
\* slip control negative always means regeneration.
Directed(spnt) ==
  IF config.control = "SINE" THEN spnt
  ELSE spnt * (IF spnt < 0 THEN rotordir ELSE seldir)

\* ProcessThrottle's result, for the rest of the tick.
TorquePercent ==
  IF seldir = 0 THEN 0
  ELSE IF determineDirection THEN Directed(Tapered(potnom))
  ELSE potnom

\* The rest of ProcessThrottle.
Output ==
  /\ pc = "output"
  /\ pc' = "mode"
  /\ \E r \in Readings : potnom' = LimitCommand(throttleRamped, r, speed)
  /\ brakeLight' = BrakeLight(potnom')
  /\ IF determineDirection THEN RegenTaper(potnom') ELSE UNCHANGED <<heldFactor, holdCounter>>
  /\ startedPressed' = (startedPressed /\ PotPressed')
  /\ UNCHANGED <<config, mode, sampled, seldir, cruise, request>>
  /\ UNCHANGED <<cancelled, onBrake, still>>

-----------------------------------------------------------------------------
(* The end of the 10 ms task: the operating state.                         *)

\* STAT_POTPRESSED is clear.
NotPressed == ~(TorquePercent > 0)

\* A start is admitted, or the wait goes on.
Start ==
  /\ pc = "mode"
  /\ pc' = "idle"
  /\ mode = "off" /\ NotPressed
  /\ mode' = "wait"
  /\ startedPressed' = PotPressed
  /\ UNCHANGED <<config, sampled, seldir, cruise, request, output, cancelled, onBrake, still>>

\* The wait is over: "restart ramp" (one step towards zero) and Encoder::Reset. The
\* parameter rotordir follows the encoder in the next tick.
Run ==
  /\ pc = "mode"
  /\ pc' = "idle"
  /\ mode = "wait"
  /\ mode' = "run"
  /\ throttleRamped' = RampThrottle(0, throttleRamped, ThrottleRamp)
  /\ speed' = 0
  /\ rotordir' = 0
  /\ UNCHANGED <<config, din, seldir, cruise, runHillHold, determineDirection, output, history>>

\* Nothing changes: the wait goes on, or the inverter runs on.
Stay ==
  /\ pc = "mode"
  /\ pc' = "idle"
  /\ mode # "off"
  /\ UNCHANGED <<config, mode, sampled, seldir, cruise, request, output, history>>

\* Stopped, by whatever stops it, or off as before; every such tick cancels cruise control.
Off ==
  /\ pc = "mode"
  /\ pc' = "idle"
  /\ mode' = "off"
  /\ cruiseSpeed' = -1
  /\ cancelled' = (cancelled \/ cruiseSpeed > 0)
  /\ startedPressed' = FALSE
  /\ UNCHANGED <<config, sampled, seldir, lastCruiseSwitchState, request, output, onBrake, still>>

Ms10Task == Sample \/ Request \/ Output \/ Start \/ Run \/ Stay \/ Off

Next == Ms100Task \/ Ms10Task

Spec == Init /\ [][Next]_vars

-----------------------------------------------------------------------------
(* Properties.                                                             *)

\* "Each only ever narrows the torque request toward zero, never widens it": the
\* limiters leave the ramped request's sign and take from its size.
LimitersNarrow == pc = "mode" => Narrows(potnom, throttleRamped)

\* Cruise control by switch that the brake, the forward signal or a stop has ended
\* does not come back, in this drive or the next, until the switch has been seen off.
CancelledStaysCancelled == config.cruisemode = "switch" /\ cancelled => cruiseSpeed <= 0

\* With the brake held over a 100 ms task no request to drive is raised, by pedal,
\* idle speed or cruise control. Two idle modes are meant to drive on the brake: always
\* on, and the hill hold.
BrakeWins ==
  [][ pc = "request" /\ pc' = "output" /\ onBrake
      /\ config.idlemode \notin {"always", "hillHold"} =>
      throttleRamped' <= 0 \/ throttleRamped' <= throttleRamped ]_vars

\* Once the rotor reads standstill for longer than the taper's hold, there is no
\* regenerative torque left (with regenrampstr 0 there is no taper).
RegenReleased ==
  pc = "mode" /\ Tuning.regenrampstr > 0 /\ still > Tuning.holdcalls /\ determineDirection
    /\ potnom < 0 => TorquePercent = 0

\* "Never into positive torque request": the brake light is off while driving.
NoBrakeLightUnderPower == brakeLight => potnom <= 0

\* Under slip control a request to drive present at the start, of a percent or more,
\* yields no torque until it has fallen below: it can only be present in neutral, and
\* pins that. A smaller one does not count as pressed and pins nothing.
PressedStartIsIdle ==
  pc = "mode" /\ config.control = "SINE" /\ ~BiDir /\ startedPressed =>
    TorquePercent = 0

\* "Switch on DC switch if throttle is not pressed": with a direction selected, a start
\* is admitted only without a request to drive.
StartNotPressed == [][Start => seldir = 0 \/ ~(potnom > 0)]_vars
=============================================================================
