------------------------- MODULE InverterProperties -------------------------
(***************************************************************************)
(* What the run/stop state machine of module Inverter is meant to keep.    *)
(***************************************************************************)
EXTENDS Inverter

\* No call of SetOpmode is under way.
Quiet == \A t \in Threads : soStep[t] = "return"

-----------------------------------------------------------------------------
(* Parameters and the power stage.                                         *)

\* While PWM runs in any mode, saving, loading and resetting parameters is
\* refused: "same 'not in RUN' gate as SAVE" (LoadDefaults, Ms10Task).
SaveGate == pwmOpmode # MOD_OFF => ~saving

\* The same as a protocol: lock, start, stop, unlock, in that order only.
Lock == INSTANCE ParameterLock WITH unlocked <- saving,
                                    running <- pwmOpmode # MOD_OFF
KeepsParameterLock == Lock!Spec

-----------------------------------------------------------------------------
(* Start and stop.                                                         *)

\* Between tasks the delay counter and the power stage agree: PWM is off
\* exactly while a start is still to come (initWait is -1 once started).
DelayMeansOff ==
  TickIdle => (pwmOpmode = MOD_OFF <=> initWait # -1)

\* Current offsets are taken in the start delay only while PWM is off.
CalibrationAtRest == TakesOffsets => pwmOpmode = MOD_OFF

ChannelsOf(mode) == Elements(ToEnable(mode, mode))

\* Whatever order starts, stops and trips came in, the enabled timer channels
\* are those of the mode SetOpmode was last given.
ChannelsMatchMode == Quiet => oc = ChannelsOf(pwmOpmode)

\* No channel stays enabled once the power stage is off. Only the task's own calls
\* keep this: the terminal's start can be preempted between reading the mode and
\* enabling the channels (SetOpmode).
ChannelsOffWhenOff == Quiet /\ pwmOpmode = MOD_OFF => oc = {}

\* An inverter that runs and has not tripped has its break interrupt armed: no
\* order of trips and restarts leaves it running blind.
BreakArmed == Quiet /\ pwmOpmode # MOD_OFF /\ ~tripped => bie

\* The contactor never closes before the brake check has passed: at the pedal, or
\* without it where the cruise mode does not ask for one (Ms100Task).
ContactorNeedsBrake == dcsw => seenBrakePedal

\* Where only inputs start the inverter, no mode outlives the contactor: whatever
\* opens it (overvoltage at standstill, a stop, a trip) has opmode off as well, so
\* that PWM on an open contactor is always on its way out.
RunsOnClosedContactor == opmode # MOD_OFF => dcsw

\* An opmode forced or commanded off switches the power stage off, unless a new
\* command or start input takes it back first (Ms10Task's off branch).
OffTakesEffect ==
  opmode = MOD_OFF ~> (opmode # MOD_OFF \/ pwmOpmode = MOD_OFF)

\* A start that nobody takes back completes: the delay runs down and the power
\* stage is started, in mode run if that is what opmode says.
StartCompletes ==
  /\ <>[](opmode # MOD_OFF) => <>[](pwmOpmode # MOD_OFF)
  /\ <>[](opmode = MOD_RUN) => <>(pwmOpmode = MOD_RUN)

-----------------------------------------------------------------------------
(* Trips.                                                                  *)

\* Once opmode has been forced off (trip, overvoltage) the power stage is not
\* started against it by the tick that is under way.
NoStartAgainstOff ==
  [][pwmOpmode = MOD_OFF /\ pwmOpmode' # MOD_OFF => opmode # MOD_OFF]_vars

\* A stop halts the inverter: when nobody asks for a start any more, an opmode
\* that is stopped again and again ends with the power stage off.
StartAsked == manualstart \/ din # {}

StopHalts ==
  <>[](~StartAsked) /\ []<>(opmode = MOD_OFF) => <>[](pwmOpmode = MOD_OFF)

\* Prius: PWM runs before the contactor closes for charging ("Prius needs to run PWM
\* before closing the contactor", Ms10Task).
PriusRunsPwmFirst ==
  [][~dcsw /\ dcsw' /\ hwRev = "PRIUS" /\ newMode \in {MOD_BOOST, MOD_BUCK}
       => pwmOpmode = newMode]_vars
=============================================================================
