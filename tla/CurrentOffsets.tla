--------------------------- MODULE CurrentOffsets ---------------------------
(***************************************************************************)
(* The offsets of the two current sensors, FOC variant. The PWM interrupt  *)
(* averages the sensors' readings while the output is held off: in the     *)
(* init phase of a start (initwait) and whenever the motor idles. Buffer   *)
(* and count are static: what a session leaves in them is the beginning of *)
(* the next session's first average.                                       *)
(*                                                                         *)
(* SetOpmode starts PWM in steps, and the interrupt falls between them.    *)
(***************************************************************************)
EXTENDS Integers

CONSTANTS
  OffsetSamples,  \* readings of an average: offsetSamples (512)
  PwmInitWait     \* interrupts of the init phase: pwmfrq / 2 (2200 or more)

ASSUME OffsetsAssumption ==
  /\ OffsetSamples \in Nat \ {0}
  /\ PwmInitWait \in Nat
  /\ PwmInitWait >= 2 * (OffsetSamples + 1)

VARIABLES
  phase,       \* where SetOpmode is: "off", "published", "waiting", "on"
  initwait, isIdle,
  mainOutput,  \* the timer's main output
  samples,     \* RunOffsetCalibration: readings in its buffer
  own,         \* history: how many of them are of this session
  calibrated   \* history: were the offsets set from readings of this session

offsetsVars == <<phase, initwait, isIdle, mainOutput, samples, own, calibrated>>

OffsetsTypeOK ==
  /\ phase \in {"off", "published", "waiting", "on"}
  /\ initwait \in 0 .. PwmInitWait
  /\ isIdle \in BOOLEAN /\ mainOutput \in BOOLEAN /\ calibrated \in BOOLEAN
  /\ samples \in 0 .. OffsetSamples
  /\ own \in 0 .. OffsetSamples

OffsetsInit ==
  /\ phase = "off"
  /\ initwait = 0
  /\ isIdle = FALSE
  /\ mainOutput = FALSE
  /\ samples = 0
  /\ own = 0
  /\ calibrated = FALSE

-----------------------------------------------------------------------------
(* The tasks.                                                              *)

\* SetOpmode(MOD_RUN): the mode is set and the interrupt enabled.
PublishRun ==
  /\ phase = "off"
  /\ phase' = "published"
  /\ own' = 0
  /\ calibrated' = FALSE
  /\ UNCHANGED <<initwait, isIdle, mainOutput, samples>>

PwmInitSetsWait_Halved ==
  /\ phase = "published"
  /\ phase' = "waiting"
  /\ initwait' = PwmInitWait \div 2
  /\ UNCHANGED <<isIdle, mainOutput, samples, own, calibrated>>

PwmInitSetsWait ==
  /\ phase = "published"
  /\ phase' = "waiting"
  /\ initwait' = PwmInitWait
  /\ UNCHANGED <<isIdle, mainOutput, samples, own, calibrated>>

\* EnableOutput connects the channels.
ConnectChannels ==
  /\ phase = "waiting"
  /\ phase' = "on"
  /\ UNCHANGED <<initwait, isIdle, mainOutput, samples, own, calibrated>>

\* SetOpmode(MOD_OFF): DisableOutput.
StopPwm ==
  /\ phase = "on"
  /\ phase' = "off"
  /\ mainOutput' = FALSE
  /\ UNCHANGED <<initwait, isIdle, samples, own, calibrated>>

\* SetTorquePercent: idle is a standstill without any command.
SetIdle ==
  /\ isIdle' \in BOOLEAN
  /\ UNCHANGED <<phase, initwait, mainOutput, samples, own, calibrated>>

-----------------------------------------------------------------------------
(* The PWM interrupt.                                                      *)

\* Once full the buffer is averaged, by a call that takes no reading itself.
RunOffsetCalibration ==
  IF samples < OffsetSamples
  THEN /\ samples' = samples + 1
       /\ own' = own + 1
       /\ UNCHANGED calibrated
  ELSE /\ samples' = 0
       /\ own' = 0
       /\ calibrated' = (calibrated \/ own = samples)

\* Shut down on a stopped motor or in the init phase.
HoldOff ==
  /\ isIdle \/ initwait' > 0
  /\ mainOutput' = FALSE
  /\ RunOffsetCalibration

GoLive ==
  /\ ~isIdle
  /\ initwait' = 0
  /\ mainOutput' = TRUE
  /\ UNCHANGED <<samples, own, calibrated>>

\* PwmGeneration::Run in mode RUN.
RunIsr ==
  /\ phase # "off"
  /\ initwait' = IF initwait > 0 THEN initwait - 1 ELSE 0
  /\ HoldOff \/ GoLive
  /\ UNCHANGED <<phase, isIdle>>

OffsetsNext ==
  \/ PublishRun
  \/ PwmInitSetsWait
  \/ ConnectChannels
  \/ StopPwm
  \/ SetIdle
  \/ RunIsr

OffsetsSpec == OffsetsInit /\ [][OffsetsNext]_offsetsVars

-----------------------------------------------------------------------------

\* Once the wait is set no interrupt lets the output go live on the offsets of an
\* earlier session, or on an average that mixes two sessions: the first full buffer
\* of this one comes in time, however much the last left behind. (An interrupt
\* before the wait is set may; its output is taken back by the next.)
CalibratedBeforeTorque ==
  [][RunIsr /\ phase \in {"waiting", "on"} /\ mainOutput' => calibrated']_offsetsVars
=============================================================================
