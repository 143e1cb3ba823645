------------------------------- MODULE Units -------------------------------
(***************************************************************************)
(* The components that share no state with the others, or none that their  *)
(* own module does not hold already: a behaviour is one of any of them,    *)
(* alone, with the rest at one of their initial states.                    *)
(***************************************************************************)
EXTENDS CurrentCeiling, CommandTimeout, Encoder, PulseEncoder, QClamp, AntiCog,
        CurrentOffsets, Charger, Temperature, SlipControl

VARIABLE unit  \* the component at work

Units ==
  {"ceiling", "timeout", "encoder", "pulses", "qclamp", "anticog", "offsets", "charger",
   "lookup", "temperature", "slip"}

TypeOK ==
  \/ unit = "ceiling" /\ CeilingTypeOK
  \/ unit = "timeout" /\ TimeoutTypeOK
  \/ unit = "encoder" /\ EncoderTypeOK
  \/ unit = "pulses" /\ PulseTypeOK
  \/ unit = "qclamp" /\ QClampTypeOK
  \/ unit = "anticog" /\ AntiCogTypeOK
  \/ unit = "offsets" /\ OffsetsTypeOK
  \/ unit = "charger" /\ ChargerTypeOK
  \/ unit = "lookup" /\ TempMeasTypeOK
  \/ unit = "temperature" /\ TemperatureTypeOK
  \/ unit = "slip" /\ SlipTypeOK

\* Where a component that is not at work may begin in several states, it begins in
\* one of them.
Any(s) == CHOOSE x \in s : TRUE

UnitsInit ==
  /\ unit \in Units
  /\ CeilingInit /\ (unit = "ceiling" \/ flash = Any(Saved))
  /\ TimeoutInit /\ (unit = "timeout" \/ iqtimeout = Any(Timeouts))
  /\ EncoderInit /\ (unit = "encoder" \/ encMode = Any(EncModes))
  /\ PulseInit /\ (unit = "pulses" \/ pulsesPerTurn = Any(Impulses))
  /\ QClampInit
  /\ AntiCogInit /\ (unit = "anticog" \/ (cogph = Any(CogPhases) /\ cogkp = Any(CogGains)))
  /\ OffsetsInit
  /\ ChargerInit
  /\ SlipInit
  /\ TempMeasInit /\ (unit = "lookup" \/ sensorId = Any(SensorIds))
  /\ TemperatureInit
  /\ \/ unit = "temperature"
     \/ /\ board = Any(TempBoards) /\ ~ldu
        /\ snshs = Any(HsSensors) /\ snsm = Any(MotorSensors) /\ pwmfunc = Any(Functions)

controls == <<ceilingVars, timeoutVars, chargerVars, offsetsVars>>
sensing == <<encoderVars, pulseVars, tempMeasVars, tempVars>>
currents == <<qClampVars, antiCogVars, slipVars>>
unitsVars == <<unit, controls, sensing, currents>>

UnitsNext ==
  /\ UNCHANGED unit
  /\ \/ unit = "ceiling" /\ CeilingNext
        /\ UNCHANGED <<sensing, currents, timeoutVars, chargerVars, offsetsVars>>
     \/ unit = "timeout" /\ TimeoutNext
        /\ UNCHANGED <<sensing, currents, ceilingVars, chargerVars, offsetsVars>>
     \/ unit = "charger" /\ ChargerNext
        /\ UNCHANGED <<sensing, currents, ceilingVars, timeoutVars, offsetsVars>>
     \/ unit = "offsets" /\ OffsetsNext
        /\ UNCHANGED <<sensing, currents, ceilingVars, timeoutVars, chargerVars>>
     \/ unit = "encoder" /\ EncoderNext
        /\ UNCHANGED <<controls, currents, pulseVars, tempMeasVars, tempVars>>
     \/ unit = "pulses" /\ PulseNext
        /\ UNCHANGED <<controls, currents, encoderVars, tempMeasVars, tempVars>>
     \/ unit = "lookup" /\ TempMeasNext
        /\ UNCHANGED <<controls, currents, encoderVars, pulseVars, tempVars>>
     \/ unit = "temperature" /\ TemperatureNext
        /\ UNCHANGED <<controls, currents, encoderVars, pulseVars, tempMeasVars>>
     \/ unit = "qclamp" /\ QClampNext
        /\ UNCHANGED <<controls, sensing, antiCogVars, slipVars>>
     \/ unit = "anticog" /\ InjectAntiCog
        /\ UNCHANGED <<controls, sensing, qClampVars, slipVars>>
     \/ unit = "slip" /\ SlipNext
        /\ UNCHANGED <<controls, sensing, qClampVars, antiCogVars>>

UnitsSpec == UnitsInit /\ [][UnitsNext]_unitsVars
=============================================================================
