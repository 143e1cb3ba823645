---------------------------- MODULE UnitsProofs -----------------------------
(***************************************************************************)
(* Proofs about the components together: whichever is at work, a step of   *)
(* Units is a step of that component and none of any other. Units is put   *)
(* together that way; the lemma says no component was forgotten and none   *)
(* disturbs another, and gives Units the types of all.                     *)
(***************************************************************************)
EXTENDS Units, HostProofs, SensorProofs, CurrentProofs

-----------------------------------------------------------------------------
(* Every component begins and steps as its own specification says.         *)

LEMMA EveryInit ==
  UnitsInit =>
    /\ CeilingInit /\ TimeoutInit /\ ChargerInit /\ OffsetsInit
    /\ EncoderInit /\ PulseInit /\ TempMeasInit /\ TemperatureInit
    /\ QClampInit /\ AntiCogInit /\ SlipInit
BY Zenon DEF UnitsInit

\* One step of the whole, for each component: its own, or nothing.
LEMMA EveryComponentSteps ==
  [UnitsNext]_unitsVars =>
    /\ [CeilingNext]_ceilingVars
    /\ [TimeoutNext]_timeoutVars
    /\ [ChargerNext]_chargerVars
    /\ [OffsetsNext]_offsetsVars
    /\ [EncoderNext]_encoderVars
    /\ [PulseNext]_pulseVars
    /\ [TempMeasNext]_tempMeasVars
    /\ [TemperatureNext]_tempVars
    /\ [QClampNext]_qClampVars
    /\ [InjectAntiCog]_antiCogVars
    /\ [SlipNext]_slipVars
<1> SUFFICES ASSUME [UnitsNext]_unitsVars
             PROVE  /\ [CeilingNext]_ceilingVars
                    /\ [TimeoutNext]_timeoutVars
                    /\ [ChargerNext]_chargerVars
                    /\ [OffsetsNext]_offsetsVars
                    /\ [EncoderNext]_encoderVars
                    /\ [PulseNext]_pulseVars
                    /\ [TempMeasNext]_tempMeasVars
                    /\ [TemperatureNext]_tempVars
                    /\ [QClampNext]_qClampVars
                    /\ [InjectAntiCog]_antiCogVars
                    /\ [SlipNext]_slipVars
  OBVIOUS
<1>1. [CeilingNext]_ceilingVars
  BY Zenon DEF UnitsNext, unitsVars, controls, sensing, currents
<1>2. [TimeoutNext]_timeoutVars
  BY Zenon DEF UnitsNext, unitsVars, controls, sensing, currents
<1>3. [ChargerNext]_chargerVars
  BY Zenon DEF UnitsNext, unitsVars, controls, sensing, currents
<1>4. [OffsetsNext]_offsetsVars
  BY Zenon DEF UnitsNext, unitsVars, controls, sensing, currents
<1>5. [EncoderNext]_encoderVars
  BY Zenon DEF UnitsNext, unitsVars, controls, sensing, currents
<1>6. [PulseNext]_pulseVars
  BY Zenon DEF UnitsNext, unitsVars, controls, sensing, currents
<1>7. [TempMeasNext]_tempMeasVars
  BY Zenon DEF UnitsNext, unitsVars, controls, sensing, currents
<1>8. [TemperatureNext]_tempVars
  BY Zenon DEF UnitsNext, unitsVars, controls, sensing, currents
<1>9. [QClampNext]_qClampVars
  BY Zenon DEF UnitsNext, unitsVars, controls, sensing, currents
<1>10. [InjectAntiCog]_antiCogVars
  BY Zenon DEF UnitsNext, unitsVars, controls, sensing, currents
<1>11. [SlipNext]_slipVars
  BY Zenon DEF UnitsNext, unitsVars, controls, sensing, currents
<1> QED
  BY <1>1, <1>2, <1>3, <1>4, <1>5, <1>6, <1>7, <1>8, <1>9, <1>10, <1>11

\* Units implements every component.
LEMMA UnitsImplementComponents ==
  UnitsSpec =>
    /\ CeilingSpec /\ TimeoutSpec /\ ChargerSpec /\ OffsetsSpec
    /\ EncoderSpec /\ PulseSpec /\ TempMeasSpec /\ TemperatureSpec
    /\ QClampSpec /\ AntiCogSpec /\ SlipSpec
BY EveryInit, EveryComponentSteps, PTL
   DEF UnitsSpec, CeilingSpec, TimeoutSpec, ChargerSpec, OffsetsSpec, EncoderSpec, PulseSpec,
       TempMeasSpec, TemperatureSpec, QClampSpec, AntiCogSpec, SlipSpec

\* The component at work stays the one at work, and stays in its type.
THEOREM UnitsTypeCorrect == UnitsSpec => []TypeOK
<1>1. UnitsSpec => [](unit \in Units)
  <2>1. UnitsInit => unit \in Units
    BY DEF UnitsInit
  <2>2. unit \in Units /\ [UnitsNext]_unitsVars => (unit \in Units)'
    BY DEF UnitsNext, unitsVars
  <2> QED
    BY <2>1, <2>2, PTL DEF UnitsSpec
<1>2. (unit \in Units /\ CeilingTypeOK /\ TimeoutTypeOK /\ EncoderTypeOK /\ PulseTypeOK
        /\ QClampTypeOK /\ AntiCogTypeOK /\ OffsetsTypeOK /\ ChargerTypeOK
        /\ TempMeasTypeOK /\ TemperatureTypeOK /\ SlipTypeOK)
       => TypeOK
  <2> SUFFICES ASSUME unit \in Units, CeilingTypeOK, TimeoutTypeOK, EncoderTypeOK, PulseTypeOK,
                      QClampTypeOK, AntiCogTypeOK, OffsetsTypeOK, ChargerTypeOK,
                      TempMeasTypeOK, TemperatureTypeOK, SlipTypeOK
               PROVE  TypeOK
    OBVIOUS
  <2>1. \/ unit = "ceiling" \/ unit = "timeout" \/ unit = "encoder" \/ unit = "pulses"
        \/ unit = "qclamp" \/ unit = "anticog" \/ unit = "offsets" \/ unit = "charger"
        \/ unit = "lookup" \/ unit = "temperature" \/ unit = "slip"
    BY DEF Units
  <2>2. CASE unit = "ceiling"
    BY <2>2, Zenon DEF TypeOK
  <2>3. CASE unit = "timeout"
    BY <2>3, Zenon DEF TypeOK
  <2>4. CASE unit = "encoder"
    BY <2>4, Zenon DEF TypeOK
  <2>5. CASE unit = "pulses"
    BY <2>5, Zenon DEF TypeOK
  <2>6. CASE unit = "qclamp"
    BY <2>6, Zenon DEF TypeOK
  <2>7. CASE unit = "anticog"
    BY <2>7, Zenon DEF TypeOK
  <2>8. CASE unit = "offsets"
    BY <2>8, Zenon DEF TypeOK
  <2>9. CASE unit = "charger"
    BY <2>9, Zenon DEF TypeOK
  <2>10. CASE unit = "lookup"
    BY <2>10, Zenon DEF TypeOK
  <2>11. CASE unit = "temperature"
    BY <2>11, Zenon DEF TypeOK
  <2>12. CASE unit = "slip"
    BY <2>12, Zenon DEF TypeOK
  <2> QED
    BY <2>1, <2>2, <2>3, <2>4, <2>5, <2>6, <2>7, <2>8, <2>9, <2>10, <2>11, <2>12, Zenon
<1> QED
  BY <1>1, <1>2, UnitsImplementComponents, CeilingTypeCorrect, TimeoutTypeCorrect,
     EncoderTypeCorrect, PulseTypeCorrect, ClampTypeCorrect, AntiCogTypeCorrect,
     OffsetsTypeCorrect, ChargerTypeCorrect, LookupIsTyped, TemperatureIsTyped,
     SlipTypeCorrect, PTL
=============================================================================
