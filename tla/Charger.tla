------------------------------ MODULE Charger -------------------------------
(***************************************************************************)
(* The charge current (modes boost and buck): every 10 ms RunCharger       *)
(* derates the wish of the user by bus voltage and temperature and ramps   *)
(* it up; the PWM interrupt regulates to the reference it finds. The       *)
(* reference is the controller's and the ramp is static: both outlive the  *)
(* session, and SetOpmode enables the output before it resets the first.   *)
(*                                                                         *)
(* Currents are whole amperes, voltages and temperatures whole units.      *)
(***************************************************************************)
EXTENDS Integers, FiniteSetsExt

CONSTANTS
  ChargeCurrents,         \* values of chargecur
  UdcReadings, ChgUdcMax, \* bus voltages; udcmax
  HsTemps, TmpHsMax       \* heat sink temperatures; tmphsmax

ASSUME ChargerAssumption ==
  /\ ChargeCurrents \subseteq Nat
  /\ UdcReadings \subseteq Nat /\ ChgUdcMax \in Nat
  /\ HsTemps \subseteq Nat /\ TmpHsMax \in Nat

VARIABLES
  session,          \* where SetOpmode is: "off", "published", "enabled", "on"
  chargeCurRamped,  \* static of RunCharger
  reference,        \* of chargeController
  drawn,            \* the reference the interrupt last regulated to, 0 with the
                    \* output off
  granted           \* history: the last derated current of this session

chargerVars == <<session, chargeCurRamped, reference, drawn, granted>>

ChargerTypeOK ==
  /\ session \in {"off", "published", "enabled", "on"}
  /\ {chargeCurRamped, reference, drawn, granted} \subseteq Nat

ChargerInit ==
  /\ session = "off"
  /\ chargeCurRamped = 0
  /\ reference = 0
  /\ drawn = 0
  /\ granted = 0

-----------------------------------------------------------------------------
(* Throttle's limiters, as RunCharger uses them.                           *)

Positive(n) == Max({0, n})

\* UdcLimitCommand of -100, the sign turned back.
UdcDerate(udc) == Min({100, Positive(5 * (ChgUdcMax - udc))})

\* TemperatureDerate of 100.
TempDerate(tmphs) == Min({100, Positive(10 * (TmpHsMax - tmphs))})

Derated(chargeCur, udc, tmphs) ==
  (Min({UdcDerate(udc), TempDerate(tmphs)}) * chargeCur) \div 100

\* History: what bus voltage and temperature leave of a wish, by either line alone.
Allowed(chargeCur, udc, tmphs) ==
  IF udc >= ChgUdcMax \/ tmphs >= TmpHsMax THEN 0
  ELSE Min({chargeCur, (5 * (ChgUdcMax - udc) * chargeCur) \div 100,
            (10 * (TmpHsMax - tmphs) * chargeCur) \div 100})

-----------------------------------------------------------------------------
(* The 10 ms task.                                                         *)

\* SetOpmode(MOD_BOOST or MOD_BUCK): the mode is set, PWM set up.
PublishCharge ==
  /\ session = "off"
  /\ session' = "published"
  /\ granted' = 0
  /\ UNCHANGED <<chargeCurRamped, reference, drawn>>

\* EnableChargeOutput and the main output.
EnableCharge ==
  /\ session = "published"
  /\ session' = "enabled"
  /\ UNCHANGED <<chargeCurRamped, reference, drawn, granted>>

ConfigureChargeController_KeepsRef ==
  /\ session = "enabled"
  /\ session' = "on"
  /\ UNCHANGED <<chargeCurRamped, reference, drawn, granted>>

ConfigureChargeController ==
  /\ session = "enabled"
  /\ session' = "on"
  /\ reference' = 0
  /\ UNCHANGED <<chargeCurRamped, drawn, granted>>

StopCharge ==
  /\ session = "on"
  /\ session' = "off"
  /\ drawn' = 0
  /\ UNCHANGED <<chargeCurRamped, reference, granted>>

\* Down at once, up by one ampere.
Ramped(chargeCur) ==
  IF chargeCur < chargeCurRamped THEN chargeCur ELSE Min({chargeCur, chargeCurRamped + 1})

RunCharger ==
  /\ session = "on"
  /\ \E chargeCur \in ChargeCurrents, udc \in UdcReadings, tmphs \in HsTemps :
       /\ chargeCurRamped' = Ramped(Derated(chargeCur, udc, tmphs))
       /\ granted' = Allowed(chargeCur, udc, tmphs)
  /\ reference' = chargeCurRamped'
  /\ UNCHANGED <<session, drawn>>

-----------------------------------------------------------------------------

\* Charge, in the PWM interrupt. With the output off it only sets a duty cycle.
Charge ==
  /\ session # "off"
  /\ drawn' = IF session = "published" THEN 0 ELSE reference
  /\ UNCHANGED <<session, chargeCurRamped, reference, granted>>

ChargerNext ==
  \/ PublishCharge
  \/ EnableCharge
  \/ ConfigureChargeController
  \/ StopCharge
  \/ RunCharger
  \/ Charge

ChargerSpec == ChargerInit /\ [][ChargerNext]_chargerVars

-----------------------------------------------------------------------------

\* From the moment the controller is configured no interrupt regulates to more than
\* the last tick of this session granted, and to nothing before the first: a bus at
\* its limit or a hot heat sink acts within a tick, however far the ramp had come, and
\* what an earlier session left behind does not count. (Between the enabling of the
\* output and the configuration an interrupt may still use the old reference.)
ChargerYields == [][Charge /\ session = "on" => drawn' <= granted]_chargerVars
=============================================================================
