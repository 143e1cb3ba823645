--------------------------- MODULE CurrentCeiling ---------------------------
(***************************************************************************)
(* The authority ceilings of the FOC variant: whatever a host writes over  *)
(* CAN, the current it commands stays below a ceiling latched at boot.     *)
(* manualiqmax bounds manualiq and manualid in the PWM interrupt,          *)
(* throtcurmax bounds throtcur * torque in SetTorquePercent.               *)
(*                                                                         *)
(* The parameter store (libopeninv) is modelled from its use: a set of     *)
(* parameters in RAM, a copy in flash, saving and loading gated by the     *)
(* flag that module Inverter's tasks clear before a start.                 *)
(***************************************************************************)
EXTENDS Integers

CONSTANTS
  IqMax,        \* upper end of the range of manualiqmax and of +-manualiq (400)
  ThrotCurMax,  \* upper end of the range of throtcurmax (1000)
  ThrotCur,     \* upper end of the range of throtcur (10)
  Torque        \* largest magnitude of the torque command (100)

ASSUME RangeAssumption ==
  /\ IqMax \in Nat
  /\ ThrotCurMax \in Nat
  /\ ThrotCur \in Nat
  /\ Torque \in Nat

VARIABLES
  boot,                     \* how far main() has come
  flash,                    \* the saved ceilings
  manualiqmax, throtcurmax, \* the same in RAM
  manualiq, manualid, throtcur,
  manualIqMaxLatch, throtCurMaxLatch,
  saving,                   \* may parameters be saved, loaded, reset
  iqCmd, idCmd, is,         \* commands handed to the controllers
  booted                    \* history: what was in flash at the last reset

ceilings == <<manualiqmax, throtcurmax>>
commands == <<manualiq, manualid, throtcur>>
latches == <<manualIqMaxLatch, throtCurMaxLatch>>
refs == <<iqCmd, idCmd, is>>
ceilingVars == <<boot, flash, ceilings, commands, latches, saving, refs, booted>>

Saved == [iq : 0 .. IqMax, throt : 0 .. ThrotCurMax]

CeilingTypeOK ==
  /\ boot \in {"load", "latchIq", "latchThrot", "up"}
  /\ {flash, booted} \subseteq Saved
  /\ {manualiqmax, manualIqMaxLatch} \subseteq 0 .. IqMax
  /\ {throtcurmax, throtCurMaxLatch} \subseteq 0 .. ThrotCurMax
  /\ {manualiq, manualid} \subseteq -IqMax .. IqMax
  /\ throtcur \in 0 .. ThrotCur
  /\ saving \in BOOLEAN
  /\ {iqCmd, idCmd, is} \subseteq Int

\* RAM as the C runtime initialises it: defaults, latches wide open.
CeilingInit ==
  /\ boot = "load"
  /\ manualiqmax = IqMax
  /\ throtcurmax = ThrotCurMax
  /\ manualiq = 0
  /\ manualid = 0
  /\ throtcur = 0
  /\ manualIqMaxLatch = IqMax
  /\ throtCurMaxLatch = ThrotCurMax
  /\ saving = TRUE
  /\ iqCmd = 0
  /\ idCmd = 0
  /\ is = 0
  /\ flash \in Saved
  /\ booted = flash

-----------------------------------------------------------------------------
(* main(): load, latch, latch, and only then CAN and the terminal.         *)

ParmLoad ==
  /\ boot = "load"
  /\ boot' = "latchIq"
  /\ manualiqmax' = flash.iq
  /\ throtcurmax' = flash.throt
  /\ UNCHANGED <<flash, commands, latches, saving, refs, booted>>

LatchManualCurrentCeiling ==
  /\ boot = "latchIq"
  /\ boot' = "latchThrot"
  /\ manualIqMaxLatch' = manualiqmax
  /\ UNCHANGED <<flash, ceilings, commands, throtCurMaxLatch, saving, refs, booted>>

LatchThrottleCurrentCeiling ==
  /\ boot = "latchThrot"
  /\ boot' = "up"
  /\ throtCurMaxLatch' = throtcurmax
  /\ UNCHANGED <<flash, ceilings, commands, manualIqMaxLatch, saving, refs, booted>>

HostReachable_BeforeLatch == boot \in {"latchThrot", "up"}

\* Is CAN reception live: the constructors run after both latches.
HostReachable == boot = "up"

-----------------------------------------------------------------------------
(* The host, over SDO or mapped CAN messages.                              *)

WriteCeiling ==
  /\ HostReachable
  /\ \/ manualiqmax' \in 0 .. IqMax /\ UNCHANGED throtcurmax
     \/ throtcurmax' \in 0 .. ThrotCurMax /\ UNCHANGED manualiqmax
  /\ UNCHANGED <<boot, flash, commands, latches, saving, refs, booted>>

WriteCommand ==
  /\ HostReachable
  /\ \/ manualiq' \in -IqMax .. IqMax /\ UNCHANGED <<manualid, throtcur>>
     \/ manualid' \in -IqMax .. IqMax /\ UNCHANGED <<manualiq, throtcur>>
     \/ throtcur' \in 0 .. ThrotCur /\ UNCHANGED <<manualiq, manualid>>
  /\ UNCHANGED <<boot, flash, ceilings, latches, saving, refs, booted>>

Save ==
  /\ HostReachable
  /\ saving
  /\ flash' = [iq |-> manualiqmax, throt |-> throtcurmax]
  /\ UNCHANGED <<boot, ceilings, commands, latches, saving, refs, booted>>

\* `load` and `defaults` of the terminal.
Reload ==
  /\ HostReachable
  /\ saving
  /\ \/ manualiqmax' = flash.iq /\ throtcurmax' = flash.throt
     \/ manualiqmax' = IqMax /\ throtcurmax' = ThrotCurMax
  /\ UNCHANGED <<boot, flash, commands, latches, saving, refs, booted>>

\* Starts and stops (module Inverter) open and shut the gate.
Gate ==
  /\ HostReachable
  /\ saving' \in BOOLEAN
  /\ UNCHANGED <<boot, flash, ceilings, commands, latches, refs, booted>>

\* Power cycle or watchdog: RAM is lost, flash stays.
Reset ==
  /\ boot' = "load"
  /\ manualiqmax' = IqMax
  /\ throtcurmax' = ThrotCurMax
  /\ manualiq' = 0
  /\ manualid' = 0
  /\ throtcur' = 0
  /\ manualIqMaxLatch' = IqMax
  /\ throtCurMaxLatch' = ThrotCurMax
  /\ saving' = TRUE
  /\ iqCmd' = 0
  /\ idCmd' = 0
  /\ is' = 0
  /\ booted' = flash
  /\ UNCHANGED flash

-----------------------------------------------------------------------------
(* The consumers.                                                          *)

\* ClampManualCurrent, ClampThrottleCurrent.
Clamp(cmd, maxMag) ==
  LET max == IF maxMag < 0 THEN 0 ELSE maxMag
  IN IF cmd > max THEN max ELSE IF cmd < -max THEN -max ELSE cmd

\* EffectiveManualCeiling, EffectiveThrottleCeiling.
EffectiveCeiling(live, latched) == IF live < latched THEN live ELSE latched

\* The PWM interrupt, PwmGeneration::Run in RUN mode past its init phase.
Run ==
  /\ HostReachable
  /\ LET manualIqMax == EffectiveCeiling(manualiqmax, manualIqMaxLatch)
     IN /\ iqCmd' = Clamp(manualiq, manualIqMax)
        /\ idCmd' = Clamp(manualid, manualIqMax)
  /\ UNCHANGED <<boot, flash, ceilings, commands, latches, saving, is, booted>>

SetTorquePercent ==
  /\ HostReachable
  /\ \E torque \in -Torque .. Torque :
       is' = Clamp(throtcur * torque,
                   EffectiveCeiling(throtcurmax, throtCurMaxLatch))
  /\ UNCHANGED <<boot, flash, ceilings, commands, latches, saving, iqCmd, idCmd,
                 booted>>

-----------------------------------------------------------------------------

CeilingNext ==
  \/ ParmLoad
  \/ LatchManualCurrentCeiling
  \/ LatchThrottleCurrentCeiling
  \/ WriteCeiling
  \/ WriteCommand
  \/ Save
  \/ Reload
  \/ Gate
  \/ Reset
  \/ Run
  \/ SetTorquePercent

CeilingSpec == CeilingInit /\ [][CeilingNext]_ceilingVars

-----------------------------------------------------------------------------
(* What the ceilings are for.                                              *)

Within(cmd, maxMag) == -maxMag <= cmd /\ cmd <= maxMag

\* No sequence of host writes, saves and reloads makes the inverter command
\* more current, of either sign, than the ceiling that was in flash when it
\* booted: raising it takes "set + save + reboot" (manualclamp.h, throtclamp.h).
AuthorityBounded ==
  /\ Within(iqCmd, booted.iq)
  /\ Within(idCmd, booted.iq)
  /\ Within(is, booted.throt)

\* "A downward runtime change takes effect immediately": a command computed
\* from here on obeys the ceiling as it is now.
LoweringIsImmediate ==
  [][/\ Run => Within(iqCmd', manualiqmax) /\ Within(idCmd', manualiqmax)
     /\ SetTorquePercent => Within(is', throtcurmax)]_ceilingVars
=============================================================================
