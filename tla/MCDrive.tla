------------------------------ MODULE MCDrive -------------------------------
(***************************************************************************)
(* A small drive: a pedal travel of two units, which make one percent, so  *)
(* that a request of one unit is below a percent; speeds 0 and 2, ramps of *)
(* one unit.                                                               *)
(***************************************************************************)
EXTENDS Drive

SmallTuning ==
  [full |-> 2, percent |-> 2, potmin |-> 2, potmax |-> 4, pot2min |-> 4,
   pot2max |-> 2, potslack |-> 1, regentravel |-> 1, mintravel |-> 1,
   maxregentravelhz |-> 0, potlinearity |-> 1,
   offthrotregen |-> -1,
   throtmax |-> 2, throtmin |-> -2, throtramp |-> 1, rampmax |-> 2, regenramp |-> 1,
   rampknee |-> 1, throtramprpm |-> 2, dirchrpm |-> 2, potspeed |-> 1, brakeregen |-> -2,
   bmslimhigh |-> 50, bmslimlow |-> 0, udcmin |-> 1, udcmax |-> 3, idcmin |-> -1,
   idcmax |-> 1, idckp |-> 2, fmax |-> 2, accelmax |-> 1, tmphsmax |-> 2, tmpmmax |-> 2,
   idlespeed |-> 1, speedkp |-> 1, idlethrotlim |-> 1, cruisethrotlim |-> 2,
   cruiseregen |-> -1, holdkp |-> -1, holdlimit |-> 1, bidirrpm |-> 1, accelrpm |-> 1,
   brklightout |-> -1, regenrampstr |-> 3, holdcalls |-> 1]

Mode(control, dirmode, cruisemode, idlemode, potmode) ==
  [control |-> control, dirmode |-> dirmode, cruisemode |-> cruisemode,
   idlemode |-> idlemode, potmode |-> potmode]

\* Cruise control by switch, a speed limiter, and speed control by a bidirectional pot.
DriveConfigs ==
  { Mode("FOC", "switch", "switch", "cruise", {"dualChannel"}),
    Mode("SINE", "buttonReversed", "limiter", "always", {}),
    Mode("FOC", "defaultForward", "pot", "hillHold", {"can", "biDir"}) }

FocConfigs == { Mode("FOC", "switch", "off", "off", {"dualChannel"}) }

Pedal(pot, pot2, preset, timeout) ==
  [pot |-> pot, pot2 |-> pot2, preset |-> preset, timeout |-> timeout]

\* Released; pressed; one channel pressed; one broken, with CAN silent.
SmallPedals ==
  { Pedal(2, 4, 2, FALSE), Pedal(5, 2, 0, FALSE), Pedal(4, 4, 2, FALSE), Pedal(0, 2, 2, TRUE) }

SmallDistances == {-1, 2}

SmallDins ==
  { {}, {"reverse"}, {"forward", "cruise"}, {"forward", "brake", "cruise"} }

Reading(u, a, b) ==
  [udc |-> u, idc |-> 0, frq |-> 0, accel |-> a, tmphs |-> 0, tmpm |-> 0, bms |-> b]

\* Nothing limits; the battery is empty; BMS and acceleration limit.
SmallReadings == { Reading(2, 0, FALSE), Reading(0, 0, FALSE), Reading(2, 1, TRUE) }
=============================================================================
