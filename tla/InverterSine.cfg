SPECIFICATION Spec
CONSTANTS
  Control = "SINE"
  HwRevs = {"PRIUS"}
  TripModes = {3}
  ChargeModes = {0}
  StartModes = {3}
  DinSignals = {}
  InitDelay = 1
  CalAt = 1
  PwmInitWait = 0
INVARIANTS
  BreakArmed
