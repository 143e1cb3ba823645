SPECIFICATION FairSpec
CONSTANTS
  Control = "FOC"
  HwRevs = {"REV2"}
  TripModes = {0, 2}
  ChargeModes = {0}
  StartModes = {}
  DinSignals = {"start"}
  InitDelay = 2
  CalAt = 1
  PwmInitWait = 1
INVARIANTS
  RunsOnClosedContactor
PROPERTIES
  OffTakesEffect
  StartCompletes
  StopHalts
