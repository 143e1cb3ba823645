SPECIFICATION Spec
CONSTANTS
  Control = "FOC"
  HwRevs = {"REV2"}
  TripModes = {0}
  ChargeModes = {0}
  StartModes = {}
  DinSignals = {"start"}
  InitDelay = 1
  CalAt = 1
  PwmInitWait = 1
PROPERTIES
  NoStartAgainstOff
