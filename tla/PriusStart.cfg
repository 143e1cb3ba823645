SPECIFICATION Spec
CONSTANTS
  Control = "SINE"
  HwRevs = {"PRIUS"}
  TripModes = {0}
  ChargeModes = {3}
  StartModes = {3}
  DinSignals = {"charge"}
  InitDelay = 1
  CalAt = 1
  PwmInitWait = 0
PROPERTIES
  PriusRunsPwmFirst
