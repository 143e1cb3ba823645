SPECIFICATION Spec
CONSTANTS
  Control = "FOC"
  HwRevs = {"REV2"}
  TripModes = {0, 3}
  ChargeModes = {0, 3}
  StartModes = {1, 6}
  DinSignals = {"start", "charge", "bms"}
  InitDelay = 2
  CalAt = 1
  PwmInitWait = 1
INVARIANTS
  TypeOK
  CalibrationAtRest
  ChannelsMatchMode
PROPERTIES
  KeepsParameterLock
