SPECIFICATION Spec
CONSTANTS
  Control = "SINE"
  HwRevs = {"REV2"}
  TripModes = {0}
  ChargeModes = {0}
  StartModes = {1}
  DinSignals = {}
  InitDelay = 1
  CalAt = 1
  PwmInitWait = 0
INVARIANTS
  ChannelsOffWhenOff
