SPECIFICATION HistorySpec
CONSTANTS
  MaxErrors = 3
  CanTimeout = 1
  CounterMod = 2
  ControlCheck = TRUE
  PotFromCan = TRUE
  CruiseMode = "limiter"
  Payloads <- Pressed
  Pins = {}
  MaxLog = 7
INVARIANTS
  CleanBusNeverLatches
  LatchedIffExcess
