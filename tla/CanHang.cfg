SPECIFICATION FairSpec
CONSTANTS
  MaxErrors = 2
  CanTimeout = 2
  CounterMod = 2
  ControlCheck = TRUE
  PotFromCan = TRUE
  CruiseMode = "can"
  Payloads <- Driving
  Pins = {"forward", "cruise"}
PROPERTIES
  HungSenderLosesControl
  CommsLossCancelsCruise
