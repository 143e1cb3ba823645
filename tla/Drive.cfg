SPECIFICATION Spec
CONSTANTS
  Tuning <- SmallTuning
  Configs <- DriveConfigs
  Pedals <- SmallPedals
  Dins <- SmallDins
  Speeds = {0, 2}
  Distances <- SmallDistances
  Readings <- SmallReadings
INVARIANTS
  TypeOK
  LimitersNarrow
  CancelledStaysCancelled
  RegenReleased
  PressedStartIsIdle
PROPERTIES
  BrakeWins
