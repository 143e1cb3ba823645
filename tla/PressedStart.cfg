SPECIFICATION Spec
CONSTANTS
  Tuning <- SmallTuning
  Configs <- FocConfigs
  Pedals <- SmallPedals
  Dins <- SmallDins
  Speeds = {0, 2}
  Distances <- SmallDistances
  Readings <- SmallReadings
PROPERTIES
  StartNotPressed
