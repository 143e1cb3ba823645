SPECIFICATION PulseSpec
CONSTANTS
  MaxRevCnt = 3
  StopAfter = 2
  TimerTurn = 8
  Impulses = {2}
  PulseFreq = 4
  Directions = {1}
PROPERTIES
  StaysAtNextPulse
