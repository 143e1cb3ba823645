SPECIFICATION UnitsSpec
CONSTANTS
  IqMax = 1
  ThrotCurMax = 1
  ThrotCur = 1
  Torque = 2
  Rtc = 6
  Timeouts = {0, 2, 3}
  Currents = {1, 2}
  HalfTurn = 2
  MaxStep = 1
  StableAngle = 1
  StartupDelay = 2
  PolePairs = 1
  CallingFrequency = 4
  HzUnit = 2
  EncModes = {"RESOLVER", "AB"}
  MaxBacklog = 2
  MaxTravel = 3
  MaxFullTurns = 2
  MaxRevCnt = 3
  StopAfter = 1
  TimerTurn = 3
  Impulses = {1, 3}
  Directions = {0, 1}
  PulseFreq = 4
  SlewDivisor = 2
  Hysteresis = 2
  QLimits = {0, 1, 5}
  Speeds = {0, 4, 8}
  ThresholdsHz = {0, 5}
  MaxVd = 6
  Quarter = 3
  IdSwing = 2
  CogUnit = 2
  CogPhases = {5}
  CogGains = {3, 10}
  CogMax = 6
  IntMax = 127
  OffsetSamples = 4
  PwmInitWait = 10
  ChargeCurrents = {0, 3, 8}
  UdcReadings = {0, 90, 100, 105}
  ChgUdcMax = 100
  HsTemps = {20, 45, 50}
  TmpHsMax = 50
  TempScale = 1
  SensorIds = {"JCURVE", "SEMIKRON", "MBB600", "KTY81HS", "PT1000", "NTCK45",
    "LEAFHS", "BMWI3HS", "KTY83", "KTY84", "LEAF", "KTY81M", "TOYOTA", "TESLA_100K",
    "TESLA_52K", "TESLA_LDU_FLUID", "TESLA_10K", "OUTLANDERFRONT", "EPCOSB56871",
    "TOYOTAGEN2"}
  MaxDigit = 4095
  TempBoards = {"TESLA", "PRIUS", "OTHER"}
  TempDigits = {0, 3300}
  HsSensors = {"JCURVE"}
  MotorSensors = {"LEAF"}
  Functions = {"tmphs"}
  FanThresh = 50
  PwmOfs = 0
  FullAmp = 5
  AmpMin = 1
  SlipStart = 2
  SineCurve = FALSE
  SlipMin = 1
  SlipMax = 2
  SlipConstMax = 3
  FConst = 4
  StatorFrqs = {0, 8}
  WeakFrqs = {2, 6}
  Torques = {0, 5}
  Weights = {1, 4}
  RiseWeight = 4
  FallWeight = 2
  IacMaxs = {0, 20}
  PhaseCurrents = {18, 24}
  SettleTicks = 4
  SettleRuns = 6
INVARIANTS
  TypeOK
  AuthorityBounded
  SilentHostZeroed
  NoMovementLost
  FrequencyIsTrue
  PulsesCounted
  StandstillSeen
  StaysInCircle
  RegenBlocked
  LookupReadsTable
  OwnSensorsCount
  SlipBounded
  WrongWayFades
  OverloadHeld
PROPERTIES
  CommandKept
  SwingIsReal
  WaveIsSmooth
  CalibratedBeforeTorque
  ChargerYields
