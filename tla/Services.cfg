SPECIFICATION ServicesSpec
CONSTANTS
  Reading <- MCReading
  Failing = {"charge"}
  MaxDataAge = 1
  Epoch = 9
  FloatDigits = 2
  FloatExponents <- MCFloatExponents
  MaxTime = 2
  MaxSamples = 4
  Cpus = 2
  Interrupts = {9}
  Processes = {9, 30}
  KernelTools = {30}
  Parts = 10
  SamplePeriods = {1, 5}
  MaxPerInterval = 1
  MaxCount = 3
  Capabilities <- MCCapabilities
  IgnoreLid = FALSE
  MaxReaders = 2
  MaxLidEvents = 2
  KbdMax = 2
  KbdRequests <- MCRequests
  m1 = m1
  m2 = m2
  m3 = m3
  HidppDevices = {m1, m2, m3}
  Features <- MCFeatures
  ApproxOnly = {m2}
  Receiver = Receiver
  MaxMessages = 2
  MaxRefreshes = 2
  MaxTimeouts = 1
  BluezObjects = {"mouse"}
  Appearances <- MCAppearances
  BluezLevels = {20, 80}
  MaxBluezSignals = 2
  ConfigFiles = {"none", "PowerOff", "Hibernate", "HybridSleep", "Suspend"}
  DesignVoltage = 2
  BatteryKinds <- MCKinds
  Grain = 100
  Least = 10
  TicksPerSecond = 2
  MaxStep = 100
  RateCap = 500
  PowerReadings = {0, 100}
  MaxBatteryClock = 5
  MaxUpsets = 1
  PowerInfos <- MCPowerInfos
  LidSensors = {"none", "open", "closed"}
  MaxApmChanges = 2
  BatteryUnits = {0, 1, 2}
  FirmwareNumber <- MCFirmwareNumber
  HasHandle = {0, 1}
  AcpiFlags = {{}, {"not_present"}}
  MaxDevdEvents = 2
  MaxAcpiChanges = 2
  Watts = {1, 2}
  WupReadSize = 3
  MaxStream = 5
  DevicePaths = {"d1", "d2"}
  MaxDaemonEvents = 4
INVARIANTS
  ServicesTypeOK
  UnsavedIsScheduled
  LowPowerIsSaved
  ProfileSkipsDowntime
  AnswersShowChanges
  StatisticsEnd
  LidIsCurrent
  SignalsTellBrightness
  BatteryIsOwn
  AnswersFit
  BluezBatteriesAreFollowed
  BatteryReadsTrue
  ApmIsFollowed
  AcpiIsFollowed
  PeripheralsAreFollowed
  ClientSeesDaemon
PROPERTIES
  ActionIsAllowed
