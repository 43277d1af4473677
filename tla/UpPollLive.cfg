SPECIFICATION FairSpec
CONSTANTS
  BAT = BAT
  MOUSE = MOUSE
  PHONE = PHONE
  Device = {BAT, PHONE}
  PollKind <- MCPollKind
  Id <- MCId
  Level <- MCLevel
  UnknownRetries = 1
  NoPollBatteries = TRUE
  NeedsPollAfterUevent = FALSE
  StartsDuringSleep = FALSE
  DelayMayExpire = TRUE
  MaxSleeps = 2
  MaxSignals = 4
INVARIANT BatteriesAreNotPolled
PROPERTY PollingResumes
