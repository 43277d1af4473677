SPECIFICATION Spec
CONSTANTS
  BAT = BAT
  MOUSE = MOUSE
  PHONE = PHONE
  Device = {BAT, PHONE}
  PollKind <- MCPollKind
  Id <- MCId
  Level <- MCLevel
  UnknownRetries = 1
  NoPollBatteries = FALSE
  NeedsPollAfterUevent = FALSE
  StartsDuringSleep = FALSE
  DelayMayExpire = FALSE
  MaxSleeps = 3
  MaxSignals = 4
INVARIANT TypeOK
INVARIANT OnePollEach
INVARIANT TimersAreOwned
INVARIANT IntervalFollowsLevel
INVARIANT SleepsQuietly
