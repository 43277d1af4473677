SPECIFICATION Spec
CONSTANTS
  BAT = BAT
  MOUSE = MOUSE
  PHONE = PHONE
  Device = {MOUSE}
  PollKind <- MCPollKind
  Id <- MCId
  Level <- MCLevel
  UnknownRetries = 1
  NoPollBatteries = FALSE
  NeedsPollAfterUevent = FALSE
  StartsDuringSleep = TRUE
  DelayMayExpire = TRUE
  MaxSleeps = 2
  MaxSignals = 4
INVARIANT PauseStopsAllPolls
