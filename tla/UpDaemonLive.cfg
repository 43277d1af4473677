SPECIFICATION FairSpec
CONSTANTS
  AC = AC
  BAT0 = BAT0
  BAT1 = BAT1
  UPS = UPS
  Device = {AC, BAT0}
  KindOf <- MCKindOf
  EnergyFull <- MCEnergyFull
  Readings <- LiveReadings
  InitiallyPlugged <- MCPlugged
  Config <- ByTime
  MaxUevents = 1
  MaxChanges = 2
PROPERTY CatchesUp
PROPERTY GracePeriodEnds
