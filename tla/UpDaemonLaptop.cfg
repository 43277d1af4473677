SPECIFICATION Spec
CONSTANTS
  AC = AC
  BAT0 = BAT0
  BAT1 = BAT1
  UPS = UPS
  Device = {AC, BAT0}
  KindOf <- MCKindOf
  EnergyFull <- MCEnergyFull
  Readings <- LaptopReadings
  InitiallyPlugged <- MCPlugged
  Config <- ByPercentage
  MaxUevents = 2
  MaxChanges = 3
INVARIANT TypeOK
INVARIANT ListedOnce
INVARIANT TimeoutBelongsToEpisode
INVARIANT AggregateIsCurrent
INVARIANT ActionNeedsAnEmptySupply
PROPERTY KeepsCriticalAction
