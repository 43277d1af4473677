SPECIFICATION Spec
CONSTANTS
  AC = AC
  BAT0 = BAT0
  BAT1 = BAT1
  UPS = UPS
  Device = {AC, BAT0}
  KindOf <- MCKindOf
  EnergyFull <- MCEnergyFull
  Readings <- LaptopReadings
  InitiallyPlugged <- MCPlugged
  Config <- ByPercentage
  MaxUevents = 1
  MaxChanges = 2
INVARIANT DisplayLevelIsOverall
