SPECIFICATION Spec
CONSTANTS
  AC = AC
  BAT0 = BAT0
  BAT1 = BAT1
  UPS = UPS
  Device = {BAT0, BAT1}
  KindOf <- MCKindOf
  EnergyFull <- MCEnergyFull
  Readings <- SupplyReadings
  InitiallyPlugged <- MCPlugged
  Config <- ByPercentage
  MaxUevents = 1
  MaxChanges = 1
PROPERTY GuessesForALoneBattery
