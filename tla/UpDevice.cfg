SPECIFICATION Spec
CONSTANTS
  Configs <- MCConfigs
  Kinds <- MCKinds
  Percentages <- MCPercentages
  TimesToEmpty <- MCTimesToEmpty
INVARIANT TypeOK
INVARIANT LevelIsCurrent
INVARIANT IconIsCurrent
INVARIANT FullIsQuiet
INVARIANT ThresholdReached
