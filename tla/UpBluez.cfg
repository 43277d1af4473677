SPECIFICATION BluezSpec
CONSTANTS
  BluezObjects = {"mouse", "keyboard"}
  Appearances <- MCAppearances
  BluezLevels = {20, 80}
  MaxBluezSignals = 2
INVARIANT VanishedIsGone
