SPECIFICATION IntervalSpec
CONSTANTS
  U64Max = 12
  MaxDelay = 4
INVARIANTS
  NoDrift
  WaitsAtMostDelay
PROPERTIES
  SkipTakesFirst
