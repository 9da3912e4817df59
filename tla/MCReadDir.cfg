SPECIFICATION DirFairSpec
CONSTANTS
  Entries = 5
  Dots = {1, 4}
  Block = 2
INVARIANTS
  EveryEntryOnce
PROPERTIES
  InterruptEnds
