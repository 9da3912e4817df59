SPECIFICATION FairSpec
CONSTANTS
  Reqs = {r1, r2}
  U64Max = 3
  Hour = 5
  MaxStarts = 3
INVARIANTS
  TimersMatchSleepers
  NeverOversleeps
  NoParkWhenDone
PROPERTIES
  SleepsLongEnough
  BlockOnReturns
  ExitLeavesNothing
  DueTimerCompletes
