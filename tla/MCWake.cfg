SPECIFICATION FairSpec
CONSTANTS
  Reqs = {r1, r2, r3, r4}
  Threads = 3
  MaxResume = 2
  MaxExpected = 6
INVARIANTS
  SinglePoll
  ReadNeverBlocks
  NoStrandedWake
  HasWorkIffBlocked
PROPERTIES
  ImplementsFairWaker
