SPECIFICATION Spec
CONSTANTS
  Halves = {h1}
  Dirs = {"In", "Out"}
  Budget = 2
  MaxAvail = 3
INVARIANTS
  NothingLost
  ZeroIsEnd
PROPERTIES
  YieldsWithinBudget
