SPECIFICATION FileSpec
CONSTANTS
  MaxSize = 4
  MaxLen = 2
INVARIANTS
  CancelSafe
  ZeroIsEnd
