SPECIFICATION FairSpec
CONSTANTS
  Tasks = {t1, t2}
  MaxFd = 1
  MaxAddrs = 2
INVARIANTS
  OneOwner
  AsPromised
PROPERTY
  InterruptReturns
