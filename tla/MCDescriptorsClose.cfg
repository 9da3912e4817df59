SPECIFICATION ClosingSpec
CONSTANTS
  Tasks = {t1, t2}
  MaxFd = 1
  MaxAddrs = 1
INVARIANT
  OpenUntilClosed
