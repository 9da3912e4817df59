SPECIFICATION EndingSpec
CONSTANTS
  Reqs = {r1, r2}
  NoOp = noop
  SqEntries = 2
  CqEntries = 2
  IndexSpace = 4
  Platforms <- Kernels
  KernelFails = TRUE
  Waits = {TRUE, FALSE}
  MayExit = TRUE
  MaxNoOps = 1
  MaxForced = 1
VIEW View
INVARIANTS
  OnePlace
  CountersExact
  CancelHitsItsTarget
PROPERTIES
  ImplementsEngine
  ExitLeavesNothing
  ExitTerminates
  FinishedDelivered
