SPECIFICATION EngineSpec
CONSTANTS
  Reqs = {event, r1, r2}
  Event = event
  NoOp = noop
  SqEntries = 2
  CqEntries = 2
  IndexSpace = 4
  Platforms <- Kernels
  KernelFails = TRUE
  Waits = {TRUE}
  MayExit = TRUE
  MaxNoOps = 0
  MaxForced = 1
  Tasks = {t1, t2}
  Threads = 1
  MaxResume = 1
  MaxExpected = 2
VIEW View
PROPERTIES
  ImplementsWake
  ExitWaitsForWakes
  ExitTerminates
  WokenResumes
