SPECIFICATION Spec
CONSTANTS
  Reqs = {r1, r2}
  Threads = 2
  MaxResume = 2
  MaxExpected = 4
INVARIANT
  WakeNeverFails
