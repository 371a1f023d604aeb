SPECIFICATION FairSpec
CONSTANTS
  s1 = s1  s2 = s2  r1 = r1  r2 = r2  w1 = w1
  Slot = {s1, s2}
  Run = {r1, r2}
  Sweeper = {w1}
  Null = Null
  Sizes = {1}
  Stale = 1
  Requests <- EveryRequest
  Crashing = {"api", "run", "sweep"}
  MaxWritten = 1
  MaxRedelivered = 1
  MaxCrashes = 1
INVARIANT OneDrafting
PROPERTIES FrozenSeal EventuallyTold
CHECK_DEADLOCK FALSE
