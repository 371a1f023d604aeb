SPECIFICATION FairSpec
CONSTANTS
  s1 = s1  w1 = w1  w2 = w2
  Slot = {s1}
  Run = {w1, w2}
  Null = Null
  MaxRetries = 1
  Requests = {"retry", "reingest"}
  Faults = {"api", "worker", "again", "handler"}
  MaxQueued = 1
  MaxMishaps = 1
PROPERTY EventuallySettled
CHECK_DEADLOCK FALSE
