SPECIFICATION FairSpec
CONSTANTS
  s1 = s1  s2 = s2  w1 = w1  w2 = w2  a1 = a1  a2 = a2
  Slot = {s1}
  Sweeper = {w1}
  Aggregator = {a1, a2}
  Null = Null
  Requests = {"open", "beat", "submit", "void"}
  Deadline = 1
  GapAfter = 1
  AbandonAfter = 2
  Slack = 1
  Window = 2
  Limit = 4
  Batch <- OneObservation
  Retention = 5
  MaxClock = 4
  MaxEvents = 2
  MaxQueue = 2
  MaxCrashes = 1
  Crashing = {"api", "sweep", "worker"}
INVARIANT AggregateConverges
PROPERTY EventuallyScored
CHECK_DEADLOCK FALSE
