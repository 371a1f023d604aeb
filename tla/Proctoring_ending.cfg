SPECIFICATION Spec
CONSTANTS
  s1 = s1  s2 = s2  w1 = w1  w2 = w2  a1 = a1  a2 = a2
  Slot = {s1, s2}
  Sweeper = {w1, w2}
  Aggregator = {a1}
  Null = Null
  Requests = {"open", "record", "submit"}
  Deadline = 1
  GapAfter = 1
  AbandonAfter = 2
  Slack = 1
  Window = 2
  Limit = 1
  Batch <- EmptyOrObservation
  Retention = 5
  MaxClock = 3
  MaxEvents = 3
  MaxQueue = 2
  MaxCrashes = 0
  Crashing = {}
SYMMETRY Symmetry
INVARIANTS NotFlooded OneGapPerSilence ScoredOnlyEnded
PROPERTIES EndSeal OneSession
CHECK_DEADLOCK FALSE
