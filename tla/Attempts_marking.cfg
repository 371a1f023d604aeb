SPECIFICATION Spec
CONSTANTS
  s1 = s1  s2 = s2  w1 = w1  w2 = w2  q1 = q1  q2 = q2
  Slot = {s1, s2}
  Worker = {w1, w2}
  Question <- OneQuestion
  Response = {"a"}
  CorrectOption <- AllCorrectA
  Points <- OnePointEach
  Null = Null
  OpensAt = Null
  ClosesAt = Null
  Duration = Null
  ResultsRelease = "on_review"
  Requests <- EveryRequest
  MaxClock = 0
  MaxQueue = 2
  MaxCrashes = 0
  Crashing = {}
SYMMETRY Symmetry
INVARIANT TypeOK
PROPERTIES HumanMarkKept ImplementsSitting
CHECK_DEADLOCK FALSE
