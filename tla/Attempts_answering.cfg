SPECIFICATION Spec
CONSTANTS
  s1 = s1  s2 = s2  w1 = w1  w2 = w2  q1 = q1  q2 = q2
  Slot = {s1, s2}
  Worker = {w1}
  Question <- TwoQuestions
  Response = {"a", "b"}
  CorrectOption <- AllCorrectA
  Points <- OnePointEach
  Null = Null
  OpensAt = Null
  ClosesAt = 3
  Duration = 2
  ResultsRelease = "immediate"
  Requests = {"start", "save", "submit"}
  MaxClock = 3
  MaxQueue = 2
  MaxCrashes = 1
  Crashing = {"api", "worker"}
SYMMETRY Symmetry
INVARIANT GradedIsComplete
PROPERTIES OneSitting SubmittedSeal DeadlineSeal
CHECK_DEADLOCK FALSE
