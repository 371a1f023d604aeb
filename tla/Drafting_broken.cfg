SPECIFICATION MCSpec
CONSTANTS
  b1 = b1 b2 = b2 b3 = b3 w1 = w1 w2 = w2 w3 = w3
  Target = 3
  MaxCalls = 4
  Batches = 2
  BookBatches <- ThreeExercises
  Unusable = {b3}
  Stems = {b1, w1, w2, w3}
  Share = 40
  Preferences = {"auto", "prefer", "only", "never"}
  MaxItems = 2
  Inputs <- MCInputs
  MaxStem = 3
INVARIANT OneBatchFailsNoPaper
