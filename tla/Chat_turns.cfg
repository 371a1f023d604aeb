SPECIFICATION MCSpec
CONSTANTS
  b1 = b1 b2 = b2 t1 = t1 t2 = t2
  Books = {b1, b2}
  Texts <- AllTexts
  MaxAsks = 3
  Tabs = 2
  MaxChanges = 1
  MaxCrashes = 1
  Turns = 4
  MultiBook = 1
  Checks = {t1, t2}
  Limit = 2
  MaxUsed = 4
INVARIANTS TypeOK ReadsAsADialogue ClarifiedOnce StaysWithinBooks LimitHolds
PROPERTIES ShownIsFiled LetInAgain
