CONSTANTS
  ResultSets = {r1}
  NoReader = NoReader
  Orphan = Orphan
  MaxRows = 2
  Modes = {TRUE}
  Discards = TRUE
SPECIFICATION Spec
INVARIANT RefusedOnlyWhileReading
