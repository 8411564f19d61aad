CONSTANTS
  ResultSets = {r1, r2}
  NoReader = NoReader
  Orphan = Orphan
  MaxRows = 2
  Modes = {TRUE}
  Discards = FALSE
SPECIFICATION FairSpec
INVARIANTS TypeOK OneReader InStep ClosedWithLastUser RefusedOnlyWhileReading
PROPERTIES CursorContract ConnectionRecovers
