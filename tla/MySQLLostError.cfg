CONSTANTS
  ResultSets = {r1}
  NoReader = NoReader
  Orphan = Orphan
  MaxRows = 2
  Modes = {FALSE}
  Discards = FALSE
SPECIFICATION Spec
INVARIANT ErrorsReported
