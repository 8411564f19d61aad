SPECIFICATION Spec
CONSTANTS ResultSets = {r1, r2}
          MaxRows = 2
          Modes = {TRUE}
          MaxWrites = 3
SYMMETRY Symmetry
INVARIANTS TypeOK DeliveredInOrder StableRowsDelivered CountHolds ClosedWithLastUser
PROPERTY CursorContract
CHECK_DEADLOCK FALSE
