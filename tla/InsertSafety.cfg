SPECIFICATION Spec
CONSTANTS MaxEntries = 5
          Limits = {0, 1, 2, 3}
          KeyOrders = {"given", "other"}
          Header = "given"
          NoKeys = "nil"
          Continued = "continued"
INVARIANTS TypeOK StoredInOrder YesMeansAll DoubtBounded StatementsWellFormed OwnColumns
CHECK_DEADLOCK FALSE
