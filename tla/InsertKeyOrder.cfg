SPECIFICATION Spec
CONSTANTS MaxEntries = 3
          Limits = {0, 1, 2, 3}
          KeyOrders = {"given", "other"}
          Header = "given"
          NoKeys = "nil"
          Continued = "continued"
INVARIANT IdenticalKeysSuffice
CHECK_DEADLOCK FALSE
