SPECIFICATION Spec
CONSTANTS
  Threads = {t1, t2}
  MaxStarts = 2
  MaxStrays = 0
  Orderly = FALSE
INVARIANT ReadyWhenHanded
CHECK_DEADLOCK FALSE
