SPECIFICATION FairSpec
CONSTANTS
  Threads = {t1, t2, t3}
  MaxStarts = 3
  MaxStrays = 2
  Orderly = TRUE
INVARIANTS TypeOK OnlyLateAstray ReadyWhenHanded CountIsThreads
PROPERTY CallsReturn
CHECK_DEADLOCK FALSE
