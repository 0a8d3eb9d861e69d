SPECIFICATION FairSpec
CONSTANTS
  Threads = {t1}
  Finishes = TRUE
CHECK_DEADLOCK FALSE
INVARIANT DeletedAfterJoin
PROPERTIES InitializeReturns AccessReturns OnlyRoutineHangs
