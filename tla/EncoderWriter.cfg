SPECIFICATION Spec
CONSTANTS
  Atom = 1
  Flushes = TRUE
  SCRATCH = 2
  MaxBytes = 3
  MaxFlushes = 2
INVARIANTS TypeOK NothingLostOrRepeated NothingFedTwice FinishIsComplete FlushIsComplete
PROPERTY CallsReturn
CHECK_DEADLOCK FALSE
