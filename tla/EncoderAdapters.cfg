SPECIFICATION Spec
CONSTANTS
  Atom = 1
  Flushes = TRUE
  SCRATCH = 2
  IN_BUF = 3
  MaxBytes = 4
  MaxInput = 6
  MaxRoom = 3
INVARIANTS PendingTakesNothing OneMarkerPerFlush FedInOrder EndIsComplete
PROPERTIES ImplementsPipe ShutdownCompletes
