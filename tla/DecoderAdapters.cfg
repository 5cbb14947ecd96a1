SPECIFICATION Spec
CONSTANTS
  StreamLen = 4
  Expand = 4
  Hold = 4
  StrictHold = 8
  WriterHold = 2
  SCRATCH = 2
  IN_BUF = 3
  Limits = {6, 11, 12}
  USIZE = 8
  MaxExtra = 2
  MaxRoom = 3
INVARIANTS NothingFedTwice EndIsComplete LimitErrorIsTrue
PROPERTIES WholeStreamNotRefused NothingHeldBack ImplementsPipe CallsAnswer
