SPECIFICATION Spec
CONSTANTS
  Depth = {2, 3}
  NR_MAX_IO_QUEUE = 1
  IO_DEPTH = 3
  NR_CID = 2
  Op = {"abort", "identify"}
  MAX_SESSIONS = 2
INVARIANTS  AdminOnce AnswersAreNew  RungIsSeen InFlightExact
