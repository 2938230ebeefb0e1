SPECIFICATION FairSpec
CONSTANTS
  NR_MAX_PARALLEL_IO = 3
  NREQ = 3
  QDEPTH = 3
  MAXT = 1
  Delay = {0, 1}
INVARIANTS ListsApart ActsOnQueued ExactlyOnce SortedAhead
PROPERTY EveryCommandCompletes
CHECK_DEADLOCK FALSE
