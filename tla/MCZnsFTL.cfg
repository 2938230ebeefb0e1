SPECIFICATION Spec
CONSTANTS
  NR_ZONES = 2
  ZONE_SIZE = 3
  ONESHOT = 2
  WRITE_UNIT = 1
  ZONE_WB_SIZE = 2
  ZRWA = 1
  ZRWAFG = 1
  ZRWA_BUFFER_SIZE = 2
  ZRWA_ZONES = {0}
  MAX_NLB = 2
  MAX_FLUSHES = 1
  Queue = {q1}
INVARIANTS ResourceCounts WritePointer 
