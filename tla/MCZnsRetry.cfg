SPECIFICATION Spec
CONSTANTS
  NR_ZONES = 2
  ZONE_SIZE = 2
  ONESHOT = 2
  WRITE_UNIT = 1
  ZONE_WB_SIZE = 2
  ZRWA = 2
  ZRWAFG = 1
  ZRWA_BUFFER_SIZE = 4
  ZRWA_ZONES = {}
  MAX_NLB = 1
  MAX_FLUSHES = 1
  Queue = {q1}
INVARIANT AppendStaysInZone
