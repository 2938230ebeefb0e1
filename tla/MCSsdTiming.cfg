SPECIFICATION Spec
CONSTANTS
  Lun = {l1, l2}
  MAX_CREDITS = 2
  NR_CREDIT_ENTRIES = 3
  UNIT_TIME_INTERVAL = 2
  XFER_LAT = 1
  RD_LATS = {1}
  PG_WR_LAT = 2
  BLK_ER_LAT = 3
  MAX_CH_XFER_SIZE = 2
  Size = {1, 3}
  AHEAD = 2
  MAX_CLOCK = 8
  MAX_TIME = 8
SYMMETRY LunSymmetry
INVARIANT UntouchedIsFull
PROPERTIES LunExclusive ImplementsSchedule
