SPECIFICATION LiveSpec
CONSTANTS
  NCHS = 2
  LUNS = 1
  WLS = 1
  ONESHOT = 1
  Line = {1, 2, 3, 4, 5}
  NLPN = 2
  GC_THRES = 2
  UINT_MOD = 64
  UNMAPPED_PPA = UNMAPPED_PPA
INVARIANTS NoPanic TypeOK MapInverse LineCounts LinePartition CreditInHand
PROPERTY WriteReturns
