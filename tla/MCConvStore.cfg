SPECIFICATION StoreSpec
CONSTANTS
  NCHS = 1
  LUNS = 1
  WLS = 2
  ONESHOT = 1
  Line = {l1, l2, l3, l4, l5, l6}
  NLPN = 2
  GC_THRES = 2
  UINT_MOD = 64
  UNMAPPED_PPA = UNMAPPED_PPA
  Val = {v1, v2}
  NoData = NoData
SYMMETRY StoreSymmetry
INVARIANT PInv
 
