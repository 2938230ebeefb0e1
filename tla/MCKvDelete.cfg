SPECIFICATION Spec
CONSTANTS
  k1 = k1
  k2 = k2
  k3 = k3
  v1 = v1
  v2 = v2
  Keys = {k1, k2, k3}
  Values = {v1}
  Hash <- HashWraps
  HASH_SLOTS = 3
  STORAGE_SIZE = 16
  ALLOCATOR_TYPE = "BITMAP"
  SMALL_LENGTH = 2
  LARGE_LENGTH = 3
  Lengths = {1, 2}
  Workers = {"w1"}
  Ops = {"store", "delete", "retrieve", "iter"}
  MAX_SUBS = 1
  NR_ITER = 1
  KEYS_PER_READ = 1
SYMMETRY KeySymmetry
INVARIANTS ChainsEnd  Answers FoundIsCurrent
