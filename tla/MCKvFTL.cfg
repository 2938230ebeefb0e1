SPECIFICATION FairSpec
CONSTANTS
  k1 = k1
  k2 = k2
  k3 = k3
  v1 = v1
  v2 = v2
  Keys = {k1, k2, k3}
  Values = {v1, v2}
  Hash <- HashSame3
  HASH_SLOTS = 3
  STORAGE_SIZE = 4
  ALLOCATOR_TYPE = "APPEND_ONLY"
  SMALL_LENGTH = 1
  LARGE_LENGTH = 4
  Lengths = {1}
  Workers = {"w1"}
  Ops = {"store", "batch", "exist", "iter"}
  MAX_SUBS = 2
  NR_ITER = 1
  KEYS_PER_READ = 1
INVARIANTS Remembered IterComplete IterOnce
PROPERTY CommandReturns
