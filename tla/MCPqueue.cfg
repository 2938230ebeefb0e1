SPECIFICATION Spec
CONSTANTS
  Lines = {l1, l2, l3, l4, l5, l6, l7}
  MAX_PRI = 3
SYMMETRY LineSymmetry
INVARIANTS HeapOrder PosAgrees
PROPERTY ImplementsVictimQueue
