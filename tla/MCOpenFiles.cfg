SPECIFICATION Spec
CONSTANTS
  None = None
  Free = Free
  End = End
  Clusters = {c1, c2, c3, c4}
  PerCluster = 1
  Paths = {p1, p2}
  MaxOpen = 2
  MaxPos = 4
  Positions = {0, 2}
  Counts = {1, 4}
SYMMETRY Symmetry
CHECK_DEADLOCK FALSE
INVARIANTS
  TypeOK
  
  
