SPECIFICATION Spec
CONSTANTS
  Keys = {k1, k2, k3}
  NoKey = NoKey
  Callers = {c1, c2}
  Cost = 2
  Capacity = 4
  Idle = 5
  MaxBuckets = 2
  MaxDelay = 1
  MaxTime = 8
SYMMETRY MCSymmetry
INVARIANTS
  TypeOK
  WindowBound
  TableBounded
PROPERTIES
  RefusedByActiveOnly
