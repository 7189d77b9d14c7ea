CONSTANTS
  SeqRange = 32
  MAX_REORDER_COUNT = 2
  Addresses = {a1, a2, a3, a4, a5}
  NULL = NULL
  Packets <- Connection
  MaxPackets = 6
  MaxCopies = 1
SPECIFICATION Spec
SYMMETRY Symmetric
INVARIANTS TypeOK WellLinked Bounded AtMostOnce Sorted
PROPERTIES LostOnlyInFrontOfStaleHead NoOvertaking SeqNextMonotone
CHECK_DEADLOCK FALSE
