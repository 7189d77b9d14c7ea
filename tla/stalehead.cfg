CONSTANTS
  SeqRange = 32
  MAX_REORDER_COUNT = 1
  Addresses = {a1, a2, a3, a4}
  NULL = NULL
  Packets <- Connection
  MaxPackets = 6
  MaxCopies = 1
SPECIFICATION Spec
SYMMETRY Symmetric
INVARIANTS NoneLost
CHECK_DEADLOCK FALSE
