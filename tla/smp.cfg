CONSTANTS
  SeqRange = 32
  MAX_REORDER_COUNT = 1
  Addresses = {a1, a2}
  NULL = NULL
  Packets <- ThreeSegments
  MaxPackets = 3
  MaxCopies = 1
  CPUs = {c1, c2}
  IrqSave = TRUE
SPECIFICATION SmpSpec
 
PROPERTIES  ReinjectedAfterNext
CHECK_DEADLOCK FALSE
