CONSTANTS
  SeqRange = 32
  MaxFrags = 9
  MaxLen = 100
  MAX_GRO_SKBS = 2
  Packets <- ManyFlowPackets
  TcpHash <- ThreeHashes
  InseqTimeout = 0
  OfoTimeout = 1
  CleanTimeout = 1
  Garbage = {FALSE}
  MaxPackets = 5
  MaxCopies = 2
SPECIFICATION ManyFlowsSpec
INVARIANTS PoolAccounting 
PROPERTIES BulkNotOvertaken
CHECK_DEADLOCK FALSE
