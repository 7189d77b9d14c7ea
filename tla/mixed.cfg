CONSTANTS
  SeqRange = 32
  MaxFrags = 3
  MaxLen = 100
  MAX_GRO_SKBS = 1
  Packets <- OneFlowPackets
  TcpHash <- ThreeHashes
  InseqTimeout = 0
  OfoTimeout = 1
  CleanTimeout = 1
  Garbage = {TRUE}
  MaxPackets = 5
  MaxCopies = 2
SPECIFICATION OneFlowSpec
INVARIANTS TypeOK HeadIsQueueHead Conservation QueueOrdered MergesResegmentable
PROPERTIES SeqNextMonotone
CHECK_DEADLOCK FALSE
