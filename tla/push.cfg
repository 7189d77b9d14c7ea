CONSTANTS
  SeqRange = 32
  MaxFrags = 9
  MaxLen = 100
  MAX_GRO_SKBS = 1
  Packets <- PushPackets
  TcpHash <- OneHash
  InseqTimeout = 0
  OfoTimeout = 1
  CleanTimeout = 1
  Garbage = {FALSE}
  MaxPackets = 4
  MaxCopies = 1
SPECIFICATION Spec
PROPERTIES NoOvertaking
CHECK_DEADLOCK FALSE
