CONSTANTS
  SeqRange = 32
  MaxFrags = 9
  MaxLen = 100
  MAX_GRO_SKBS = 1
  Packets <- TwoSegments
  TcpHash <- OneHash
  InseqTimeout = 0
  OfoTimeout = 1
  CleanTimeout = 1
  Garbage = {FALSE}
  MaxPackets = 2
  MaxCopies = 1
  Cpus = {c1, c2}
  TimerRaces = FALSE
  MaxDisables = 0
SPECIFICATION FairNapiSpec
INVARIANTS HeldHasWakeup
PROPERTIES HeldEventuallyUp
CHECK_DEADLOCK FALSE
