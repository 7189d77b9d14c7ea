CONSTANTS
  SeqRange = 32
  MaxFrags = 9
  MaxLen = 100
  MAX_GRO_SKBS = 1
  Packets <- TwoSegments
  TcpHash <- OneHash
  InseqTimeout = 0
  OfoTimeout = 1
  CleanTimeout = 1
  Garbage = {FALSE}
  MaxPackets = 1
  MaxCopies = 1
  Cpus = {c1, c2}
  TimerRaces = TRUE
  MaxDisables = 1
SPECIFICATION FairNapiSpec
INVARIANTS NapiTypeOK Ownership QuietWhenDown
PROPERTIES DisableTerminates
CHECK_DEADLOCK FALSE
