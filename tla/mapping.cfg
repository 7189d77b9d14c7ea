CONSTANTS
  nf0 = nf0
  nf1 = nf1
  Ports <- TwoPorts
  RingSize = 4
  Lines = 3
  Sizes = {1, 2}
  StopLines = 2
  WakeSlots = 2
  WakeLines = 2
  RxLines = 1
  TcntMax = 3
  MaxTraffic = 5
SPECIFICATION MappingFailsSpec
INVARIANTS FitsBehindOthers
CHECK_DEADLOCK FALSE
