CONSTANTS
  SeqRange = 32
  Acks <- Acknowledgements
  Packets <- SomePackets
  CPUs = {c1, c2}
  Serialised = FALSE
  Period = 3
  Isn = 25
  Segments = 7
  MaxAcks = 7
  MaxPackets = 6
  MaxSwaps = 9
  MaxRaces = 5
  MaxDrops = 10
SPECIFICATION Spec
INVARIANTS  OrderRestored NeighboursOnly AccountedUnlessOverlapped OneInPeriod EndToEndOrder
PROPERTIES ProgressSettlesSaved AckBufferSpec PairBufferSpec WholeConnectionArrives
CHECK_DEADLOCK FALSE
