CONSTANTS
  Payload = {0, 1, 2, 3, 4}
  Postings <- MCPostings
  MinCapacity = 2
  TransportMax = 3
  GrowthPolicy <- MCGrowthPolicy
SPECIFICATION MCSpec
INVARIANTS
  TypeOK
  ConsumerBufferIsStable
  MirroredBacklog
PROPERTIES
  ImplementsFifo
CHECK_DEADLOCK TRUE
