SPECIFICATION FairSpec
CONSTANTS
  p1 = p1 p2 = p2 t1 = t1 t2 = t2 irq = irq
  PacketThreads = {p1}
  EventThreads = {t1, t2}
  Irq = irq
  CthenB = CthenB
  BthenC = BthenC
  AllCepOps <- TwoOps
  Event1 <- First
  Event2 <- Second
  Types <- Kinds
  Window = 2
  InfoIds <- Ids
  Own <- OneRoots
  MaxEvents = 3
  Spaced = TRUE
CHECK_DEADLOCK FALSE
INVARIANTS TypeOK ResultsCollected NobodyStranded NothingLeftOver
PROPERTIES ImplementsDetection EveryEventCollected
