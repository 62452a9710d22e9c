SPECIFICATION Spec
CONSTANTS
  p1 = p1 p2 = p2 t1 = t1 t2 = t2 irq = irq
  PacketThreads = {p1, p2}
  EventThreads = {t1, t2}
  Irq = irq
  CthenB = CthenB
  BthenC = BthenC
  AllCepOps <- OneOp
  Event1 <- First
  Event2 <- Second
  Types <- Kinds
  Window = 2
  InfoIds <- Ids
  Own <- Roots
  MaxEvents = 2
  Spaced = FALSE
CHECK_DEADLOCK FALSE
INVARIANT ResultsCollected
