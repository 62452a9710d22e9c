SPECIFICATION FairSpec
CONSTANTS
  NumCpu = 2
  NumThreads = 2
  Sems = {}
  SemInit <- NoSems
  WorkerProg <- PairProg
  IrqKinds = {"rx", "tx"}
  IrqProg <- PairIrqs
  IrqCpus = {1}
  NoIrq = NoIrq
  QueueSize = 2
  AllowNested = TRUE
  AssertsEnabled = TRUE
  Coincide = TRUE
  MaxArrivals = 4
  MaxTicks = 3
INVARIANTS CopiesAgree WorkConserving Suspended
PROPERTIES InterruptsEnd
