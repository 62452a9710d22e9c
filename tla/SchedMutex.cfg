SPECIFICATION FairSpec
CONSTANTS
  NumCpu = 2
  NumThreads = 5
  Sems = {"A"}
  SemInit <- SemOne
  WorkerProg <- SemProg
  IrqKinds = {}
  IrqProg <- NoIrqProg
  IrqCpus = {}
  NoIrq = NoIrq
  QueueSize = 1
  AllowNested = FALSE
  AssertsEnabled = TRUE
  Coincide = FALSE
  MaxArrivals = 0
  MaxTicks = 1
INVARIANTS TypeOK  Conserved WaitersBlocked
PROPERTIES ImplementsSemaphore RunnableRuns WaiterEnters
