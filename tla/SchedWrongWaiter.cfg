SPECIFICATION Spec
CONSTANTS
  NumCpu = 2
  NumThreads = 3
  Sems = {"join", "ops"}
  SemInit <- JoinInit
  WorkerProg <- JoinProg
  IrqKinds = {"rx"}
  IrqProg <- JoinIrqs
  IrqCpus = {1}
  NoIrq = NoIrq
  QueueSize = 2
  AllowNested = FALSE
  AssertsEnabled = TRUE
  Coincide = FALSE
  MaxArrivals = 3
  MaxTicks = 3
PROPERTIES CallerBlocks
