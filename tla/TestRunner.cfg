SPECIFICATION FairSpec
CONSTANTS
  Workers = {w1, w2}
  Invocations <- MCInvocations
  Known <- MCKnown
  Undecodable = TRUE
  MaxFaults = 1
  Crash = Crash
  None = None
  SuiteList <- MCSuites
  SuiteType <- MCTypes
  TypeLines <- MCLines
  ExampleTests <- MCExamples
  PythonTests <- MCScripts
  Runnable = {"ex", "py"}
  ValgrindSkips = {"unit1"}
  NscSkips = {"nsc"}
  NscEnabled = FALSE
  ExamplesEnabled = TRUE
  BindingsEnabled = TRUE
CHECK_DEADLOCK FALSE
INVARIANTS TypeOK NoJobLost ExitCode 
PROPERTIES Terminates WorkersEnd ImplementsPool
