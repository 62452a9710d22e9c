SPECIFICATION Spec
CONSTANTS
  Workers = {w1, w2}
  Invocations <- MCInvocations
  Known <- MCKnown
  Undecodable = FALSE
  MaxFaults = 0
  Crash = Crash
  None = None
  SuiteList <- MCSuites
  SuiteType <- MCTypes
  TypeLines <- MCLines
  ExampleTests <- MCExamples
  PythonTests <- MCScripts
  Runnable = {"ex", "py"}
  ValgrindSkips = {"unit1"}
  NscSkips = {"nsc"}
  NscEnabled = FALSE
  ExamplesEnabled = TRUE
  BindingsEnabled = TRUE
CHECK_DEADLOCK FALSE
INVARIANTS ValgrindReported
