SPECIFICATION Spec
CONSTANTS
  Twelve = 3
  Eight = 2
  Header = 3
  TxCal = 2
  Lens = {4, 6}
  Powers = {0, 3}
  CcaDelays = {0, 1, 2}
  Eager = FALSE
  MaxArrivals = 3
  MaxRequests = 2
  MaxSwitches = 0
INVARIANTS RefusedNotSent
