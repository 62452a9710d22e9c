SPECIFICATION FairSpec
CONSTANTS
  Twelve = 3
  Eight = 2
  Header = 3
  TxCal = 2
  Lens = {4, 6}
  Powers = {0, 3}
  CcaDelays = {0, 1, 2}
  Eager = FALSE
  MaxArrivals = 3
  MaxRequests = 2
  MaxSwitches = 1
INVARIANTS TypeOK NoFatal MediumKnown TimersMatch PinAgrees DeliveredClean
PROPERTIES FreeSignalled
