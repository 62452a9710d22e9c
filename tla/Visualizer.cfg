SPECIFICATION FairSpec
CONSTANTS
  Periods = {1, 2}
  MaxNow = 3
  MaxEvents = 3
  MaxPauses = 2
  None = None
CHECK_DEADLOCK FALSE
INVARIANTS TypeOK PauseShownOnce
PROPERTIES PlayAdvances QuitEnds
