CONSTANTS
  LocalIds <- Local
  Requests <- Asked
  StopIds <- Local
  MaxWatches = 1
  MaxOpens = 1
  MaxCrashes = 0
SPECIFICATION Spec
INVARIANTS CloseKillsAll
CHECK_DEADLOCK FALSE
