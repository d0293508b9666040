CONSTANTS
  LocalIds <- Local
  Requests <- Asked
  StopIds <- Local
  MaxWatches = 2
  MaxOpens = 2
  MaxCrashes = 1
SPECIFICATION FairSpec
INVARIANTS NeverForgotten RegistryIsExact OnlyLateStartsSurvive
PROPERTIES StopsEnd
CHECK_DEADLOCK FALSE
