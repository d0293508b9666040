CONSTANTS
  p1 = p1
  p2 = p2
  p3 = p3
  Procs = {p1, p2, p3}
  Can <- CanTwoShells
  Crashing = {}
  MaxLive = 1
  MaxLog = 1
  MaxInodes = 1
  MaxPosts = 2
  Scenarios = {"races"}
  Reports = {}
  MaxCrashes = 0
SPECIFICATION ScenarioSpec
PROPERTIES MergedIsReadOnly
