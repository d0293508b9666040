CONSTANTS
  p1 = p1
  p2 = p2
  p3 = p3
  Procs = {p1, p2, p3}
  Can <- CanOneShell
  Crashing = {p1, p2, p3}
  MaxLive = 1
  MaxLog = 2
  MaxInodes = 3
  MaxPosts = 2
  Scenarios = {"alone", "races", "inbox"}
  Reports <- ThreeReports
  MaxCrashes = 1
SPECIFICATION FairScenarioSpec
INVARIANTS OneOwner ChatSeesOpenThread SentOnce LostOnlyByCrash
PROPERTIES ThreadLife QueueIsDurable HoldSendsAMatch ReportsArrive
