CONSTANTS
  Parts = {"claude", "turn", "send-it", "schedule", "stall", "workers"}
  Prompts <- OnePrompt
  Interrupts <- OneInterrupt
  MaxAsks = 2
  MayDie = TRUE
  Lines <- TheLines
  Reports <- OneReport
  MaxRetries = 2
  MaxKeeps = 1
  MaxStrays = 1
  Plans <- ThePlans
  StepsOf <- TheSteps
  MaxTurns = 3
  JudgeRounds = 2
  MaxGoes = 2
  MaxQuits = 1
  MaxProposals = 2
  MaxRestarts = 1
  Grace = 1
  MaxTime = 3
  MaxFaults = 1
  MaxSessions = 2
  MaxUpsets = 1
SPECIFICATION PartSpec
INVARIANTS
  OnePlace ViewIsTrue NothingLeftBehind
  OwnReply KnowsThePerson
  ApprovedOnlyWhileDriven EarlierStepsAreMet RunIsBounded
  NoOrphanWorkers
  ContinuedOncePerStamp
  CloseCompletes
PROPERTIES NotForgotten OnlyLateWorkIsLost
CHECK_DEADLOCK FALSE
