CONSTANTS
  r1 = r1
  r2 = r2
  r3 = r3
  Replies <- ThreeReplies
  ForgetsAnswer = TRUE
  MaxCrashes = 1
  MaxKills = 1
SPECIFICATION FairSpec
INVARIANTS WithdrawnIsNeverHandled OwnRefusal AnsweredWasHandled
PROPERTIES RepliesReturn
CHECK_DEADLOCK FALSE
