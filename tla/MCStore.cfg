CONSTANTS
  StoreParts = {"naps", "view", "index", "opencode"}
  n1 = n1
  n2 = n2
  n3 = n3
  a = a
  b = b
  Naps = {n1, n2, n3}
  Unserialized = {n3}
  Turns = {}
  Texts = {a, b}
  MaxLog = 2
  MaxTries = 1
  MaxTears = 0
  MaxKills = 1
  Starts <- LongPair
  MaxEntries = 8
  MaxOdd = 1
  OlderStep = 4
  TailStep = 2
  Budgets = {3, 5}
  Recent = 2
  ReaderIds = {"r1", "r2"}
  MaxLines = 2
  MaxMishaps = 2
  Replies <- OneReply
  MaxPermissions = 1
  TransientRetries = 1
  StartAttempts = 2
  MaxOcFaults = 1
SPECIFICATION StoreSpec
INVARIANTS
  WrittenOnce ParentsFollowChildren NobodyPaysTwice
  FollowsServer
  ViewIsWhole ViewFits
  SeesCommitted SweepsOnlyOrphans
