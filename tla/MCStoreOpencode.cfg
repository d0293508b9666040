CONSTANTS
  StoreParts = {"opencode"}
  Naps = {}
  Unserialized = {}
  Turns = {}
  Texts = {}
  MaxLog = 2
  MaxTries = 1
  MaxTears = 0
  MaxKills = 0
  Starts <- LongPair
  MaxEntries = 0
  MaxOdd = 0
  OlderStep = 1
  TailStep = 1
  Budgets = {}
  Recent = 1
  ReaderIds = {}
  MaxLines = 0
  MaxMishaps = 0
  Replies = {}
  MaxPermissions = 0
  TransientRetries = 2
  StartAttempts = 2
  MaxOcFaults = 0
SPECIFICATION StoreSpec
PROPERTIES RemindsTheUnreported
CHECK_DEADLOCK FALSE
