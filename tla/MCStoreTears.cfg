CONSTANTS
  StoreParts = {"naps"}
  n1 = n1
  t1 = t1
  t2 = t2
  a = a
  Naps = {n1}
  Unserialized = {}
  Turns = {t1, t2}
  Texts = {a}
  MaxLog = 3
  MaxTries = 2
  MaxTears = 2
  MaxKills = 1
  Starts <- Mixed
  MaxEntries = 0
  MaxOdd = 0
  OlderStep = 1
  TailStep = 1
  Budgets = {}
  Recent = 1
  ReaderIds = {}
  MaxLines = 0
  MaxMishaps = 0
  Replies = {}
  MaxPermissions = 0
  TransientRetries = 0
  StartAttempts = 1
  MaxOcFaults = 0
SPECIFICATION FairStoreSpec
INVARIANTS KeptEntriesStay
PROPERTIES AppendsEnd AllSummarized
