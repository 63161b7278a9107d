SPECIFICATION FairSpec
CONSTANTS
  Drafts = {d1}
  Accounts = {a1}
  Jobs = {j1}
  Workers = {w1, w2}
  Requests = {r1}
  MaxConcurrent = 1
  None = None
  MaxVersion = 1
  LeakyVersions = {1}
  MaxAttempts = 2
  MaxStalled = 1
  MaxFaults = 2
  ExpiryColumn = TRUE
INVARIANTS TypeOK NoUnexplainedDuplicate RecordedIsSettled
PROPERTIES AcceptedJobIsSettled ProcessingIsTransient
CHECK_DEADLOCK FALSE
