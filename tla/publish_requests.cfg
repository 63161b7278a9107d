SPECIFICATION Spec
CONSTANTS
  Drafts = {d1}
  Accounts = {a1}
  Jobs = {j1}
  Workers = {w1, w2}
  Requests = {r1, r2}
  MaxConcurrent = 1
  None = None
  MaxVersion = 1
  LeakyVersions = {1}
  MaxAttempts = 3
  MaxStalled = 1
  MaxFaults = 1
  ExpiryColumn = TRUE
SYMMETRY Symmetry
INVARIANTS DuplicatesCostFaults NoLeakReachesPlatform QueueAndRowSettleTogether
PROPERTY WithdrawnStaysWithdrawn
CHECK_DEADLOCK FALSE
