SPECIFICATION Spec
CONSTANTS
  Drafts = {d1}
  Accounts = {a1, a2, a3}
  Jobs = {j1, j2, j3}
  Workers = {w1, w2, w3}
  Requests = {r1}
  MaxConcurrent = 2
  None = None
  MaxVersion = 0
  LeakyVersions = {}
  MaxAttempts = 1
  MaxStalled = 1
  MaxFaults = 0
  ExpiryColumn = TRUE
SYMMETRY Symmetry
INVARIANTS NoSlotLeaks RunsHoldTheirKeys
CHECK_DEADLOCK FALSE
