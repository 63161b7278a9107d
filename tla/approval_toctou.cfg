SPECIFICATION Spec
CONSTANTS
  Drafts = {d1}
  Accounts = {a1}
  Jobs = {j1}
  Workers = {w1}
  Requests = {r1, r2}
  MaxConcurrent = 1
  None = None
  MaxVersion = 1
  LeakyVersions = {1}
  MaxAttempts = 2
  MaxStalled = 1
  MaxFaults = 0
  ExpiryColumn = TRUE
PROPERTY ApprovalLandsOnPreviewedText
CHECK_DEADLOCK FALSE
