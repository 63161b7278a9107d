SPECIFICATION Spec
CONSTANTS
  Requests = {r1, r2}
  Keys = {k1}
  Audits = {}
  Sessions = {}
  MaxPeriod = 1
  MaxFaults = 0
  MonthlyCredits = 2
  ResidualCredits = 1
  AuditCredits = 1
  DraftCredits = 1
  PackCredits = 2
  GrantsAsPlatform = FALSE
  None = None
SYMMETRY Symmetry
INVARIANT OneDraftPerKey
CHECK_DEADLOCK FALSE
