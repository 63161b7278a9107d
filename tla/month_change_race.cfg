SPECIFICATION Spec
CONSTANTS
  Requests = {r1, r2}
  Keys = {}
  Audits = {}
  Sessions = {s1}
  MaxPeriod = 1
  MaxFaults = 0
  MonthlyCredits = 2
  ResidualCredits = 1
  AuditCredits = 1
  DraftCredits = 1
  PackCredits = 2
  GrantsAsPlatform = FALSE
  None = None
SYMMETRY Symmetry
INVARIANT MonthlyGrantIsSpendable
CHECK_DEADLOCK FALSE
