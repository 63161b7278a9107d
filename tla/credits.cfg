SPECIFICATION Spec
CONSTANTS
  Requests = {r1, r2}
  Keys = {k1, k2}
  Audits = {a1}
  Sessions = {s1}
  MaxPeriod = 2
  MaxFaults = 1
  MonthlyCredits = 1
  ResidualCredits = 1
  AuditCredits = 1
  DraftCredits = 2
  PackCredits = 2
  GrantsAsPlatform = TRUE
  None = None
SYMMETRY Symmetry
INVARIANTS TypeOK OneRowPerReference ChargedDraftExists HostedDraftIsCharged GateBoundsOverdraft
CHECK_DEADLOCK FALSE
