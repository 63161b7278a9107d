CONSTANTS
  Steps <- MCSteps
  MaxEvents = 2
  Polls = {p1, p2}
  Deliveries = {d1, d2}
  MaxBusy = 2
  MaxFaults = 1
  None = None
SPECIFICATION Spec
INVARIANTS
  TypeOK
  MailsExplained
  CursorFollowsLog
  SettledPlanIsRight
  LadderStopsAtPurchase
PROPERTIES
  SuppressedStaysSilent
SYMMETRY Symmetry
CHECK_DEADLOCK FALSE
