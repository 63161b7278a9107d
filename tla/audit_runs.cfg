CONSTANTS
  Audits = {a1, a2, a3, a4, a5}
  Crons = {c1}
  Requests = {r1}
  Workers = {w1}
  Attempts = 2
  MaxRepeats = 1
  MonthlyCap = 1
  MaxStalled = 1
  MaxFaults = 2
  None = None
SPECIFICATION FairSpec
INVARIANTS
  TypeOK
  DeliveredIsCharged
  ScoresExplained
  ScheduledIsQueued
  RecoveredIsMeasured
  OneRowPerJob
PROPERTIES
  CompleteStands
  RowsAreDecided
CHECK_DEADLOCK FALSE
