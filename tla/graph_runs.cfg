CONSTANTS
  draft = draft
  ask = ask
  publish = publish
  harvest = harvest
  bet = bet
  spawn = spawn
  Nodes = {draft, ask, publish, harvest, bet, spawn}
  Kind <- MCKind
  Deps <- MCDeps
  Optional = {bet}
  Runs = {1}
  MaxTaps = 2
  RunsPerTick = 1
  Budget = 1
  Cap = 1
  Threshold = 1
  MaxFaults = 1
  None = None
SPECIFICATION FairSpec
INVARIANTS
  TypeOK
  NothingPublishedWithoutApproval
  NoUnapprovedDuplicate
  EffectsAtMostOnce
  AttemptsWithinBudget
  ClosedRunAsksNothing
  UnracedYesStands
PROPERTIES
  SucceededRunPublished
  RunEnds
  ImplementsAgentGraph
CHECK_DEADLOCK FALSE
