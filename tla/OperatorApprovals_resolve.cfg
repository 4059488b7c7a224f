SPECIFICATION FairSpec
CONSTANTS
  Requests = {r1, r2, r3}
  MaxSteps = 2
  MaxFaults = 1
  Late = TRUE
  Durable = FALSE
  r1 = r1
  r2 = r2
  r3 = r3
CHECK_DEADLOCK FALSE
INVARIANTS
  ToolNeedsApproval
  StatusHonest
PROPERTY ActionsSettle
