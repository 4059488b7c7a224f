SPECIFICATION Spec
CONSTANTS
  Requests = {r1, r2}
  MaxSteps = 1
  MaxFaults = 0
  Late = TRUE
  Durable = TRUE
  r1 = r1
  r2 = r2
CHECK_DEADLOCK FALSE
PROPERTY ResolvedIsKept
