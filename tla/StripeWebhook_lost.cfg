SPECIFICATION FairSpec
CONSTANTS
  Events = {e1}
  Requests = {r1, r2}
  Workers = {w1}
  None = None
  Attempts = 3
  MaxStalled = 1
  MaxFaults = 1
  MaxCrashes = 1
  MaxLockLosses = 0
PROPERTIES
  AcceptedIsProcessed
CHECK_DEADLOCK FALSE
