SPECIFICATION FairSpec
CONSTANTS
  Events = {e1}
  Requests = {r1, r2}
  Workers = {w1, w2}
  None = None
  Attempts = 3
  MaxStalled = 1
  MaxFaults = 1
  MaxCrashes = 1
  MaxLockLosses = 1
INVARIANTS
  OneJobPerEvent
  ExclusiveProcessing
  OutcomeHonest
PROPERTIES
  ImplementsContract
  QueuedSettles
  AcceptedIsProcessedUnlessFaulty
CHECK_DEADLOCK FALSE
