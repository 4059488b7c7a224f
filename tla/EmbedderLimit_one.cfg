SPECIFICATION FairSpec
CONSTANTS
  Requests = {r1, r2}
  Instances = {i1}
  Sizes = {1, 2, 3}
  Capacity = 2
  MaxWait = 2
  MaxAttempts = 2
  MaxConcurrent = 1
  RetryAfter = {1}
  MaxLatency = 1
  i1 = i1
  r1 = r1
  r2 = r2
INVARIANTS
  RateKept
  GateHolds
PROPERTY Ends
