SPECIFICATION Spec
CONSTANTS
  Requests = {r1, r2}
  Instances = {i1, i2}
  Sizes = {1}
  Capacity = 1
  MaxWait = 1
  MaxAttempts = 1
  MaxConcurrent = 1
  RetryAfter = {1}
  MaxLatency = 2
  i1 = i1
  i2 = i2
  r1 = r1
  r2 = r2
SYMMETRY Symmetry
INVARIANT RateKept
