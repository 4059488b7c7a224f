SPECIFICATION Spec
CONSTANTS
  Operations = {o1}
  Jobs = {j1}
  Costs = {4}
  Tokens = {3}
  Pack = 3
  Reward = 1
  CallsPerOp = 1
  MaxInFlight = 1
  MaxBegun = 1
  MaxResets = 0
  MaxAwards = 0
  MaxRuns = 1
  MaxUnacked = 0
  SequentialSet = FALSE
  o1 = o1
  j1 = j1
SYMMETRY Symmetry
CHECK_DEADLOCK FALSE
INVARIANTS
  Ledger
