SPECIFICATION Spec
CONSTANTS
  Operations = {o1, o2}
  Jobs = {j1, j2}
  Costs = {2}
  Tokens = {0, 2}
  Pack = 2
  Reward = 2
  CallsPerOp = 1
  MaxInFlight = 1
  MaxBegun = 4
  MaxResets = 2
  MaxAwards = 1
  MaxRuns = 2
  MaxUnacked = 1
  SequentialSet = FALSE
  o1 = o1
  o2 = o2
  j1 = j1
  j2 = j2
SYMMETRY Symmetry
CHECK_DEADLOCK FALSE
INVARIANTS
  LedgerUnlessRepeated
  ToldOncePerLapseUnlessBlurred
  DebtBounded
