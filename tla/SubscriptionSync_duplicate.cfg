SPECIFICATION Spec
CONSTANTS
  Subs = {s1, s2}
  Prices = {trial, basic, pro}
  Free = {trial}
  Featured = {basic, pro}
  Workers = {w1}
  None = None
  Moves = {"overlap"}
  Ordered = TRUE
  MaxEvents = 8
  MaxFaults = 0
  s1 = s1
  s2 = s2
  w1 = w1
  trial = trial
  basic = basic
  pro = pro
SYMMETRY Symmetry
CHECK_DEADLOCK FALSE
INVARIANTS
  OnePaidSubscription
