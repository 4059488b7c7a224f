SPECIFICATION PlansSpec
CONSTANTS
  Subs = {s1}
  Prices = {trial, basic, pro}
  Free = {trial}
  Featured = {trial, basic}
  Workers = {w1, w2}
  None = None
  Moves = {"trial", "dunning", "end", "cancel", "change", "dashboard"}
  Ordered = FALSE
  MaxEvents = 4
  MaxFaults = 1
  CatalogueRequests = {w1, w2}
  Product = p1
  Plans = {p2}
  Dashboard = None
  MaxDashboard = 2
  MaxCatalogueFaults = 1
  Processes = {w1, w2}
  Modules = {p1}
  Member = p2
  MaxBoots = 2
  MaxRoleDeletions = 1
  Contents = {w1, w2}
  Related = {e1, e2}
  Edits = {q1, q2}
  NoContent = None
  MaxRecordFaults = 1
  s1 = s1
  w1 = w1
  w2 = w2
  trial = trial
  basic = basic
  pro = pro
  p1 = p1
  p2 = p2
SYMMETRY Symmetry
CHECK_DEADLOCK FALSE
INVARIANTS
  
  CatalogueSound
  PermissionsSound
  
