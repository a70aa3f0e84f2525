SPECIFICATION Spec
CONSTANTS
  Nobody = Nobody
  Procs = {a, b, c}
  ByHand = {a}
  Replacing = {}
  MaxCrashes = 0
  MaxGen = 2
  Dashboard = FALSE
  Ready = 3
  Grace = 6
  Watch = 2
  Polite = 2
  Firm = 1
  Every = 4
  Build = 5
  Drain = {9}
PROPERTIES
  AlwaysHeard
CHECK_DEADLOCK FALSE
