SPECIFICATION FairSpec
CONSTANTS
  Nobody = Nobody
  Procs = {a, b, c}
  ByHand = {a, b}
  Replacing = {b}
  MaxCrashes = 1
  MaxGen = 1
  Dashboard = FALSE
  Ready = 2
  Grace = 6
  Watch = 10
  Polite = 2
  Firm = 1
  Every = 9
  Build = 1
  Drain = {7}
INVARIANTS
  LeaseIsTheTitle
PROPERTIES
  RetiredInstanceGoes
  EveryStartSettles
CHECK_DEADLOCK FALSE
