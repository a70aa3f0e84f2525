SPECIFICATION Spec
CONSTANTS
  e1 = e1
  e2 = e2
  b1 = b1
  b2 = b2
  s1 = s1
  s2 = s2
  Nobody = Nobody
  NoSecret = NoSecret
  Missing = Missing
  Editors <- TwoEditors
  Backends = {b1}
  Routes = {r1}
  KeyIds = {k1, k2}
  Secrets <- TwoSecrets
  MaxEdits = 3
  MaxFailures = 1
  MaxCrashes = 1
  MaxHangUps = 1
  MaxCommands = 1
SYMMETRY Alike
INVARIANTS
  FileAlwaysLoads
  Settled
PROPERTIES
  OthersUntouched
CHECK_DEADLOCK FALSE
