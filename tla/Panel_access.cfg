SPECIFICATION Spec
CONSTANTS
  r1 = r1
  r2 = r2
  r3 = r3
  r4 = r4
  r5 = r5
  p1 = p1
  p2 = p2
  None = None
  NoPassword = NoPassword
  Requests <- Four
  Addresses = {phone, laptop}
  Remote = {laptop}
  Passwords <- Two
  Attempts = 1
  AttemptsGlobal = 2
  Lockout = 2
  Tracked = 1
  Ttl = 2
  MaxAttempts = 1
  CodeTtl = 2
  MintInterval = 2
  MaxTime = 4
  MaxRestarts = 1
SYMMETRY Alike
INVARIANTS
  SignInBudget
  CodeBudget
  ResetSignsOut
CHECK_DEADLOCK FALSE
