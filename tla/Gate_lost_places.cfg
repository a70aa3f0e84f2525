SPECIFICATION Spec
CONSTANTS
  r1 = r1
  r2 = r2
  r3 = r3
  Requests <- ThreeRequests
  Limits <- OnlyOne
  Capacity = 1
  HangUps = TRUE
  Deadline = TRUE
  MaxReconfigs = 0
PROPERTIES
  RefusedOnlyByAFullLine
