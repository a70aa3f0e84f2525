SPECIFICATION FairSpec
CONSTANTS
  Scripts <- MCScripts
  Chars = {"a", "b", "x", "p", "s"}
  Breaks <- MCBreaks
  Rules <- AB
  Lookbehind = 2
  Prefix <- MCPrefix
  Suffix <- MCSuffix
  KeepAlive = TRUE
  Room = 2
  MaxChunk = 6
INVARIANTS
  RewrittenWhole
  ClosedInFull
PROPERTIES
  HangUpEnds
CHECK_DEADLOCK FALSE
