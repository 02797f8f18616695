SPECIFICATION Spec
CONSTANTS
  terminal = terminal
  rule = rule
  Files = {1, 2}
  Runs <- MCRuns
  MaxVersion = 3
  Worlds <- MCWorlds
SYMMETRY Same
INVARIANTS
  CompleteAtEnd
  NothingOrphaned
PROPERTIES
  SkippedIsCurrent
  ForeignKept
CHECK_DEADLOCK FALSE
