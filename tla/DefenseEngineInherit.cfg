SPECIFICATION Spec
CONSTANTS
  Threads = {t1}
  Literals <- Lits
  Artifacts <- MCArtifacts
  Observations <- InheritUses
  HasStore = TRUE
  StoreFails = FALSE
  BlockUnknown = FALSE
  Window = 0
  Day = 3
  Delay = 1
  MaxNodes = 2
  MaxClock = 0
INVARIANT TaintInherited
CHECK_DEADLOCK FALSE
