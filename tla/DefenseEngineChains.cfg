SPECIFICATION Spec
CONSTANTS
  Threads = {t1, t2}
  Literals <- Lits
  Artifacts <- MCArtifacts
  Observations <- ChainUses
  HasStore = FALSE
  StoreFails = FALSE
  BlockUnknown = FALSE
  Window = 0
  Day = 1
  Delay = 1
  MaxNodes = 4
  MaxClock = 3
INVARIANT NodesDistinct
PROPERTIES DecisionNeverRelaxes
CHECK_DEADLOCK FALSE
