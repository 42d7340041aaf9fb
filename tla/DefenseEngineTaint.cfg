SPECIFICATION Spec
CONSTANTS
  Threads = {t1, t2}
  Literals <- Lits
  Artifacts <- MCArtifacts
  Observations <- TaintUses
  HasStore = TRUE
  StoreFails = TRUE
  BlockUnknown = FALSE
  Window = 0
  Day = 3
  Delay = 1
  MaxNodes = 2
  MaxClock = 1
INVARIANTS TypeOK TaintStaysInSource UnsolicitedNeverSilent
CHECK_DEADLOCK FALSE
