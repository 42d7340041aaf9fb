SPECIFICATION Spec
CONSTANTS
  Threads = {t1, t2}
  Paths = {p}
  Contents = {a, b}
  SharedStore = FALSE
  MaxEntries = 2
INVARIANT OperatorCanRelease
