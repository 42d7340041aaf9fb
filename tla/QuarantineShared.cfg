SPECIFICATION Spec
CONSTANTS
  Threads = {t1, t2}
  Paths = {p}
  Contents = {a, b}
  SharedStore = TRUE
  MaxEntries = 2
INVARIANTS TypeOK HeldHasFile
