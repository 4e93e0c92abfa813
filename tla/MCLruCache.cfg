SPECIFICATION Spec
CONSTANTS
  Threads = {t1, t2}
  Keys = {k1, k2, k3}
  Sizes = {1, 2, 3}
  MaxEntries = 2
  MaxBytes = 4
  MaxOps = 5
INVARIANTS
  InStep
  MostRecentKept
SYMMETRY Symmetry
