SPECIFICATION Spec
CONSTANTS
  Procs = {p1, p2, p3}
  Keys = {k1}
  Ids = {1, 2, 3, 4}
  None = None
  MaxEntries <- NoCap
  TTL = 1
SYMMETRY Perms
INVARIANTS TypeOK ErrorsNotRemembered OneCallPerKey
PROPERTIES PurgeBarrier
