SPECIFICATION Spec
CONSTANTS
  Procs = {p1, p2}
  Keys = {k1, k2}
  Ids = {1, 2, 3, 4}
  None = None
  MaxEntries = 1
  TTL = 0
INVARIANT OneCallPerKey
