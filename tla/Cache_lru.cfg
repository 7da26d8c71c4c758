SPECIFICATION Spec
CONSTANTS
  Procs = {p1, p2}
  Keys = {k1, k2, k3}
  Ids = {1, 2, 3, 4}
  None = None
  MaxEntries = 2
  TTL = 0
SYMMETRY Perms
INVARIANTS ListMatchesMap
PROPERTIES ImplementsLRU
