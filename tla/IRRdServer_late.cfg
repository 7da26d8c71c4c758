SPECIFICATION Spec
CONSTANTS
  c1 = c1
  c2 = c2
  Conns <- TwoClients
  None = None
  Listeners = {l1}
  MaxConns = 1
  Lines <- TwoAndNone
INVARIANTS NoLateCommand
CHECK_DEADLOCK FALSE
