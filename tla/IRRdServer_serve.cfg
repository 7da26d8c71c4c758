SPECIFICATION FairSpec
CONSTANTS
  c1 = c1
  c2 = c2
  Conns <- TwoClients
  None = None
  Listeners = {l1, l2}
  MaxConns = 1
  Lines <- TwoAndNone
INVARIANTS TypeOK TokensKept QuietAfterShutdown AnswersWritten AtMostOneLate
PROPERTIES ShutdownReturns ServeReturns
CHECK_DEADLOCK FALSE
