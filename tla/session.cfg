SPECIFICATION FairSpec
CONSTANTS
  a = a
  b = b
  c = c
  Reader = Reader
  CtxWatcher = CtxWatcher
  Callers = {a, b, c}
INVARIANTS
  TypeOK
  ActivityOnlyWhileOpen
  ExpireDecisionFresh
  CloseWaits
PROPERTIES
  CloseEnds
  ImplementsLife
