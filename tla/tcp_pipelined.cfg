SPECIFICATION Spec
CONSTANTS
  Calls = {c1, c2, c3}
  Connectors = {}
  Closers = {a1}
  MaxConns = 2
  TidSpace = 2
  Pipeline = TRUE
  Malformed = {}
  Cancellable = {c1}
  SlowClose = TRUE
  NoTask = NoTask
SYMMETRY CallSymmetry
INVARIANTS TypeOK CrossTalkOnlyAfterWrap RegisteredWhileWaiting NoLeakedRegistration StreamConsistent AwaitsYounger
PROPERTIES FuturesResolveOnce
