SPECIFICATION Spec
CONSTANTS
  Calls = {c1, c2}
  Connectors = {}
  Closers = {a1}
  MaxConns = 2
  TidSpace = 4
  Pipeline = TRUE
  Malformed = {}
  Cancellable = {}
  SlowClose = FALSE
  NoTask = NoTask
INVARIANTS ClosedStaysDisconnected
