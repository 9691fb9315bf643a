SPECIFICATION Spec
CONSTANTS
  Calls = {c1, c2}
  Connectors = {}
  Closers = {}
  MaxConns = 2
  TidSpace = 4
  Pipeline = TRUE
  Malformed = {}
  Cancellable = {}
  SlowClose = TRUE
  NoTask = NoTask
INVARIANTS ConnErrorMeansConnLost
