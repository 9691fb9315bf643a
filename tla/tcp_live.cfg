SPECIFICATION LiveSpec
CONSTANTS
  Calls = {c1, c2}
  Connectors = {}
  Closers = {a1}
  MaxConns = 2
  TidSpace = 1
  Pipeline = FALSE
  Malformed = {}
  Cancellable = {c1}
  SlowClose = TRUE
  NoTask = NoTask
INVARIANTS SerialExclusive
PROPERTY OnlyPeerHoldsTasks
