SPECIFICATION Spec
CONSTANTS
  Calls = {c1, c2, c3}
  Connectors = {o1}
  Closers = {a1}
  MaxConns = 2
  TidSpace = 3
  Pipeline = TRUE
  Malformed = {c1}
  Cancellable = {}
  SlowClose = FALSE
  NoTask = NoTask
SYMMETRY CallSymmetry
INVARIANTS ConnectedHasReader ConnErrorMeansConnLost
PROPERTIES ImplementsTransport
