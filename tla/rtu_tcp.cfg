SPECIFICATION LiveSpec
CONSTANTS
  Calls = {c1, c2, c3}
  Connectors = {o1}
  Closers = {a1}
  MaxConns = 2
  EmptyPdu = {}
  BadUnit = {c3}
  Cancellable = {c1}
  FrameKinds = {"ok", "unknownFc"}
  NoTask = NoTask
INVARIANTS StaleOnlyAfterAbandon ClosedStaysDisconnected
PROPERTY OnlyPeerHoldsTasks
