SPECIFICATION LiveSpec
CONSTANTS
  Calls = {c1, c2}
  Connectors = {o1}
  Closers = {a1}
  MaxPorts = 2
  EmptyPdu = {}
  BadUnit = {}
  Cancellable = {c1}
  FrameKinds = {"ok", "unknownFc"}
  NoTask = NoTask
INVARIANTS OverlapOnlyAfterCancel StaleOnlyAfterLoss NoPortLeftOpen
PROPERTIES  NoResponseAfterPortLoss AllTerminate
