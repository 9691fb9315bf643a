SPECIFICATION LiveSpec
CONSTANTS
  Clients = {k1, k2}
  Starters = {s1, s2}
  Stoppers = {p1}
  MaxConnections = 1
  HasOnWrite = FALSE
  Ephemeral = TRUE
  Kinds = {"read", "write", "badMbap"}
  Talkers = {k1}
  MaxRequests = 2
  NoServer = NoServer
INVARIANTS ConnectionsTracked SurvivorStartedLate ListenerLostOnlyByRace ResponsesInOrder
PROPERTY OnlyClientsHoldStop
