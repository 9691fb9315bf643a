SPECIFICATION LiveSpec
CONSTANTS
  None = None
  c1 = c1
  c2 = c2
  Procs = {c1, c2}
  Scenarios <- MCScenarios
  Answers <- MCAnswers
  ReadLimit = 3
  WriteLimit = 3
  AddressMax = 6
  MaxLosses = 1
INVARIANTS GuideTeachesTheCommand  TornOnlyAcrossRequests
PROPERTY CommandsEnd
