SPECIFICATION Spec
CONSTANTS
  Requests <- MCRequests
  Content <- MCContent
  Noisy <- MCNoisy
  Masks <- MCMasks
  UnitId = 17
  Tid = 258
  Following <- MCFollowing
INVARIANTS ExchangeUnderstood FramesSelfDelimiting DamageDetected
