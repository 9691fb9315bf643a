SPECIFICATION Spec
CONSTANTS
  ReadLimit <- MCReadLimit
  WriteLimit <- MCWriteLimit
  AddressMax = 4
  ByteBits = 2
  Batches <- MCBatches
INVARIANTS ReadPlanExact ReadsAreSlices ReadsDecodeAsDocumented FailuresIsolated WriteOkMeansApplied
