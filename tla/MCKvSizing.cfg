CONSTANTS
  w1 = w1
  w2 = w2
  Workers = {w1, w2}
  MaxBatched = 3
  SpecBlocks = 1
  Refused = Refused
  Unknown = Unknown
  Scenarios <- Starts
  Budgets <- Memory
  Graphs <- Estimates
SPECIFICATION SizingSpec
INVARIANT EveryLayerHasItsRoom
INVARIANT AdmittedRequestFits
INVARIANT AutoFitIsLargest
INVARIANT OneSchedulerForAll
INVARIANT KeysNameWholeBlocks
