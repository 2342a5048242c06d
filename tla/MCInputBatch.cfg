SPECIFICATION Spec
CONSTANTS
  r1 = r1
  r2 = r2
  r3 = r3
  r4 = r4
  Reqs <- MCReqs
  MaxNumReqs = 4
  LoraIds = {1}
  LoraOf <- MCLoraOf
  Seeded = {r2, r3}
  Masked = {r1}
  LambdaOf <- MCLambdaNone
  NaN = nan
  Reorders = TRUE
  Nobody = nobody
INVARIANT DenseIndex
INVARIANT RowsFollowRequests
INVARIANT NothingLeftBehind
INVARIANT ProcessorsFollow
