SPECIFICATION Spec
CONSTANTS
  Reqs = {r1, r2}
  Lambdas = {0, 10}
  OutOfRange = {90}
  LamInit = 0
  BufferRows = 4
  MaxTokens = 2
  Shares = {1, 2, 3}
  MaxPadding = 1
  NoSeal = noseal
SYMMETRY Symmetry
VIEW View
INVARIANT NeverAnothersLambda
INVARIANT SealedHitsMatch
