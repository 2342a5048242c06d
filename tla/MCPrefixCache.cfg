SPECIFICATION Spec
CONSTANTS
  Reqs = {r1, r2, r3}
  Lambdas = {0, 10}
  PlainSalts = {absent}
  BlockSize = 2
  MaxTokens = 4
  LamInit = 0
  Modes <- BestAndWorst
  NoSalt = nosalt
  NoKey = nokey
SYMMETRY Symmetry
CONSTRAINT PairsInTheWorst
INVARIANT SealedHitsMatch
INVARIANT HitsMatchTheStep
INVARIANT KeysNameTheirRows
