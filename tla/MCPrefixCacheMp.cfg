SPECIFICATION Spec
CONSTANTS
  Reqs = {r1, r2}
  Lambdas = {0, 10}
  PlainSalts = {absent}
  BlockSize = 2
  MaxTokens = 4
  LamInit = 0
  Modes <- MpDrained
  NoSalt = nosalt
  NoKey = nokey
SYMMETRY Symmetry
INVARIANT DrainedHitsMatch
