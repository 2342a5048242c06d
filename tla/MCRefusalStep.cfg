SPECIFICATION Spec
CONSTANTS
  Reqs = {r1, r2, r3}
  MaxNumReqs = 2
  MaxNumTokens = 3
  Lambdas = {l0, l1}
  PlainSalts = {plain}
  NoLambda = nan
  LamZero = l0
  LamInit = l1
  NoSlot = noslot
  NoSalt = nosalt
  NoBuf = nobuf
SYMMETRY Symmetry
INVARIANT TypeOK
INVARIANT RowsServeTheirOwner
INVARIANT UnownedRowsReadTheDial
INVARIANT SlotsMirrorRequests
PROPERTY ImplementsService
