SPECIFICATION Spec
CONSTANTS
  Lambdas = {l0, l1, l2}
  LamZero = l0
  LamInit = l1
  Outside = outside
  Intact = intact
  Partial = partial
  Lost = lost
  Absent = absent
INVARIANT ForwardsReadLiveMemory
INVARIANT TensorHoldsTheDial
INVARIANT BuffersComeBack
