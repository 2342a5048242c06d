SPECIFICATION FairSpec
CONSTANTS
  Ranks = {rank0, rank1}
  Clients = {c1, c2}
  Lambdas = {l0, l1}
  LamInit = l0
  MaxSteps = 2
  MaxInFlight = 2
  Failed = failed
  NoCall = nocall
INVARIANT StepsAgree
INVARIANT AnswersHoldEverywhere
PROPERTY CallsAreAnswered
