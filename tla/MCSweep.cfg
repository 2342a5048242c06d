SPECIFICATION SweepSpec
CONSTANT Benches = {"refusal", "niah", "overrefusal", "v2", "quality", "strongreject", "compare"}
CONSTANT LambdaList <- MCLambdaList
CONSTANT Prompts = {1, 2}
CONSTANT Reps = 2
CONSTANT Production = 2
CONSTANT Chunk = 1
CONSTANT MaxAttempts = 1
CONSTANT MaxFaults = 2
CONSTANT MaxRuns = 3
CONSTANT Mixed = Mixed
INVARIANT RowsAtTheirLambda
INVARIANT EveryPromptOnce
INVARIANT EndsAtHome
INVARIANT HomeBetweenWindows
 
PROPERTY ComesToAnEnd
CHECK_DEADLOCK FALSE
