SPECIFICATION PatchSpec
CONSTANT Ways = {"image", "hand"}
CONSTANT MaxMoved = 1
CONSTANT MaxRuns = 2
INVARIANT ImagesAreWhole
INVARIANT ZeroMeansApplied
CHECK_DEADLOCK FALSE
CONSTANT MaxCuts = 1
