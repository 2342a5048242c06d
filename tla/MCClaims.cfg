SPECIFICATION ClaimsSpec
CONSTANTS
  NumLayers = 12
  Builds = {"base", "port"}
  Full <- MCFull
  Stems <- MCStems
  DraftStems <- MCDraftStems
  Files <- MCFiles
  Modes = {"off", "last", "mean"}
  Ranges <- MCRanges
  NoKey = nokey
  NoProjection = noprojection
INVARIANT NeverHalfAblated
INVARIANT EachWriterItsOwn
INVARIANT RenamedOrRefused
