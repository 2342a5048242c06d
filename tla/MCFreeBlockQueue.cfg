SPECIFICATION Spec
CONSTANTS
  NumBlocks = 4
  Head0 = head
  Tail0 = tail
  None = none
  Raised = raised
INVARIANT LinksAreTheOrder
INVARIANT HeldBlocksAreUnlinked
PROPERTY ImplementsFreeBlocks
