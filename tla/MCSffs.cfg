SPECIFICATION SffsSpec
CONSTANTS
  EraseSize = 4
  Names = {"a", "b"}
  Vals = {v1, v2}
  MaxOpen = 2
  MaxSegs = 2
  Scenarios <- Sound
SYMMETRY Swaps
INVARIANTS
  SffsContents
  SffsReadBack
  SffsBlocksInUse
  SffsMounts
  SffsNoLeak
CHECK_DEADLOCK FALSE
