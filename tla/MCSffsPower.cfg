SPECIFICATION SffsSpec
CONSTANTS
  EraseSize = 4
  Names = {"a", "b"}
  Vals = {1}
  MaxOpen = 1
  MaxSegs = 2
  Scenarios <- Power
INVARIANT SffsContents
CHECK_DEADLOCK FALSE
