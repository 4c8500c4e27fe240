\* Three sectors over two deadlines of up to two partitions each.
CONSTANTS
  Sectors = {1, 2, 3}
  Deadlines = {0, 1}
  Partitions = {0, 1}
  NoOut = NoOut
SPECIFICATION Spec
INVARIANT
  FaultPercentShown
