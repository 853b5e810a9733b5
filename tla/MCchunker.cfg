SPECIFICATION Spec
CONSTANTS
  MaxLength = 9
  Lengths <- SomeLengths
  Sizes <- SomeSizes
  Overlaps <- SomeOverlaps
INVARIANTS
  IInv
  ChunksAdvance
  ChunksAreWindows
  NothingLost
CHECK_DEADLOCK FALSE
