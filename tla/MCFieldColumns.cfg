SPECIFICATION Spec
CONSTANTS
  Defs <- Entries
  TwoSets <- OneTwo
  MaxNum = 3
  MaxOneWire = 2
  MaxXyz = 2
INVARIANT PositionsFromBlocks
INVARIANT BehindBlocksFound
