SPECIFICATION FairSpec
CONSTANTS
  Builders = {"buildModAdd", "buildModSub", "buildModMul", "buildModSquare", "buildMontMul", "buildModInv", "buildREDC", "buildModCompare", "buildSelect"}
  Width = {1, 2}
  OccupiedPins = {0, 50}
  OccupiedGates = {0, 3}
  MaxPins = 80
  MaxGates = 52
  Wirings = {}
  TruthBytes = {}
INVARIANTS
  TypeOK
  ResultsKnown
PROPERTIES
  BuildsEnd
CHECK_DEADLOCK FALSE
