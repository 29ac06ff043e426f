SPECIFICATION Spec
CONSTANTS
  MAX_VARIABLES_PER_MODEL = 1
  MAX_EQUATIONS_PER_MODEL = 1
  MAXIMUM_BIT_WIDTH = 1
  MaxNodes = 5
  Numbers = {1}
  Operations = {"AND"}
  MaxPins = 7
  MaxGates = 3
  Wirings = {}
  TruthBytes = {}
INVARIANT
  NestedExpressionsCompile
