SPECIFICATION SDFairSpec
CONSTANTS
  MaxPins = 3
  MaxGates = 2
  Wirings <- MCWirings
  TruthBytes <- MCTruthBytes
  MAX_LOOP_CYCLES = 2
  MaxCycleCount = 3
INVARIANTS
  AlarmTells
  OutcomeExplained
  PassesBounded
  NeverExhausted
PROPERTY
  Terminates
