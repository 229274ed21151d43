SPECIFICATION Spec
CONSTANTS
  Lengths <- MCLengths
  VarTypes <- MCVarTypes
  CTypes = {"int16_t"}
  Garbage <- MCGarbage
  MaxCommands = 3
INVARIANTS TypeOK CommandsInOrder
PROPERTIES OverrunIsFatal EveryCommandEchoed
CHECK_DEADLOCK FALSE
