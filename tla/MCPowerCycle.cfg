CONSTANT MaxVersion = 1
SPECIFICATION SidesSpec
INVARIANTS OrderlyEnd WaitsForTold Restored
PROPERTY PowersOff
CHECK_DEADLOCK FALSE
