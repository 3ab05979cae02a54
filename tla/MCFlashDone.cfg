CONSTANT MaxVersion = 1
SPECIFICATION SidesSpec
INVARIANT DoneIsRestored
CHECK_DEADLOCK FALSE
