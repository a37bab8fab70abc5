SPECIFICATION MediaSpec
CONSTANT MaxFaults = 1
INVARIANT MediaWins
CHECK_DEADLOCK FALSE
