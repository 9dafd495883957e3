SPECIFICATION StreamSpec
CONSTANTS
  Capacity = 2
  MaxRounds = 2
  MaxChunks = 2
  MaxEmpty = 1
  MaxWriteFaults = 1
CHECK_DEADLOCK FALSE
INVARIANTS
  OneTerminalEvent
  DoneIsStored
PROPERTY StreamEnds
