SPECIFICATION FairSpec
CONSTANTS
  Base = 2
  Inc = 1
  Delay = 1
  Late = 0
  MaxMoves = 0
  MaxClock = 6
PROPERTIES
  GameEnds
CHECK_DEADLOCK FALSE
