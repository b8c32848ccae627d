SPECIFICATION FairSpec
CONSTANTS
  Base = 4
  Inc = 0
  Delay = 2
  Late = 1
  MaxMoves = 4
  MaxClock = 6
INVARIANTS
  FlagsInTime
  LoserIsOutOfTime
PROPERTIES
  ResultIsFinal
  GameEnds
CHECK_DEADLOCK FALSE
