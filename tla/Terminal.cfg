SPECIFICATION FairSpec
CONSTANTS
  Char <- MCChar
  Zero = "0"
  PipeSize = 2
  MaxKeys = 3
  MaxText = 3
INVARIANTS
  CharactersInOrder
PROPERTIES
  WaitingRight
  StartupEnds
  SimulatorGoesOn
