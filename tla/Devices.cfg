SPECIFICATION DevicesSpec
CONSTANTS
  Bench <- Library
  Seeds <- MCSeeds
  MaxPropagations = 10
INVARIANT CombinationalFollow
PROPERTIES BanksFollow SetReset CellSpec
