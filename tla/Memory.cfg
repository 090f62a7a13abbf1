SPECIFICATION Spec
CONSTANTS
  Ram <- MCRam
  Rom <- MCRom
  AddressWidth <- MCWidth
  DataWidth <- MCData
  Rows <- MCRows
  Source <- MCSource
  Target <- MCTarget
INVARIANT PinsFollow
PROPERTY ImplementsClocked
