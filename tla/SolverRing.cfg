SPECIFICATION FairSpec
CONSTANTS
  Circuit <- RingTop
  HighSeeds <- AllLowOrHigh
  ExternalPins <- RingPins
  ThreadedDevices = {}
  Workers = 1
  Device <- MC_Device
  Gate <- MC_Gate
  Sim <- MC_Sim
  Parent <- MC_Parent
  Ancestors <- MC_Ancestors
  Children <- MC_Children
  Pin <- MC_Pin
  Owner <- MC_Owner
  Direction <- MC_Direction
  Inward <- MC_Inward
  Outward <- MC_Outward
  Targets <- MC_Targets
  Operator <- MC_Operator
  DefaultHigh <- MC_DefaultHigh
  Seeds <- MC_Seeds
  External <- MC_External
  MaxPropagations <- MC_Max
  Threaded <- MC_Threaded
INVARIANTS NothingLeftBehind
PROPERTIES SolveReturns
