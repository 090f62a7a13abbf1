CONSTANTS
  Parts = {"sim", "dev", "inner", "inv", "ram"}
  Device <- MC_Device
  Gate <- MC_Gate
  Sim <- MC_Sim
  Parent <- MC_Parent
  Ancestors <- MC_Ancestors
  Name <- MC_Name
  NotGate <- MC_NotGate
  Magic <- MC_Magic
  Pin <- MC_Pin
  Owner <- MC_Owner
  Direction <- MC_Direction
  Clock <- MC_Clock
  Spare <- MC_Spare
  MaxFlags = 2
  MaxQueue = 0
SPECIFICATION Spec
INVARIANTS OneDriver DriveFlags NothingDangling BuildCheckIsSound IndexIsPosition
PROPERTIES ImplementsWiring
