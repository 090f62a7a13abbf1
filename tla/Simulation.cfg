CONSTANTS
  k1 = k1
  k2 = k2
  p1 = p1
  p2 = p2
  cell = cell
  ram = ram
  manual = manual
  Clock = {k1, k2}
  Probe = {p1, p2}
  Part = {cell, ram}
  Magic = {ram}
  Manual = manual
  State <- MC_State
  Start <- MC_Start
  Settled <- MC_Settled
  Pattern <- MC_Pattern
  Trigger <- MC_Trigger
  Target <- MC_Target
  ProbeName <- MC_ProbeName
  InputCheckLimit = 1
  RunLength = {0, 2}
  MaxTicks = 4
SPECIFICATION FairSpec
INVARIANTS ListsAgree SamplesInStep
PROPERTIES ImplementsSampling RunEnds
CHECK_DEADLOCK FALSE
