SPECIFICATION SpecO2
CONSTANTS
  Bits = 3
  Programs <- MCPrograms
  Starts <- MCStarts
  ShortRange = 6
  Ports = {60}
  Fuel = 200
  Program <- NoFunctions
  Bodies <- NoFunctions
INVARIANTS
  BranchTargetsKept
  SameOutcome
  PortAccessesKept
  ShortBranchesReach
  Settled
  Terminates
CHECK_DEADLOCK FALSE
