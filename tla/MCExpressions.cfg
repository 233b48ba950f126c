SPECIFICATION Spec
CONSTANTS
  Bits = 4
  Expressions <- Compiled
  Starts <- MCStarts
  StackRoom = 20
  Program <- NoFunctions
  Bodies <- NoFunctions
INVARIANTS
  ComputesMeaning
  StackBalanced
  NothingBelowStack
CHECK_DEADLOCK FALSE
