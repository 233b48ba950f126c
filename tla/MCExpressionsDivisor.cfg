SPECIFICATION Spec
CONSTANTS
  Bits = 4
  Expressions <- InPlaceDivisions
  Starts <- MCStarts
  StackRoom = 20
  Program <- NoFunctions
  Bodies <- NoFunctions
INVARIANT DivisorInD
CHECK_DEADLOCK FALSE
