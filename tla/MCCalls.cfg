SPECIFICATION Spec
CONSTANTS
  Bits = 4
  Program <- MCProgram
  Bodies <- MCBodies
  Scopes = 42
  Parent <- MCParent
  Around <- MCAround
  Declared <- MCDeclared
  HiddenOnStack = {5, 9, 10, 11, 20}
  FrameLimit = 128
  Mains <- MCMains
  Handler <- MCHandler
  Data = 16
  Starts <- MCStarts
INVARIANTS
  LiveVariablesApart
  LinkageKept
  ProgramMeans
PROPERTIES
  ReturnsToCaller
CHECK_DEADLOCK FALSE
