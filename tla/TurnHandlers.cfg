CONSTANTS
  Bodies <- MCBodies
  Typs <- AllTyps
  UnknownMax = 2
SPECIFICATION Spec
INVARIANTS
  TypeOK
  ParsedAsSpecified
  UnknownListed
  KeyCovered
  NoEcho
CHECK_DEADLOCK FALSE
