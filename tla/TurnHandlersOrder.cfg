CONSTANTS
  Bodies <- KeyBodies
  Typs <- AllocateTyps
  UnknownMax = 2
SPECIFICATION Spec
INVARIANT UsedAttributesCovered
CHECK_DEADLOCK FALSE
