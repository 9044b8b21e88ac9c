SPECIFICATION Spec
CONSTANTS
  U16Max = 31
  BufLen = 32
  Types = {ta, tb}
  Lens <- MCLens
INVARIANTS ReadsInside RoundTrip
CHECK_DEADLOCK FALSE
