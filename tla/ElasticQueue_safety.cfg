SPECIFICATION Spec
CONSTANTS
  a = a
  b = b
  Values = {a, b}
  Unwritten = Unwritten
  StartSize = 2
  MaxLength = 6
INVARIANTS
  Valid
PROPERTIES
  ImplementsFifo
