SPECIFICATION Spec
CONSTANTS
  MaxVersion = 3
  MaxFaults = 2
  MaxFailedWrites = 2
INVARIANTS
  Authentic
  DateKept
PROPERTIES
  NeverOlder
  CatchesUp
