SPECIFICATION Spec
CONSTANTS
  Scanning = TRUE
  QueueLimit = 2
  BufferSize = 2
  Window = 1
  MaxBytes <- Long
  Redirect = Redirect
INVARIANTS
  NeverThrown
  
  
  
  
