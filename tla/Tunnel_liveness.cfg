SPECIFICATION FairSpec
CONSTANTS
  Scanning = FALSE
  QueueLimit = 2
  BufferSize = 1
  Window = 1
  MaxBytes <- Short
  Redirect = Redirect
PROPERTIES
  
  TunnelEnds
