SPECIFICATION Spec
CONSTANTS
  NDIR     = 2
  PTRS     = 2
  Lens    <- MCLens
  LastBlock = 24
  Room    <- MCRoom
  Block   <- MCBlock
  File    <- MCFile
  Images  <- MCImages
  MaxKill  = 2

  
  
  
PROPERTY
  CpEnds
