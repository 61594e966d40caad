SPECIFICATION Spec
CONSTANTS
  NFD      = 3
  Ino     <- MCIno
  Regular <- MCFile
  Modes   <- AllModes
  MaxSize  = 1
  MaxLeak  = 1
  MaxCut   = 1
INVARIANTS
  CountsOK
  OffsetInFile

  
