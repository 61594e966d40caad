SPECIFICATION FairSpec
CONSTANTS
  NMINODE   = 3
  Tree     <- MCTree
  Path     <- MCPath
  Sessions <- MCSessions
  MaxRef    = 4
  MaxBare   = 4
INVARIANTS
  RootIsRoot
  CwdStays
  SlotsOK

  
