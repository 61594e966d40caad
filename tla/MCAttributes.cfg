SPECIFICATION AttrSpec
CONSTANTS
  Inode  <- MCInode
  Root    = 2
  Kind   <- MCKind
  Digits <- AnyForm
  MaxTime = 1
  MaxKill = 1

  
PROPERTY
  AtimeForward
