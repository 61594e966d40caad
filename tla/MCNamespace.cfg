SPECIFICATION Spec
CONSTANTS
  na = na  nb = nb
  Ino        <- MCIno
  Block      <- MCBlock
  Metadata   <- MCMeta
  RootBlock  = 6
  Path       <- Tree
  Sessions   <- MCSessions
  MaxLeak    = 1
  MaxKill    = 2
CONSTRAINT Sound
INVARIANTS
  NoDangling
  TreeOK
  FileLinks
  DirLinks
  NoInodeLeak
  BlocksExact
PROPERTIES
  
  NeverGone
