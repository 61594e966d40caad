SPECIFICATION Spec
CONSTANTS
  na = na  nb = nb
  Ino        <- MCIno
  Block      <- MCBlock
  Metadata   <- MCMeta
  RootBlock  = 6
  Path       <- Files
  Sessions   <- InUse
  MaxLeak    = 1
  MaxKill    = 1
INVARIANTS
  InUseMarked
