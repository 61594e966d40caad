SPECIFICATION TableSpec
CONSTANTS
  Inodes    = 10
  InodeSize = 128
  PerGroup  = 10
  Table    <- OneGroup
  Blocks    = 6
  Content   = {m1, m2}
  Made      = m1
  Rest      = rest
  Used     <- MCUsed
  MaxHeld   = 2
INVARIANTS
  BytesOK
  LoadedIsTable
PROPERTY
  OnlyOwn
