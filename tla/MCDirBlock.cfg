SPECIFICATION Spec
CONSTANTS
  a = a  b = b  c = c  d = d
  Name    <- MCName
  NameLen <- Five
  Dot     = Dot
  DotDot  = DotDot
  Ino     <- MCIno
  Self    = 11
  Up      = 2
  BlockCells = 22
INVARIANTS
  BlockOK
  EmptyRight
PROPERTIES
  ImplementsDir
