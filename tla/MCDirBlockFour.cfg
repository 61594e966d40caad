SPECIFICATION Spec
CONSTANTS
  a = a  b = b  c = c  d = d
  Name    <- MCName
  NameLen <- Four
  Dot     = Dot
  DotDot  = DotDot
  Ino     <- MCIno
  Self    = 11
  Up      = 2
  BlockCells = 18
PROPERTIES
  ImplementsDir
CHECK_DEADLOCK FALSE
