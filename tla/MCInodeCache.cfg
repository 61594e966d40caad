SPECIFICATION Spec
CONSTANTS
  root = root  cwd = cwd  mip = mip  pip = pip
  kroot = kroot  ka = ka  kb = kb
  zero = zero  one = one
  NMINODE = 2
  Key        <- MCKey
  RootKey    = kroot
  Holder     <- MCHolder
  RootHolder <- MCRootHolder
  Content    <- MCContent
  Blank      = zero
  NoKey      = NoKey
  NoSlot     = NoSlot
INVARIANTS
  Unique
  PointersValid
  RefsCounted
  Coherent
PROPERTIES
  ImplementsStore
