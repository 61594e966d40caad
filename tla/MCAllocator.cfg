SPECIFICATION Spec
CONSTANTS
  Kind     <- MCKind
  Limit    <- MCLimit
  Reserved <- MCReserved
  SuperMod = 16
  GroupMod = 8
  MaxCrash = 3
INVARIANTS
  TypeOK
  HeldMarked
  CountsExact
  CountDrift

  
CHECK_DEADLOCK FALSE
