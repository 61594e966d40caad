SPECIFICATION Spec
CONSTANTS
  File    = {"A", "B", "C", "junk"}
  First   = "A"
  Ext2    = {"A", "B", "C"}
  Tree   <- MCTree
  NMINODE = 4
  NTAB    = 4
  NFILE   = 3
  Path   <- Paths
  Sessions <- MCSessions
  MaxRef  = 5
  None    = "none"
INVARIANTS
  TableOK
  PointersCounted
  
