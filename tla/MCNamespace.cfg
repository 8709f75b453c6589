SPECIFICATION Spec
CONSTANTS
  x = x
  y = y
  daemon = daemon
  superuser = superuser
  Names <- MCNames
  Users <- MCUsers
  Daemon = daemon
  Superuser = superuser
  Paths <- MCPaths
  Root <- MCRoot
  Parent <- MCParent
  Leaf <- MCLeaf
  Above <- MCAbove
  Missing = Missing
  MaxOps = 6
\* The calls are bounded.
CHECK_DEADLOCK FALSE
INVARIANTS
  TypeOK
  ListingExact
  StoredExists
  OnlyLinksInvalid
