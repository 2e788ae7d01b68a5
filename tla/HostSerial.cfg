SPECIFICATION Spec
CONSTANTS
  Segments <- Names
  PoolChoices <- MovingPool
  BindChoices <- Mixed
  DiskChoices <- OneDisk
  ShareChoices <- None
  Clients = {c1}
  NoClient = none
  Requests <- AllButShares
  Environment = {"busy", "nomount", "nodisk", "noenable", "nosource", "missing", "reboot"}
  Overlap = FALSE
  Watched = {"cut", "stale", "left", "direct", "moved", "loose", "kept"}
CONSTRAINT OneMark
INVARIANTS GuardHolds NoOrphanMount RemountRestoresBinds  
