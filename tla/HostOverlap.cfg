SPECIFICATION Spec
CONSTANTS
  Segments <- Names
  PoolChoices <- MovingPool
  BindChoices <- OneFolder
  DiskChoices <- OneDisk
  ShareChoices <- OneShare
  Clients = {c1, c2}
  NoClient = none
  Requests = {"pool", "unmountpool", "bind", "disk", "share", "noatime"}
  Environment = {"busy", "nodisk", "nosource", "restart", "reboot"}
  Overlap = TRUE
  Watched = {"cut", "stale", "left"}
SYMMETRY Anyone
CONSTRAINT NotStale
ACTION_CONSTRAINT Prompt
INVARIANTS TypeOK UnitsMatch LockedStopsAreSafe
PROPERTIES ImplementsConfig
