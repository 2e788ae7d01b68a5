SPECIFICATION Spec
CONSTANTS
  Segments <- Names
  PoolChoices <- ManyPools
  BindChoices <- ManyBinds
  DiskChoices <- OneDisk
  ShareChoices <- ManyShares
INVARIANTS GuardSeesEveryShare BindsApart
PROPERTIES FlatKeepsShares OnlyAMoveLosesBinds
