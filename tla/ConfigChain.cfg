SPECIFICATION Spec
CONSTANTS
  Segments <- Names
  PoolChoices <- NoPools
  BindChoices <- ChainBinds
  DiskChoices <- NoDisks
  ShareChoices <- ChainShares
PROPERTIES KeepsShares
