SPECIFICATION HFairSpec
CONSTANTS
  Disks = {d1}
  Clients = {c1}
  IdleChoices = {0, 1}
  RetryAfter = 1
  Methods = 1
  MaxTime = 2
  MaxIO = 1
  Requests <- AllButSettings
  Environment = {"io", "standby", "refuse", "dbfail", "restart"}
  FirstSettings <- AlwaysOn
  FirstPolicies = {1}
  Overlap = TRUE
  Watch = {"io"}
PROPERTIES  IdleMeansUnused
