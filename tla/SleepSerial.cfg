SPECIFICATION HSpec
CONSTANTS
  Disks = {d1}
  Clients = {c1}
  IdleChoices = {0, 2}
  RetryAfter = 2
  Methods = 1
  MaxTime = 4
  MaxIO = 1
  Requests <- AllButSettings
  Environment = {"io", "standby", "wake", "refuse", "timeout", "restart", "vanish"}
  FirstSettings <- AlwaysOn
  FirstPolicies <- Configured
  Overlap = FALSE
  Watch = {"rows", "wake", "change", "failure", "log"}
INVARIANTS LogIsTrue
PROPERTIES FullIdleAgain BackoffHolds
