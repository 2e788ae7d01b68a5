SPECIFICATION HSpec
CONSTANTS
  Disks = {d1}
  Clients = {c1}
  IdleChoices = {0, 2}
  RetryAfter = 2
  Methods = 1
  MaxTime = 4
  MaxIO = 1
  Requests <- WakeOnly
  Environment <- NoEvents
  FirstSettings <- AlwaysOn
  FirstPolicies <- Configured
  Overlap = TRUE
  Watch = {"wake"}
PROPERTIES FullIdleAfterWake
