SPECIFICATION HSpec
CONSTANTS
  Disks = {d1}
  Clients = {c1}
  IdleChoices = {0, 1}
  RetryAfter = 1
  Methods = 2
  MaxTime = 1
  MaxIO = 0
  Requests <- AllRequests
  Environment <- Everything
  FirstSettings <- OnByDefault
  FirstPolicies <- Unconfigured
  Overlap = TRUE
  Watch = {}
INVARIANTS TypeOK OursIsNotSpinning
