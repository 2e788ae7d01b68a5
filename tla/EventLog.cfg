SPECIFICATION HSpec
CONSTANTS
  Disks = {d1, d2}
  Celsius <- CoolAndHot
  Crit = 55
  Day = 2
  Retention = 2
  TempRetention = 3
  TempInterval = 1
  PageSize = 1
  Charts <- ShortAndLong
  CommitTime = 1
  Inherited <- OldOrNone
  Workloads <- OneByOne
  MaxTime = 4
  MaxRows = 3
  MaxReadings = 3
CONSTRAINT Undrawn
ACTION_CONSTRAINT AtOnce
SYMMETRY SymmetricDisks
INVARIANTS LogTypeOK PageIsHistory NoRowSkipped CrossingsAlternate
PROPERTIES KeepsRetention
