SPECIFICATION FairSpec
CONSTANTS
  Values <- SomeValues
  Branches <- SomeBranches
  Forms <- SomeForms
  FirstForm <- Plain
  Clients = {c1, c2}
  NoClient = none
  Requests <- AllRequests
  Concurrent <- Overlapping
  Environment <- AllTrouble
  FirstRecent <- EitherAge
  NotMounted = notmounted
INVARIANTS NothingSilent FixWorks
PROPERTIES SettlesDown
CHECK_DEADLOCK FALSE
