SPECIFICATION FairSpec
CONSTANTS
  MaxThread = 2
  Object <- MutexObjects
  Kind <- MutexKinds
  ThreadOf <- MutexThreads
  Waits <- MutexWaits
  Pool <- MutexPool
  Tokens <- MutexTokens
  MaxCount <- MutexCounts
  FiniteWaits = TRUE
  Killable = {2}
  ExitCallers = {}
  Faulting = {2}
  MayStop = TRUE
  Suspended = {TRUE, FALSE}
  HostStarts = {TRUE}
  StackSizes = {1}
  StackRegion = 16
  TibRegion = 20
  ThreadCap = 2
PROPERTIES
  GrantReturns
  TimedWaitEnds
  ShutdownCompletes
CHECK_DEADLOCK FALSE
