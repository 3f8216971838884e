SPECIFICATION Spec
CONSTANTS
  MaxThread = 3
  Object <- JoinObjects
  Kind <- JoinKinds
  ThreadOf <- JoinThreads
  Waits <- JoinWaits
  Pool <- JoinPool
  Tokens <- JoinTokens
  MaxCount <- JoinCounts
  FiniteWaits = TRUE
  Killable = {2, 3}
  ExitCallers = {2}
  Faulting = {2}
  MayStop = FALSE
  Suspended = {TRUE, FALSE}
  HostStarts = {TRUE, FALSE}
  StackSizes = {1, 2}
  StackRegion = 16
  TibRegion = 19
  ThreadCap = 3
INVARIANTS
  TypeOK
  GrantedIsAwake
  StackOwned
  NoRunnerOutlivesRun
PROPERTIES
  KilledStaysFinished
CHECK_DEADLOCK FALSE
