SPECIFICATION Spec
CONSTANTS
  MaxThread = 3
  Object <- MixedObjects
  Kind <- MixedKinds
  ThreadOf <- MixedThreads
  Waits <- MixedWaits
  Pool <- MixedPool
  Tokens <- MixedTokens
  MaxCount <- MixedCounts
  FiniteWaits = TRUE
  Killable = {}
  ExitCallers = {}
  Faulting = {}
  MayStop = FALSE
  Suspended = {FALSE}
  HostStarts = {TRUE}
  StackSizes = {1}
  StackRegion = 16
  TibRegion = 20
  ThreadCap = 3
INVARIANTS
  NoLostWakeup
  TokensConserved
  CritOwned
PROPERTIES
  ImplementsSync
CHECK_DEADLOCK FALSE
