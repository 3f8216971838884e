SPECIFICATION Spec
CONSTANTS
  MaxThread = 2
  Object <- NoObjects
  Kind <- NoKinds
  ThreadOf <- NoOwners
  Waits <- NoWaits
  Pool = {}
  Tokens <- NoTokens
  MaxCount <- NoCounts
  FiniteWaits = TRUE
  Killable = {2}
  ExitCallers = {}
  Faulting = {}
  MayStop = FALSE
  Suspended = {TRUE, FALSE}
  HostStarts = {TRUE}
  StackSizes = {1}
  StackRegion = 16
  TibRegion = 20
  ThreadCap = 3
PROPERTIES
  FinishedIsFinal
CHECK_DEADLOCK FALSE
