SPECIFICATION MCSpec
CONSTANTS
  MaxThread = 3
  Object <- AllObjects
  Kind <- AllKinds
  ThreadOf <- AllThreads
  Waits <- AllWaits
  Pool <- AllPool
  Tokens <- AllTokens
  MaxCount <- AllCounts
  RealClock = FALSE
  RealExpire = TRUE
  DeferWake = FALSE
  Timeouts = {0, 1, 2}
  MaxTick = 0
  Answers = {"code", "bool", "none"}
  PinCallers = {2}
  Killable = {1, 2}
  ExitCallers = {2}
  Faulting = {3}
  MayStop = TRUE
  SwitchCap = TRUE
  Suspended = {FALSE, TRUE}
  StackSizes = {1}
  StackRegion = 16
  MainStack <- OneUnit
INVARIANTS
  ReplyFits
  StackOwned
  StopsWhenStuck
PROPERTIES
  ImplementsSync
  EndedAndPinned
CHECK_DEADLOCK FALSE
