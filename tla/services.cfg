SPECIFICATION MCSpec
CONSTANTS
  TA = TA
  TB = TB
  Threads = {TA, TB}
  Fds = {1, 2}
  MaxHandle = 2
  MaxTime = 1
  ConnectWait = 1
  Timeouts = {1}
  Waits = {0, 2}
  FromWait = 1
  PrivateOnly = TRUE
  Route = "public"
  Rate = 3
  Grain = 3
  Aligns = {4}
  Frames = {2, 5}
  Freqs = {2, 5, 8}
  Sizes = {1, 2}
  MaxSlots = 3
  MaxRefs = 2
  MaxListed = 4
  MaxTick = 8
  PerTick = 2
  Second = 3
  Delay = 2
  Tries = 2
  Every = 4
  Writes = {1, 3}
  MaxData = 8
  MaxHeld = 3
  Full <- FullKeys
  Simple <- SimpleKeys
  EchoMax = 2
  ScreenW = 960
  ScreenH = 544
  MaxTyped = 3
  Makes = {"mutex", "sema", "auto", "port"}
  MaxObjects = 2
  MaxPosts = 2
  MaxSema = 2
  Takers = {"a", "b"}
  Unnamed = {"b"}
  SA = SA
  SB = SB
  Stacks = {SA, SB}
  IdSlots = 1
  Depths = {1}
  MaxAcq = 2
  Runners = {"r", "s"}
SYMMETRY Alike
INVARIANTS
  SoundSafe
  NetSound
  TypingHonest
  HandlesHonest
  ThreadsHonest
PROPERTIES
  WaitsServed
  MixHeard
CHECK_DEADLOCK FALSE
