SPECIFICATION EngineSpec
CONSTANTS
  Main = "main"
  Workers = {"worker"}
  Values = {0, 1}
  PowerOn = 0
  PageNos = {1, 2}
  Extents = {{1}, {2}, {1, 2}}
  Flushes = {{1}, {2}, {1, 2}}
  MaxWrites = 2
  TrapSlots = {1, 2, 3, 4, 9, 10}
  Fns = {"f", "g"}
  TableSize = 4
  Cap = 3
  Window = 4
  Refill = 2
  Nudgers = {"beat", "reclaimer"}
  Halts = FALSE
  MaxEntries = 2
  MaxExcess = 1
  ArenaGranule = 4
  Arenas = {5, 6, 9, 11}
  Bases = {1, 3, 4, 6, 7, 8}
  Reach = 12
  Lo = 1
  Hi = 7
  HeapAlign = 2
  HeapSizes = {1, 2, 4}
  MaxAllocs = 4
  VaSizes = {1, 3}
  MaxPages = 3
  Records = {"a", "b"}
  BlockSizes = {1, 5}
  Cd = 4
INVARIANTS
  OwnState
  TranslationSound
  MemorySound
  StandInsSound
  LoadingSound
  SignaturesSound
CHECK_DEADLOCK FALSE
