SPECIFICATION Spec
CONSTANTS
  Thread = {t1, t2}
  Uid = {u1, u2, u3, u4}
  NoUid = NoUid
  MaxBlk = 2
  MaxSegs = 2
  Ladder = {2, 1}
  Threshold = 50
  CodeSizes = {1, 2}
  RwLadder = {2}
  DataSizes = {1, 2}
  MaxServe = 1
  MaxGauge = 2
SYMMETRY Symmetric
INVARIANTS
  TypeOK
  BlocksSound
  SyncOnLive
  GaugesCover
PROPERTIES
  FrozenOnDemand
  NothingStranded
CHECK_DEADLOCK FALSE
