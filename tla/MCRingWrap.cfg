SPECIFICATION Spec

CONSTANTS
  p1 = p1
  p2 = p2
  Players = {p1, p2}
  Input = {0, 1}
  InputDelay = 1
  MaxPrediction = 1
  Ring = 6
  SnapshotSlots = 2
  MaxSendInputs = 4
  ThrottleGap = 9
  MayDie = {}
  MayFailSave = {}
  MayFailLoad = {}
  MayStop = {}
  MaxFrame = 7
  MaxInFlight = 1
  Divergent = {}
  DivergeFrom = 0
  Plays <- FirstPlays
  Builds <- OneBuild
  Hash <- MCHash
  HashValue <- MCHashValue
  ZeroHash <- MCZeroHash
  NoSnapshot = NoSnapshot

CONSTRAINT LateChange

INVARIANTS
  RollbackTargetSaved
  SnapshotInv
  HistoryInv
  PacketsGenuine
  GenuineInv
  FlowControl
  FlowInv
  ResendCovers
  JoinInv
  NothingRefused

PROPERTIES
  SettledNeverRetreats
  SlowestReleased
