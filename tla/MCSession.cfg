SPECIFICATION Spec

CONSTANTS
  p1 = p1
  p2 = p2
  Players = {p1, p2}
  Input = {0, 1}
  InputDelay = 0
  MaxPrediction = 2
  Ring = 4
  SnapshotSlots = 3
  MaxSendInputs = 4
  ThrottleGap = 9
  MayDie = {}
  MayFailSave = {}
  MayFailLoad = {}
  MayStop = {}
  MaxFrame = 3
  MaxInFlight = 1
  Divergent = {}
  DivergeFrom = 0
  Plays <- OnePlays
  Builds <- OneBuild
  Hash <- MCHash
  HashValue <- MCHashValue
  ZeroHash <- MCZeroHash
  NoSnapshot = NoSnapshot

INVARIANTS
  TypeOK
  SettledIsLockstep
  MaskMatches
  CorrectionsDue
  RollbackTargetSaved
  ReportInv

PROPERTIES
  ImplementsLockstep
