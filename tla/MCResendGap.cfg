SPECIFICATION FairSpec

CONSTANTS
  p1 = p1
  p2 = p2
  Players = {p1, p2}
  Input = {0, 1}
  InputDelay = 0
  MaxPrediction = 2
  Ring = 4
  SnapshotSlots = 3
  MaxSendInputs = 2
  ThrottleGap = 9
  MayDie = {}
  MayFailSave = {}
  MayFailLoad = {}
  MayStop = {}
  MaxFrame = 5
  MaxInFlight = 1
  Divergent = {}
  DivergeFrom = 0
  Plays <- NonePlays
  Builds <- OneBuild
  Hash <- MCHash
  HashValue <- MCHashValue
  ZeroHash <- MCZeroHash
  NoSnapshot = NoSnapshot

PROPERTIES
  Progress
