SPECIFICATION FairSpec

CONSTANTS
  p1 = p1
  p2 = p2
  Players = {p1, p2}
  Input = {0, 1}
  InputDelay = 0
  MaxPrediction = 1
  Ring = 4
  SnapshotSlots = 2
  MaxSendInputs = 2
  ThrottleGap = 2
  MayDie = {}
  MayFailSave = {}
  MayFailLoad = {p2}
  MayStop = {p2}
  MaxFrame = 2
  MaxInFlight = 1
  Divergent = {}
  DivergeFrom = 0
  Plays <- FirstMispredicted
  Builds <- OneBuild
  Hash <- MCHash
  HashValue <- MCHashValue
  ZeroHash <- MCZeroHash
  NoSnapshot = NoSnapshot

PROPERTIES
  Progress
