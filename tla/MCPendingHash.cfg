SPECIFICATION HSpec

CONSTANTS
  p1 = p1
  p2 = p2
  Players = {p1, p2}
  Input = {0, 1}
  InputDelay = 1
  MaxPrediction = 1
  Ring = 8
  SnapshotSlots = 4
  MaxSendInputs = 4
  ThrottleGap = 9
  MayDie = {}
  MayFailSave = {}
  MayFailLoad = {}
  MayStop = {}
  MaxFrame = 4
  MaxInFlight = 1
  Divergent = {p2}
  DivergeFrom = 0
  Plays <- NonePlays
  Builds <- OneBuild
  Hash <- MCHash
  HashValue <- MCHashValue
  ZeroHash <- MCZeroHash
  NoSnapshot = NoSnapshot

PROPERTIES
  HashesCompared
