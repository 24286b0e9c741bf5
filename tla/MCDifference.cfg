SPECIFICATION Spec

CONSTANTS
  p1 = p1
  p2 = p2
  Players = {p1, p2}
  Input = {0, 1}
  InputDelay = 2
  MaxPrediction = 1
  Ring = 6
  SnapshotSlots = 2
  MaxSendInputs = 6
  ThrottleGap = 9
  MayDie = {}
  MayFailSave = {p2}
  MayFailLoad = {p2}
  MayStop = {}
  MaxFrame = 8
  MaxInFlight = 1
  Divergent = {}
  DivergeFrom = 1
  Plays <- FirstMispredicted
  Builds <- OneBuild
  Hash <- MCHash
  HashValue <- MCHashValue
  ZeroHash <- MCZeroHash
  NoSnapshot = NoSnapshot

CONSTRAINT Uncorrected

INVARIANTS
  DifferenceReported
