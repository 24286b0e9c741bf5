SPECIFICATION Spec

CONSTANTS
  p1 = p1
  p2 = p2
  p3 = p3
  Players = {p1, p2, p3}
  Input = {0, 1}
  InputDelay = 0
  MaxPrediction = 1
  Ring = 4
  SnapshotSlots = 2
  MaxSendInputs = 2
  ThrottleGap = 9
  MayDie = {}
  MayFailSave = {}
  MayFailLoad = {}
  MayStop = {}
  MaxFrame = 1
  MaxInFlight = 1
  Divergent = {}
  DivergeFrom = 0
  Plays <- OthersMispredicted
  Builds <- OneBuild
  Hash <- MCHash
  HashValue <- MCHashValue
  ZeroHash <- MCZeroHash
  NoSnapshot = NoSnapshot

SYMMETRY Peers

CONSTRAINT FewInFlight

INVARIANTS
  FlowControl
  SettledIsLockstep
  CorrectionsDue
