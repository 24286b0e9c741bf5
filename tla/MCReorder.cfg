SPECIFICATION Spec

CONSTANTS
  p1 = p1
  p2 = p2
  Players = {p1, p2}
  Input = {0, 1}
  InputDelay = 0
  MaxPrediction = 1
  Ring = 4
  SnapshotSlots = 2
  MaxSendInputs = 2
  ThrottleGap = 9
  MayDie = {p1}
  MayFailSave = {}
  MayFailLoad = {}
  MayStop = {}
  MaxFrame = 2
  MaxInFlight = 2
  Divergent = {p2}
  DivergeFrom = 1
  Plays <- OnePlays
  Builds <- TwoBuilds
  Hash <- MCHash
  HashValue <- MCHashValue
  ZeroHash <- MCZeroHash
  NoSnapshot = NoSnapshot

INVARIANTS
  DesyncIsReal
  BuildsNeverMix
  BuildInv
  FlowControl

PROPERTIES
  SettledNeverRetreats
  TakenWhole
