SPECIFICATION Spec

CONSTANTS
  BodyKind = {"dynamic"}
  Raw = "raw"
  InputCounts = {0, 2}
  SlotCounts = {0, 2}
  Slots <- MCSlots
  NoWorld = NoWorld
  NoContext = NoContext
  Empty = Empty
  NoSide = NoSide
  MayFailSave = TRUE
  MaxMotion = 3

INVARIANTS
  WorldTypeOK
  SideMatchesPhysics
  RecordingSound

PROPERTIES
  ImplementsContract
