SPECIFICATION Spec

CONSTANTS
  mesh = mesh
  terrain = terrain
  compound = compound
  Geometry = {mesh, terrain, compound}
  Compound = {compound}
  SlotCounts = {0, 1}
  Slots = {0, 1}
  FirstCapacity = 0
  NoWorld = NoWorld
  NoImage = NoImage
  MayFail = FALSE
  ReinitAnyTime = TRUE
  MaxContexts = 2
  WorldObj = WorldObj
  SimObj = SimObj
  s1 = s1
  Session = {s1}
  NoObject = NoObject
  MayFree <- MCMayFree

SYMMETRY Alike

CHECK_DEADLOCK FALSE

INVARIANTS
  ShapesHaveGeometry
