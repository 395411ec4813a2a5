CONSTANTS
  NPages = 2
  PagesPerPacket = 1
  Order <- MCOrder
  Region <- MCRegion
  Reads <- MCReads
  StructureFinds <- MCStructureFinds
  DoclingFinds <- MCDoclingFinds
  DoclingFails = {2}
  Split = "train"
  TargetPages = 1
  CapPages = 1
  ActionMemory = 1000
  Parsers = {"mineru"}
  MaxPackets = 1
  MaxDiscoveries = 1
  MaxInferences = 2
  Decisions = {"approve", "reject"}
  Watched = {"c2"}
  MaxGestures = 2
  MaxEvents = 2
SPECIFICATION Spec
INVARIANTS EvidenceIsSound DecisionsAreSound
PROPERTIES ExportedStands
CHECK_DEADLOCK FALSE
