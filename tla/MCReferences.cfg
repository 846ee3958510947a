CONSTANTS
  NumSlots = 2
  Names = {"a"}
  Namespaces = {"own", "far"}
  OwnNs = "own"
  NoNs = NoNs
  Targets = {"t1", "t2"}
  Nil = Nil
  NoRef = NoRef
  Hollow = Hollow
  Unnamed = Unnamed
  Missing = Missing
  UserSpecs <- MCSpecs
  Objects <- MCObjects
  MaxEdits = 1
  MaxChanges = 2
  MaxFaults = 1
SPECIFICATION Spec
INVARIANTS
  TypeOK
  HandedOver
  ClearRestores
PROPERTIES
  Arrives
