CONSTANTS
  Nil = Nil
  NoTag = NoTag
  MaxInt32 = 3
  DefaultedFields = {}
  DefaultValue = 0
  Keys = {}
  AwsKeys = {}
  TagVals = {}
  DefaultTags <- NoDefaultTags
  Fields = {}
  UserSpecs <- BareSpecs
  ForeignGroups <- BareSpecs
  Rejected = {}
  Outside = {"create", "delete"}
  MaxEdits = 5
  MaxFaults = 3
  MaxOutside = 3
SPECIFICATION Spec
CHECK_DEADLOCK FALSE
INVARIANTS
  TypeOK
  NoOrphan
  NoSilentStop
PROPERTIES
  DeletionSettles
  ImplementsClaim
