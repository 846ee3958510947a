CONSTANTS
  Nil = Nil
  NoTag = NoTag
  MaxInt32 = 3
  DefaultedFields = {}
  DefaultValue = 0
  Keys = {}
  AwsKeys = {}
  TagVals = {}
  DefaultTags <- NoDefaultTags
  Fields = {}
  UserSpecs <- BareSpecs
  ForeignGroups <- BareSpecs
  Rejected = {}
  Outside = {"create", "delete"}
  MaxEdits = 2
  MaxFaults = 1
  MaxOutside = 1
SPECIFICATION Spec
CHECK_DEADLOCK FALSE
PROPERTIES
  OnlyOwnRead
