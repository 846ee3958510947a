CONSTANTS
  Nil = Nil
  NoTag = NoTag
  MaxInt32 = 3
  DefaultedFields = {"DesiredCapacity"}
  DefaultValue = 0
  Keys = {"env"}
  AwsKeys = {}
  TagVals = {"v1", "v2"}
  DefaultTags <- NoDefaultTags
  Fields = {"DesiredCapacity"}
  UserSpecs <- MixedSpecs
  ForeignGroups <- MixedGroups
  Rejected = {2}
  Outside = {"create", "delete", "drift"}
  MaxEdits = 3
  MaxFaults = 2
  MaxOutside = 2
SPECIFICATION Spec
CHECK_DEADLOCK FALSE
INVARIANTS
  SyncedIsTrue
PROPERTIES
  Converges
