CONSTANTS
  Nil = Nil
  NoTag = NoTag
  MaxInt32 = 3
  DefaultedFields = {}
  DefaultValue = 0
  Keys = {"env", "ack", "aws"}
  AwsKeys = {"aws"}
  TagVals = {"v1", "v2"}
  DefaultTags <- ControllerTags
  Fields = {}
  UserSpecs <- TagSpecs
  ForeignGroups <- TagGroups
  Rejected = {}
  Outside = {"create", "delete", "drift"}
  MaxEdits = 3
  MaxFaults = 1
  MaxOutside = 2
SPECIFICATION Spec
CHECK_DEADLOCK FALSE
INVARIANTS
  SyncedIsTrue
  SystemTagsLeftAlone
PROPERTIES
  ForeignUntouched
  Converges
