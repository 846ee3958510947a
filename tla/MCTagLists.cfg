CONSTANTS
  Keys = {"u1", "u2", "d1", "aws"}
  AwsKeys = {"aws"}
  TagVals = {"", "x"}
  NoTag = NoTag
  DefaultTags <- MCDefaultTags
  NoKey = NoKey
  NoVal = NoVal
  Empty = ""
  UserLists <- MCUserLists
  MaxChanges = 2
SPECIFICATION Spec
INVARIANTS
  TypeOK
  NoDuplicates
  RoundTrip
PROPERTIES
  ImplementsMaps
  SyncSettles
  SettledStays
  Quiet
