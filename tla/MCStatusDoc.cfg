CONSTANTS
  Nil = Nil
  MaxInt32 = 3
  DefaultedFields <- MCDefaulted
  DefaultValue = 1
  Vals <- MCVals
  States = {warm}
  NoState = NoState
  MaxChanges = 3
SPECIFICATION Spec
PROPERTIES
  StatusShown
