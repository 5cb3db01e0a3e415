SPECIFICATION FairSpec
CONSTANTS
  Params <- MCParams
  Kind <- MCKind
  Charted = {"length"}
  Low = 1
  High = 3
  Step = 1
  ServerHigh = 2
  Default <- MCDefault
  Typed <- MCTyped
  Choices = {{1, 2}, {1, 3}}
  NaN = NaN  Unknown = Unknown  Empty = Empty
  MaxGestures = 2
  MaxChanges = 1
  MaxLosses = 1
INVARIANTS
  SubscriptionsMatch
  ValuesShown
PROPERTIES
  ValuesSettle
CHECK_DEADLOCK FALSE
