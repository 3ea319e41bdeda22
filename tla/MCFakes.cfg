SPECIFICATION FairSpec
CONSTANTS
  Goroutines = {g1, g2}
  NoOne = NoOne
  Uses <- EachMethod
  MaxCalls = 2
  MaxConfigs = 1
INVARIANTS
  TypeOK
  BooksAgree
  OwnAnswer
PROPERTY CallsReturn
CHECK_DEADLOCK FALSE
