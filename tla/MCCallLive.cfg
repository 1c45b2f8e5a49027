SPECIFICATION FairSpec
CONSTANTS
  Fn <- MCFn
  FlatParams <- MCFlatParams
  RetArea <- MCRetArea
  Singular <- MCSingular
  Wide <- MCSingular
  Block = {b1, b2, b3}
  MaxTasks = 2
  StepsPerCall = 4
  MaxRevivals = 0
  CarefulHost = TRUE
INVARIANT
  CarefulHostNeverRefused
PROPERTIES
  CallEnds
  CompletionReturns
