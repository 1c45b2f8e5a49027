SPECIFICATION Spec
CONSTANTS
  Fn <- MCFn
  FlatParams <- MCFlatParams
  RetArea <- MCRetArea
  Singular <- MCSingular
  Wide <- MCSingular
  Block = {b1, b2, b3, b4}
  MaxTasks = 2
  StepsPerCall = 4
  MaxRevivals = 1
  CarefulHost = FALSE
SYMMETRY AddressSymmetry
INVARIANTS
  TypeOK
  FreeListSound
  ResultsReadable
  InterestBalanced
  NothingSuspended
PROPERTIES
  AbortIsFinal
  ImplementsContract
