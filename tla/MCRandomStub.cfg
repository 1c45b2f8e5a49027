SPECIFICATION FairSpec
CONSTANT
  Words = 64
INVARIANTS
  TypeOK
  WritesInside
  ListFilled
PROPERTY
  Terminates
