SPECIFICATION Spec
CONSTANTS
  Worlds <- MCWorlds
  MaxFlat = 2
  MinUsable = 3
  HeapBase = 2
  Page = 8
  MaxBrk = 64
INVARIANTS
  ArgumentsArrive
  ResultsArrive
  WritesInside
  AccessInView
