SPECIFICATION Spec
CONSTANTS
  Object = {o1, o2, o3, o4}
  MaxHandle = 3
SYMMETRY ObjectSymmetry
INVARIANTS
  HandlesAreOwn
  FinalizersMatchHandles
  TrapsAreMisuse
