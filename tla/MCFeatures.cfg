SPECIFICATION Spec
CONSTANTS
  WorldImports <- MCWorldImports
  Versions = 2
  EngineVersion = 2
INVARIANTS
  OneImplementation
  PureWhenDisabled
  EnabledFeaturesKept
  UngovernedKept
