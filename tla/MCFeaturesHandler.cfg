SPECIFICATION Spec
CONSTANTS
  WorldImports <- MCWorldImports
  Versions = 2
  EngineVersion = 2
INVARIANT
  CustomHandlerUsed
