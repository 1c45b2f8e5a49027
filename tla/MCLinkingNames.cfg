SPECIFICATION Spec
CONSTANTS
  Items = 3
  Worlds <- MCWorlds
  Longer <- MCLonger
  Globals <- MCGlobals
  EngineServes <- MCEngineServes
  NameOrder <- MCNameOrder
  TypeOrder <- MCTypeOrder
  Engines <- MCEngines
INVARIANT
  EveryExportRunsOwn
