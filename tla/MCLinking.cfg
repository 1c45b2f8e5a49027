SPECIFICATION Spec
CONSTANTS
  Items = 5
  Worlds <- MCWorlds
  Longer <- MCLonger
  Globals <- MCGlobals
  EngineServes <- MCEngineServes
  NameOrder <- MCNameOrder
  TypeOrder <- MCTypeOrder
  Engines <- MCEngines
INVARIANTS
  ReadyMeansComplete
  ExportsRunOwn
  ImportsReachHost
  IntrinsicsReachHost
  DirectionsMatchSide
  NoObjectServesTwo
  CompleteSourceAccepted
  
