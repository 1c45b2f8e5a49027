SPECIFICATION Spec
CONSTANTS
  Call = {c1, c2}
  Options = {text, aot, debug}
  text = text
  inside = inside
  outside = outside
  Source = {s1, s2}
  World = {w1, w2}
  Dir = {outside, inside}
  UserPath <- MCUserPath
  SourcePath <- MCSourcePath
  DebugBindings = {debug}
  DebugBinary = {}
  Aot = {aot}
  SourceName <- MCSourceName
  SourcesDir <- MCSourcesDir
  Cwd <- MCCwd
  ShareOptions = FALSE
  Nil = Nil
SYMMETRY NameSymmetry
INVARIANTS
  TypeOK
  ExclusiveWorkDir
  DirsAccounted
  AnalysedIsInitialised
  SourceReachesInitialiser
  DebugDirKept
PROPERTY
  ImplementsContract
