SPECIFICATION Spec
CONSTANTS
  Call = {c1, c2}
  Options = {text}
  text = text
  inside = inside
  outside = outside
  Source = {s1, s2}
  World = {w1, w2}
  Dir = {outside, inside}
  UserPath <- MCUserPath
  SourcePath <- MCSourcePath
  DebugBindings = {}
  DebugBinary = {}
  Aot = {}
  SourceName <- MCSourceName
  SourcesDir <- MCSourcesDir
  Cwd <- MCCwd
  ShareOptions = TRUE
  Nil = Nil
SYMMETRY NameSymmetry
INVARIANT
  LegacyWorldHonoured
