SPECIFICATION Spec
CONSTANTS
  Call = {c1}
  Options = {file}
  text = text
  inside = inside
  outside = outside
  Source = {s1, s2}
  World = {w1, w2}
  Dir = {outside, inside}
  UserPath <- MCUserPath
  SourcePath <- MCSourcePath
  DebugBindings = {}
  DebugBinary = {file}
  Aot = {}
  SourceName <- MCSourceName
  SourcesDir <- MCSourcesDir
  Cwd <- MCCwd
  ShareOptions = FALSE
  Nil = Nil
SYMMETRY NameSymmetry
INVARIANT
  DebugOutputPresent
