---------------------------- MODULE MCPipeline ----------------------------
(* Small instances of Pipeline: options objects of every kind, and as many *)
(* directory names as calls, so that names collide.                        *)
EXTENDS Pipeline, TLC

CONSTANTS
  text,            \* options without a sourcePath
  inside, outside  \* names of working directories, see MCSourcesDir

MCCwd == <<"/", "a">>
MCSourceName == <<"s", ".", "j", "s">>

\* All other options name one file in the current directory.
UserFile == MCCwd \o <<"/", "f">>
MCUserPath == {UserFile}
MCSourcePath == [o \in Options |-> IF o = text THEN Nil ELSE UserFile]

\* A name the process draws with its temporary directory in the current one,
\* where the name of a source passed as text is cut to nothing.
MCSourcesDir ==
  [d \in Dir |-> IF d = inside THEN MCCwd \o <<"/", "s">> ELSE <<"/", "t", "/", "s">>]

NameSymmetry == Permutations(Call) \cup Permutations(Source) \cup Permutations(World)
=============================================================================
