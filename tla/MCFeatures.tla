----------------------------- MODULE MCFeatures -----------------------------
(* Features over all sets of features, all combinations of exports, and a  *)
(* world import of every kind the passes tell apart.                       *)
EXTENDS Features

MCWorldImports ==
  {{}, {"cli/environment"}, {"cli/terminal-input"}, {"filesystem/types"},
   {"sockets/udp", "cli/exit"}, {"clocks/wall-clock"}, {"io/poll"}}
=============================================================================
