----------------------------- MODULE MCStartup ------------------------------
(* A small instance of Startup: three processes are enough for one that     *)
(* shuts down, one that waits for its lock and one that comes afterwards.   *)
EXTENDS StartupInv, TLC

CONSTANTS d1, d2, d3

MCDaemons == {d1, d2, d3}

\* The processes are interchangeable.
Symmetry == Permutations(MCDaemons)
=============================================================================
