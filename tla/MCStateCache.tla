----------------------------- MODULE MCStateCache -----------------------------
(* Two paths that hold two values, which no step tells apart.                 *)
EXTENDS StateCache, TLC

CONSTANTS high, low

MCPaths  == {"gain", "fader"}
MCValues == {high, low}
Alike    == Permutations(MCValues)
================================================================================
