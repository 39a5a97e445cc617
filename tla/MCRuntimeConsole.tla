-------------------------- MODULE MCRuntimeConsole --------------------------
(***************************************************************************)
(* Two endpoints and the two commands that read the console, for TLC.      *)
(***************************************************************************)
EXTENDS RuntimeConsole
=============================================================================
