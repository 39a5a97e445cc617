------------------------ MODULE MCConnectionHealth ------------------------
(***************************************************************************)
(* A console asked for its identity and two paths, for TLC.                *)
(***************************************************************************)
EXTENDS ConnectionHealth

AskedItems == <<"info", "gain", "rta">>
=============================================================================
