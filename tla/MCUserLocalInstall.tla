-------------------------- MODULE MCUserLocalInstall --------------------------
(* Four builds: two commits published under one tag, a commit without a tag   *)
(* that has the same version, and a second release.                           *)
EXTENDS UserLocalInstall

CONSTANTS tagged, retagged, untagged, other

MCBuilds  == {tagged, retagged, untagged, other}
MCVersion == [b \in MCBuilds |-> IF b = other THEN 2 ELSE 1]
MCTag     == [b \in MCBuilds |-> IF b = other THEN "v2"
                                 ELSE IF b = untagged THEN NoTag ELSE "v1"]
================================================================================
