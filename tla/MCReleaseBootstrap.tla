-------------------------- MODULE MCReleaseBootstrap --------------------------
(* Two commits of a stable version and one of a prerelease, each version with *)
(* its tag.                                                                   *)
EXTENDS ReleaseBootstrap

CONSTANTS a, b, p

MCCommits    == {a, b, p}
MCTags       == {"v1", "v2-rc"}
MCVersion    == [c \in MCCommits |-> IF c = p THEN "2-rc" ELSE "1"]
MCTagVersion == [t \in MCTags |-> IF t = "v1" THEN "1" ELSE "2-rc"]
MCPre        == [t \in MCTags |-> t = "v2-rc"]
================================================================================
