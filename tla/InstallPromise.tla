---------------------------- MODULE InstallPromise ----------------------------
(* What one run of the user-local installer promises its user: the installed  *)
(* pair (application tree and launcher) is replaced by the requested build in *)
(* one step or not at all, and what the run reports tells which. Only a run   *)
(* that was cut short, or that failed again while undoing, may leave anything *)
(* else.                                                                      *)
CONSTANTS Builds,       \* the source trees that can be installed
          Pairs         \* what the two installed paths may hold

VARIABLES installed,    \* the installed pair
          target,       \* the build the run installs
          outcome       \* "running", "committed" or what the last run reported

vars == <<installed, target, outcome>>

Whole(b) == [app |-> b, launcher |-> b]

Running == outcome \in {"running", "committed"}

Init == /\ installed \in Pairs
        /\ target \in Builds
        /\ outcome = "none"

Start == /\ ~Running
         /\ target' \in Builds
         /\ outcome' = "running"
         /\ UNCHANGED installed

(* A run that is refused or fails in order has changed nothing.               *)
GiveUp == /\ outcome = "running"
          /\ outcome' \in {"refused", "failed"}
          /\ UNCHANGED <<installed, target>>

Commit == /\ outcome = "running"
          /\ installed' = Whole(target)
          /\ outcome' = "committed"
          /\ UNCHANGED target

(* After the commit the run can only report less than a full success.         *)
Report == /\ outcome = "committed"
          /\ outcome' \in {"ok", "unrecorded", "rejected", "handoff_failed",
                          "interrupted", "killed"}
          /\ UNCHANGED <<installed, target>>

Break == /\ outcome = "running"
         /\ installed' \in Pairs
         /\ outcome' \in {"undo_failed", "interrupted", "killed"}
         /\ UNCHANGED target

RemoveByHand == /\ ~Running
                /\ installed' \in Pairs
                /\ outcome' = "none"
                /\ UNCHANGED target

Next == Start \/ GiveUp \/ Commit \/ Report \/ Break \/ RemoveByHand

Spec == Init /\ [][Next]_vars
================================================================================
