--------------------------- MODULE UserLocalInstall ---------------------------
(* The user-local installer: one run at a time prepares a candidate beside    *)
(* the installed application, swaps application and launcher by renames, and  *)
(* records in the install metadata where the application came from. Any step  *)
(* may raise, a keyboard interrupt runs only the finally clause, and a kill   *)
(* runs nothing. A step is cut at each rename, deletion or replacement, where *)
(* what is on disk changes.                                                   *)
CONSTANTS Builds,       \* staged source trees, each of one commit
          Version,      \* the pyproject version of a build
          Tag,          \* the release tag it was published under, or NoTag
          NoTag,
          Absent,       \* the path does not exist
          Torn          \* a tree whose deletion stopped half way

ASSUME InstallAssumption ==
    /\ Absent \notin Builds /\ Torn \notin Builds /\ Absent # Torn
    /\ \A b, c \in Builds :
          Tag[b] = Tag[c] /\ Tag[b] # NoTag => Version[b] = Version[c]

VARIABLES app,          \* the tree at app_path
          pending,      \* whether it holds .install-provenance-pending
          launcher,     \* the launcher at launcher_path, by the run that wrote it
          meta,         \* what the install metadata records, or Absent
          stage,        \* the staging directory of the run
          swapped,      \* the locals app_swapped and launcher_swapped
          pc,           \* where the run is
          cand,         \* the build it installs
          outcome,      \* what the last run reported
          before,       \* history: the disk when the run began
          stranded      \* history: previous trees left in abandoned staging dirs

vars == <<app, pending, launcher, meta, stage, swapped, pc, cand, outcome, before,
          stranded>>
staged == <<stage, swapped>>
disk == <<app, pending, launcher, meta>>

Trees     == Builds \cup {Absent, Torn}
Launchers == Builds \cup {Absent}
Staging   == [app : Launchers, launcher : Launchers,
              oldApp : Trees, oldPending : BOOLEAN, oldLauncher : Launchers]
EmptyStage == [app |-> Absent, launcher |-> Absent,
               oldApp |-> Absent, oldPending |-> FALSE, oldLauncher |-> Absent]

BuildSteps == {"materialize", "launcher", "synchronize"}
SwapSteps == {"saveApp", "placeApp", "saveLauncher", "placeLauncher", "chmod"}
UndoSteps == {"dropLauncher", "restoreLauncher", "dropApp", "restoreApp"}
DoneSteps == {"metadata", "unmark", "report", "handoff"}
Steps     == {"idle", "preflight"} \cup BuildSteps \cup SwapSteps \cup UndoSteps
                \cup DoneSteps

(* build_install_metadata: what is recorded of an installed build.            *)
Record(b) == [build |-> b, version |-> Version[b], tag |-> Tag[b]]
Records   == {Record(b) : b \in Builds}

(* The version read from the tree at app_path, where there is one to read.    *)
VersionMatches == app \in Builds => meta.version = Version[app]

(* What the runtime console asks before it shows where the application came   *)
(* from: metadata, no pending marker, and the version that is installed.      *)
Trusted == meta # Absent /\ ~pending /\ VersionMatches

(* What the verification of an installation asks: not for the marker.         *)
Verified == meta # Absent /\ VersionMatches

Snapshot == [app |-> app, launcher |-> launcher, trusted |-> Trusted]

Init == /\ app = Absent /\ pending = FALSE /\ launcher = Absent /\ meta = Absent
        /\ stage = EmptyStage /\ swapped = {}
        /\ pc = "idle" /\ cand \in Builds /\ outcome = "none"
        /\ before = Snapshot /\ stranded = {}

Goto(label) == pc' = label

(* A run that ends leaves its staging directory empty, or behind.             *)
End(result) == /\ pc' = "idle"
               /\ stage' = EmptyStage /\ swapped' = {}
               /\ outcome' = result
               /\ UNCHANGED <<cand, before>>

Begin(b) == /\ pc = "idle"
            /\ Goto("preflight")
            /\ cand' = b
            /\ before' = Snapshot
            /\ outcome' = "none"
            /\ UNCHANGED <<disk, staged, stranded>>

(* assert_same_tag_immutable, against whatever metadata is on disk.           *)
TagMoved == /\ meta # Absent
            /\ meta.tag # NoTag
            /\ meta.tag = Tag[cand]
            /\ meta.build # cand

(* Mutant: the metadata on disk are not compared with the candidate.          *)
PreflightPassesAlways == /\ pc = "preflight"
                         /\ Goto("materialize")
                         /\ UNCHANGED <<disk, staged, cand, outcome, before, stranded>>

PreflightPasses == /\ pc = "preflight"
                   /\ ~TagMoved
                   /\ Goto("materialize")
                   /\ UNCHANGED <<disk, staged, cand, outcome, before, stranded>>

(* Whatever else the preflight, uv or the boundary finds wrong.               *)
PreflightRefuses == /\ pc = "preflight"
                    /\ End("refused")
                    /\ UNCHANGED <<disk, stranded>>

(* The source tree is copied to a staging directory and marked pending.       *)
MaterializeApp == /\ pc = "materialize"
                  /\ stage' = [EmptyStage EXCEPT !.app = cand]
                  /\ Goto("launcher")
                  /\ UNCHANGED <<swapped, disk, cand, outcome, before, stranded>>

(* The candidate launcher already names the final paths.                      *)
WriteLauncher == /\ pc = "launcher"
                 /\ stage' = [stage EXCEPT !.launcher = cand]
                 /\ Goto("synchronize")
                 /\ UNCHANGED <<swapped, disk, cand, outcome, before, stranded>>

(* uv builds the environment inside the candidate and imports it.             *)
Synchronize == /\ pc = "synchronize"
               /\ Goto("saveApp")
               /\ UNCHANGED <<staged, disk, cand, outcome, before, stranded>>

SaveApp == /\ pc = "saveApp"
           /\ stage' = [stage EXCEPT !.oldApp = app, !.oldPending = pending]
           /\ app' = Absent /\ pending' = FALSE
           /\ Goto("placeApp")
           /\ UNCHANGED <<swapped, launcher, meta, cand, outcome, before, stranded>>

(* Mutant: the candidate carries no pending marker.                           *)
PlaceAppUnmarked == /\ pc = "placeApp"
                    /\ app' = stage.app /\ pending' = FALSE
                    /\ stage' = [stage EXCEPT !.app = Absent]
                    /\ swapped' = swapped \cup {"app"}
                    /\ Goto("saveLauncher")
                    /\ UNCHANGED <<launcher, meta, cand, outcome, before, stranded>>

PlaceApp == /\ pc = "placeApp"
            /\ app' = stage.app /\ pending' = TRUE
            /\ stage' = [stage EXCEPT !.app = Absent]
            /\ swapped' = swapped \cup {"app"}
            /\ Goto("saveLauncher")
            /\ UNCHANGED <<launcher, meta, cand, outcome, before, stranded>>

SaveLauncher == /\ pc = "saveLauncher"
                /\ stage' = [stage EXCEPT !.oldLauncher = launcher]
                /\ launcher' = Absent
                /\ Goto("placeLauncher")
                /\ UNCHANGED <<swapped, app, pending, meta, cand, outcome, before, stranded>>

PlaceLauncher == /\ pc = "placeLauncher"
                 /\ launcher' = stage.launcher
                 /\ stage' = [stage EXCEPT !.launcher = Absent]
                 /\ swapped' = swapped \cup {"launcher"}
                 /\ Goto("chmod")
                 /\ UNCHANGED <<app, pending, meta, cand, outcome, before, stranded>>

(* Mutant: the staging directory stays.                                       *)
SwappedUncleaned == /\ pc = "chmod"
                    /\ swapped' = {}
                    /\ Goto("metadata")
                    /\ UNCHANGED <<stage, disk, cand, outcome, before, stranded>>

(* The try ends and the finally removes the staging directory, backups too.   *)
Swapped == /\ pc = "chmod"
           /\ stage' = EmptyStage /\ swapped' = {}
           /\ Goto("metadata")
           /\ UNCHANGED <<disk, cand, outcome, before, stranded>>

(* A step raises, whether it builds the candidate or swaps: the handler       *)
(* undoes what app_swapped and launcher_swapped say was done.                 *)
StepRaises == /\ pc \in BuildSteps \cup SwapSteps
              /\ Goto("dropLauncher")
              /\ UNCHANGED <<disk, staged, cand, outcome, before, stranded>>

AppSwapped      == "app" \in swapped
LauncherSwapped == "launcher" \in swapped

DropLauncher == /\ pc = "dropLauncher"
                /\ launcher' = IF LauncherSwapped THEN Absent ELSE launcher
                /\ Goto("restoreLauncher")
                /\ UNCHANGED <<app, pending, meta, staged, cand, outcome, before, stranded>>

(* Mutant: the previous launcher is forgotten.                                *)
RestoreNoLauncher == /\ pc = "restoreLauncher"
                     /\ Goto("dropApp")
                     /\ UNCHANGED <<disk, staged, cand, outcome, before, stranded>>

RestoreLauncher == /\ pc = "restoreLauncher"
                   /\ launcher' = IF stage.oldLauncher = Absent THEN launcher
                                                               ELSE stage.oldLauncher
                   /\ stage' = [stage EXCEPT !.oldLauncher = Absent]
                   /\ Goto("dropApp")
                   /\ UNCHANGED <<swapped, app, pending, meta, cand, outcome, before, stranded>>

(* Mutant: what is at app_path goes, swapped or not.                          *)
DropAppAlways == /\ pc = "dropApp"
                 /\ app' = Absent /\ pending' = FALSE
                 /\ Goto("restoreApp")
                 /\ UNCHANGED <<launcher, meta, staged, cand, outcome, before, stranded>>

DropApp == /\ pc = "dropApp"
           /\ app'     = IF AppSwapped THEN Absent ELSE app
           /\ pending' = (pending /\ ~AppSwapped)
           /\ Goto("restoreApp")
           /\ UNCHANGED <<launcher, meta, staged, cand, outcome, before, stranded>>

RestoreApp == /\ pc = "restoreApp"
              /\ app'     = IF stage.oldApp = Absent THEN app ELSE stage.oldApp
              /\ pending' = IF stage.oldApp = Absent THEN pending ELSE stage.oldPending
              /\ End("failed")
              /\ UNCHANGED <<launcher, meta, stranded>>

(* A deletion that stops half way has removed any part of the tree, its       *)
(* marker perhaps first of all.                                               *)
Tearing == \/ UNCHANGED <<app, pending>>
           \/ /\ pc = "dropApp" /\ AppSwapped
              /\ app' = Torn
              /\ pending' \in {pending, FALSE}

(* Something raises inside the handler: the finally still deletes the backup. *)
UndoRaises == /\ pc \in UndoSteps
              /\ Tearing
              /\ End("undo_failed")
              /\ UNCHANGED <<launcher, meta, stranded>>

(* A KeyboardInterrupt is no Exception: the handler is skipped or left, and   *)
(* the finally deletes the staging directory.                                 *)
Interrupt == /\ pc # "idle"
             /\ Tearing
             /\ End("interrupted")
             /\ UNCHANGED <<launcher, meta, stranded>>

Kill == /\ pc # "idle"
        /\ Tearing
        /\ stranded' = stranded \cup ({stage.oldApp} \ {Absent})
        /\ End("killed")
        /\ UNCHANGED <<launcher, meta>>

(* write_install_metadata: a temporary file, then one replacement.            *)
MetadataWritten == /\ pc = "metadata"
                   /\ meta' = Record(cand)
                   /\ Goto("unmark")
                   /\ UNCHANGED <<app, pending, launcher, staged, cand, outcome, before, stranded>>

(* An OSError before or after the replacement leaves the marker in place.     *)
MetadataFails == /\ pc = "metadata"
                 /\ meta' \in {meta, Record(cand)}
                 /\ outcome' = "unrecorded" /\ Goto("report")
                 /\ UNCHANGED <<app, pending, launcher, staged, cand, before, stranded>>

(* _validate_document is stricter than build_install_metadata, for instance   *)
(* about a home directory that is a symbolic link, and runs after the swap.   *)
MetadataRejected == /\ pc = "metadata"
                    /\ End("rejected")
                    /\ UNCHANGED <<disk, stranded>>

Unmark == /\ pc = "unmark"
          /\ pending' = FALSE
          /\ outcome' = "ok" /\ Goto("report")
          /\ UNCHANGED <<app, launcher, meta, staged, cand, before, stranded>>

UnmarkFails == /\ pc = "unmark"
               /\ outcome' = "unrecorded" /\ Goto("report")
               /\ UNCHANGED <<disk, staged, cand, before, stranded>>

(* The guidance that follows is deferred when it raises. The run ends, or, on *)
(* a terminal, hands over to the installed console.                           *)
Report == /\ pc = "report"
          /\ \/ End(outcome)
             \/ Goto("handoff") /\ UNCHANGED <<staged, cand, outcome, before>>
          /\ UNCHANGED <<disk, stranded>>

(* The installer's process becomes the launcher's, or waits for it.           *)
Handoff == /\ pc = "handoff"
           /\ launcher # Absent /\ app # Absent
           /\ End(outcome)
           /\ UNCHANGED <<disk, stranded>>

(* The launcher does not start, or returns an error.                          *)
HandoffFails == /\ pc = "handoff"
                /\ End("handoff_failed")
                /\ UNCHANGED <<disk, stranded>>

(* The lifecycle guidance has the user delete the application or the          *)
(* launcher; the metadata stays.                                              *)
RemoveByHand == /\ pc = "idle"
                /\ \/ app' = Absent /\ pending' = FALSE /\ UNCHANGED launcher
                   \/ launcher' = Absent /\ UNCHANGED <<app, pending>>
                /\ before' = [app |-> app', launcher |-> launcher', trusted |-> FALSE]
                /\ outcome' = "none"
                /\ UNCHANGED <<meta, staged, pc, cand, stranded>>

Build == MaterializeApp \/ WriteLauncher \/ Synchronize
Swap  == SaveApp \/ PlaceApp \/ SaveLauncher \/ PlaceLauncher \/ Swapped \/ StepRaises
Undo  == DropLauncher \/ RestoreLauncher \/ DropApp \/ RestoreApp \/ UndoRaises
Write == MetadataWritten \/ MetadataFails \/ MetadataRejected \/ Unmark \/ UnmarkFails
         \/ Report \/ Handoff \/ HandoffFails

Next == \/ \E b \in Builds : Begin(b)
        \/ PreflightPasses \/ PreflightRefuses
        \/ Build \/ Swap \/ Undo \/ Write
        \/ Interrupt \/ Kill
        \/ RemoveByHand

Spec == Init /\ [][Next]_vars

--------------------------------------------------------------------------------
Outcomes == {"none", "refused", "failed", "undo_failed", "interrupted", "killed",
             "unrecorded", "rejected", "handoff_failed", "ok"}

(* Every variable stays in its set; the staging directory is empty outside    *)
(* the swap, and no launcher is torn.                                         *)
TypeOK == /\ app \in Trees /\ pending \in BOOLEAN /\ launcher \in Launchers
          /\ meta \in Records \cup {Absent}
          /\ stage \in Staging /\ swapped \subseteq {"app", "launcher"} /\ pc \in Steps
          /\ cand \in Builds /\ outcome \in Outcomes
          /\ before \in [app : Trees, launcher : Launchers, trusted : BOOLEAN]
          /\ stranded \subseteq Builds \cup {Torn}
          /\ pc \notin BuildSteps \cup SwapSteps \cup UndoSteps
                => stage = EmptyStage /\ swapped = {}

(* Where the runtime console says the installed application came from is      *)
(* where it came from: after a swap whose record failed, was interrupted or   *)
(* was undone, even when the two builds have one version.                     *)
ProvenanceTrue == app \in Builds /\ Trusted => meta.build = app

(* After a run that reported that its record could not be written, the        *)
(* verification does not name another build as the source.                    *)
VerifiedTrue == pc = "idle" /\ outcome = "unrecorded" /\ app \in Builds /\ Verified
                   => meta.build = app

(* Whatever raises or kills the run, the tree that was installed when it      *)
(* began is in place, in a staging directory or replaced by a whole           *)
(* candidate. Only an interrupt and a failing undo, which delete the staging  *)
(* directory on their way out, may lose it.                                   *)
PreviousTreeSurvives ==
    \/ before.app \in {app, stage.oldApp} \cup stranded \cup {Absent, Torn}
    \/ app = cand
    \/ outcome \in {"undo_failed", "interrupted"}

(* One release tag names one commit: an installed release whose record is     *)
(* trusted is never replaced by another commit of its own tag.                *)
TagNamesOneCommit ==
    /\ before.trusted /\ before.app \in Builds
    /\ app = cand /\ pc \in SwapSteps \cup DoneSteps
    /\ Tag[before.app] # NoTag /\ Tag[before.app] = Tag[cand]
    => before.app = cand

(* The run implements the promise: the installed pair is what the disk held   *)
(* before, until the finally clause of a swap that went through.              *)
Promise == INSTANCE InstallPromise WITH
    Pairs     <- [app : Trees, launcher : Launchers],
    installed <- IF pc \in SwapSteps \cup UndoSteps
                   THEN [app |-> before.app, launcher |-> before.launcher]
                   ELSE [app |-> app, launcher |-> launcher],
    target    <- cand,
    outcome   <- CASE pc \in DoneSteps -> "committed"
                   [] pc = "idle"       -> outcome
                   [] OTHER             -> "running"

(* Every report is true: "refused" and "failed" mean that nothing changed,    *)
(* and the others after the swap that the requested build is installed.       *)
PromiseSpec == Promise!Spec
================================================================================
