------------------------ MODULE UserLocalInstall_proofs ------------------------
(* What holds of the user-local installer for any builds, versions and tags,  *)
(* wherever its runs are cut: its invariant, and that it keeps its promise.   *)
EXTENDS UserLocalInstall, TLAPS

(* A path still holds what it held, or that lies in the staging directory.    *)
Held(now, old, was) == \/ now = was /\ old = Absent
                       \/ now = Absent /\ old = was

(* The locals app_swapped and launcher_swapped tell how far the swap is.      *)
Swapping ==
    /\ pc \in {"preflight", "saveApp"} \cup BuildSteps =>
          /\ app = before.app /\ stage.oldApp = Absent
          /\ launcher = before.launcher /\ stage.oldLauncher = Absent
          /\ swapped = {}
    /\ pc = "placeApp" =>
          /\ app = Absent /\ stage.oldApp = before.app
          /\ launcher = before.launcher /\ stage.oldLauncher = Absent
          /\ swapped = {}
    /\ pc \in {"saveLauncher", "placeLauncher", "chmod"} =>
          app = cand /\ pending /\ stage.oldApp = before.app
    /\ pc = "saveLauncher" =>
          /\ launcher = before.launcher /\ stage.oldLauncher = Absent
          /\ swapped = {"app"}
    /\ pc = "placeLauncher" =>
          /\ launcher = Absent /\ stage.oldLauncher = before.launcher
          /\ swapped = {"app"}
    /\ pc = "chmod" =>
          /\ launcher = cand /\ stage.oldLauncher = before.launcher
          /\ swapped = {"app", "launcher"}

(* What the swap moves into place is the candidate.                           *)
Candidate ==
    /\ pc \in {"launcher", "synchronize", "saveApp", "placeApp"} => stage.app = cand
    /\ pc \in {"synchronize", "saveApp", "placeApp", "saveLauncher", "placeLauncher"} =>
          stage.launcher = cand

(* The handler puts back the launcher, then the application.                  *)
Undoing ==
    /\ pc = "dropLauncher" =>
          IF LauncherSwapped THEN launcher = cand /\ stage.oldLauncher = before.launcher
                             ELSE Held(launcher, stage.oldLauncher, before.launcher)
    /\ pc = "restoreLauncher" => Held(launcher, stage.oldLauncher, before.launcher)
    /\ pc \in {"dropApp", "restoreApp"} => launcher = before.launcher
    /\ pc \in {"dropLauncher", "restoreLauncher", "dropApp"} =>
          IF AppSwapped THEN app = cand /\ stage.oldApp = before.app
                        ELSE Held(app, stage.oldApp, before.app)
    /\ pc = "restoreApp" => Held(app, stage.oldApp, before.app)

(* After the swap the marker stays until the record is the candidate's.       *)
Recording ==
    /\ pc \in DoneSteps => app = cand /\ launcher = cand
    /\ pc \in {"metadata", "unmark"} => pending
    /\ pc = "unmark" => meta = Record(cand)
    /\ pc \in {"report", "handoff"} => outcome \in {"ok", "unrecorded"}

(* What a restored tree would claim of its origin is true.                    *)
SavedTrue ==
    /\ stage.oldApp \in Builds /\ ~stage.oldPending
    /\ meta # Absent /\ meta.version = Version[stage.oldApp]
    => meta.build = stage.oldApp

(* The preflight compares the tag with a record that it can trust.            *)
SameTag == /\ before.trusted /\ before.app \in Builds
           /\ Tag[before.app] # NoTag /\ Tag[before.app] = Tag[cand]
           => before.app = cand
TagCompared == /\ pc = "preflight" => before = Snapshot
               /\ pc \notin {"idle", "preflight"} => SameTag

IInv == /\ TypeOK
        /\ Swapping /\ Candidate /\ Undoing /\ Recording
        /\ ProvenanceTrue /\ SavedTrue
        /\ PreviousTreeSurvives
        /\ TagCompared

--------------------------------------------------------------------------------
LEMMA InitHolds == ASSUME Init PROVE IInv
<1> USE InstallAssumption
<1>1. TypeOK
    <2>1. /\ app \in Trees /\ launcher \in Launchers /\ stage \in Staging
          /\ Trusted \in BOOLEAN
        BY DEF Init, Trees, Launchers, EmptyStage, Staging, Trusted
    <2>2. before \in [app : Trees, launcher : Launchers, trusted : BOOLEAN]
        BY <2>1 DEF Init, Snapshot
    <2> QED BY <2>1, <2>2 DEF Init, TypeOK, Steps, Outcomes
<1>2. pc = "idle" /\ app = Absent /\ stage.oldApp = Absent
    BY DEF Init, EmptyStage
<1>3. Swapping /\ Candidate /\ Undoing /\ Recording
    BY <1>2 DEF Swapping, Candidate, Undoing, Recording, BuildSteps, DoneSteps
<1>4. ProvenanceTrue /\ SavedTrue /\ PreviousTreeSurvives /\ TagCompared
    BY <1>2 DEF Init, Snapshot, ProvenanceTrue, SavedTrue, PreviousTreeSurvives, TagCompared
<1> QED BY <1>1, <1>3, <1>4 DEF IInv

(* A run begins.                                                              *)
LEMMA BeginHolds == ASSUME IInv, NEW b \in Builds, Begin(b) PROVE IInv'
<1> USE InstallAssumption DEF IInv
<1>1. /\ pc = "idle" /\ pc' = "preflight"
      /\ stage = EmptyStage /\ swapped = {}
      /\ UNCHANGED <<disk, staged, stranded>>
      /\ before' = Snapshot /\ cand' = b
    BY DEF Begin, Goto, TypeOK, BuildSteps, SwapSteps, UndoSteps
<1>2. TypeOK'
    <2>1. Trusted \in BOOLEAN
        BY DEF Trusted
    <2>2. before' \in [app : Trees, launcher : Launchers, trusted : BOOLEAN]
        BY <1>1, <2>1 DEF TypeOK, Snapshot
    <2> QED BY <1>1, <2>2 DEF TypeOK, disk, staged, Steps, Begin, Outcomes
<1>3. Swapping' /\ Candidate' /\ Undoing' /\ Recording'
    BY <1>1 DEF Swapping, Candidate, Undoing, Recording, BuildSteps, DoneSteps,
                Snapshot, EmptyStage, disk, staged
<1>4. ProvenanceTrue' /\ SavedTrue'
    BY <1>1 DEF ProvenanceTrue, SavedTrue, Trusted, VersionMatches, disk, staged
<1>5. PreviousTreeSurvives'
    BY <1>1 DEF PreviousTreeSurvives, Snapshot, disk, staged
<1>6. TagCompared'
    BY <1>1 DEF TagCompared, Snapshot, Trusted, VersionMatches, disk
<1> QED BY <1>2, <1>3, <1>4, <1>5, <1>6

(* The steps that build the candidate touch only the staging directory.       *)
LEMMA BuildHolds ==
    ASSUME IInv, PreflightPasses \/ MaterializeApp \/ WriteLauncher \/ Synchronize
    PROVE  IInv'
<1> USE InstallAssumption DEF IInv
<1>1. /\ UNCHANGED <<disk, cand, outcome, before, stranded, swapped>>
      /\ pc \in {"preflight", "materialize", "launcher", "synchronize"}
      /\ pc' \in {"materialize", "launcher", "synchronize", "saveApp"}
      /\ pc' = "materialize" => PreflightPasses
    BY DEF PreflightPasses, MaterializeApp, WriteLauncher, Synchronize, Goto, staged
<1>2. /\ stage' \in Staging
      /\ stage'.oldApp = stage.oldApp /\ stage'.oldLauncher = stage.oldLauncher
      /\ stage.oldApp = Absent /\ stage.oldLauncher = Absent
    <2>1. stage.oldApp = Absent /\ stage.oldLauncher = Absent
        BY <1>1 DEF Swapping, BuildSteps
    <2>2. CASE MaterializeApp
        BY <2>1, <2>2 DEF MaterializeApp, TypeOK, Staging, EmptyStage, Launchers, Trees
    <2>3. CASE WriteLauncher
        BY <2>1, <2>3 DEF WriteLauncher, TypeOK, Staging, Launchers
    <2>4. CASE PreflightPasses \/ Synchronize
        BY <2>1, <2>4 DEF PreflightPasses, Synchronize, staged, TypeOK
    <2> QED BY <2>1, <2>2, <2>3, <2>4
<1>3. TypeOK'
    BY <1>1, <1>2 DEF TypeOK, disk, Steps, BuildSteps, SwapSteps
<1>4. Swapping'
    BY <1>1, <1>2 DEF Swapping, disk, BuildSteps
<1>5. Candidate'
    BY <1>1 DEF Candidate, PreflightPasses, MaterializeApp, WriteLauncher, Synchronize,
                Goto, staged, TypeOK, Staging, EmptyStage
<1>6. Undoing' /\ Recording'
    BY <1>1 DEF Undoing, Recording, DoneSteps
<1>7. ProvenanceTrue' /\ SavedTrue' /\ PreviousTreeSurvives'
    BY <1>1, <1>2 DEF ProvenanceTrue, Trusted, VersionMatches, SavedTrue,
                      PreviousTreeSurvives, disk
<1>8. TagCompared'
    <2>1. CASE pc = "preflight"
        <3> SUFFICES ASSUME before.trusted, before.app \in Builds,
                            Tag[before.app] # NoTag, Tag[before.app] = Tag[cand]
                     PROVE  before.app = cand
            BY <1>1 DEF TagCompared, SameTag
        <3>1. Trusted /\ app = before.app
            BY <2>1 DEF TagCompared, Snapshot
        <3>2. meta.build = before.app /\ meta \in Records
            BY <3>1 DEF ProvenanceTrue, Trusted, TypeOK
        <3>3. meta.tag = Tag[before.app]
            BY <3>2 DEF Records, Record
        <3>4. ~TagMoved
            BY <1>1, <2>1 DEF PreflightPasses, MaterializeApp, WriteLauncher, Synchronize
        <3> QED BY <3>1, <3>2, <3>3, <3>4 DEF TagMoved, Trusted
    <2>2. CASE pc # "preflight"
        BY <1>1, <2>2 DEF TagCompared, SameTag
    <2> QED BY <2>1, <2>2
<1> QED BY <1>3, <1>4, <1>5, <1>6, <1>7, <1>8

(* The four renames, each with the local that tells of it, and the cleanup.   *)
LEMMA SwapHolds ==
    ASSUME IInv, SaveApp \/ PlaceApp \/ SaveLauncher \/ PlaceLauncher \/ Swapped
    PROVE  IInv'
<1> USE InstallAssumption DEF IInv
<1> DEFINE A == SaveApp \/ PlaceApp \/ SaveLauncher \/ PlaceLauncher \/ Swapped
<1>1. UNCHANGED <<meta, cand, outcome, before, stranded>>
    BY DEF SaveApp, PlaceApp, SaveLauncher, PlaceLauncher, Swapped, disk
<1>2. /\ pc \in SwapSteps
      /\ pc' \in {"placeApp", "saveLauncher", "placeLauncher", "chmod", "metadata"}
    BY DEF SaveApp, PlaceApp, SaveLauncher, PlaceLauncher, Swapped, Goto, SwapSteps
<1>3. TypeOK'
    <2>1. stage' \in Staging /\ app' \in Trees /\ launcher' \in Launchers
        <3>1. CASE SaveApp \/ PlaceApp
            BY <3>1 DEF SaveApp, PlaceApp, TypeOK, Staging, Trees, Launchers
        <3>2. CASE SaveLauncher \/ PlaceLauncher
            BY <3>2 DEF SaveLauncher, PlaceLauncher, TypeOK, Staging, Launchers
        <3>3. CASE Swapped
            BY <3>3 DEF Swapped, disk, TypeOK, Staging, EmptyStage, Trees, Launchers
        <3> QED BY <3>1, <3>2, <3>3
    <2>2. /\ pending' \in BOOLEAN /\ swapped' \subseteq {"app", "launcher"}
          /\ pc' = "metadata" => stage' = EmptyStage /\ swapped' = {}
        BY DEF SaveApp, PlaceApp, SaveLauncher, PlaceLauncher, Swapped, Goto, disk, TypeOK
    <2> QED BY <1>1, <1>2, <2>1, <2>2 DEF TypeOK, Steps, SwapSteps, DoneSteps
<1>4. Swapping'
    <2>1. CASE SaveApp
        BY <2>1 DEF SaveApp, Swapping, BuildSteps, Goto, TypeOK, Staging
    <2>2. CASE PlaceApp
        BY <2>2 DEF PlaceApp, Swapping, Candidate, BuildSteps, Goto, TypeOK, Staging
    <2>3. CASE SaveLauncher
        BY <2>3 DEF SaveLauncher, Swapping, BuildSteps, Goto, TypeOK, Staging
    <2>4. CASE PlaceLauncher
        BY <2>4 DEF PlaceLauncher, Swapping, Candidate, BuildSteps, Goto, TypeOK, Staging
    <2>5. CASE Swapped
        BY <2>5 DEF Swapped, Swapping, BuildSteps, Goto
    <2> QED BY <2>1, <2>2, <2>3, <2>4, <2>5
<1>5. Candidate'
    BY DEF SaveApp, PlaceApp, SaveLauncher, PlaceLauncher, Swapped, Candidate, Goto,
           TypeOK, Staging
<1>6. Undoing'
    BY <1>2 DEF Undoing
<1>7. Recording'
    BY <1>2 DEF Recording, DoneSteps, Swapping, SaveApp, PlaceApp, SaveLauncher,
                PlaceLauncher, Swapped, Goto, disk
<1>8. ProvenanceTrue' /\ SavedTrue'
    <2>1. CASE SaveApp
        BY <1>1, <2>1 DEF SaveApp, ProvenanceTrue, SavedTrue, Trusted, VersionMatches,
                          TypeOK, Staging
    <2>2. CASE PlaceApp
        BY <1>1, <2>2 DEF PlaceApp, ProvenanceTrue, SavedTrue, Trusted, TypeOK, Staging
    <2>3. CASE SaveLauncher \/ PlaceLauncher
        BY <1>1, <2>3 DEF SaveLauncher, PlaceLauncher, ProvenanceTrue, SavedTrue, Trusted,
                          VersionMatches, TypeOK, Staging
    <2>4. CASE Swapped
        BY <1>1, <2>4 DEF Swapped, ProvenanceTrue, SavedTrue, Trusted, VersionMatches,
                          disk, EmptyStage
    <2> QED BY <2>1, <2>2, <2>3, <2>4
<1>9. PreviousTreeSurvives'
    BY <1>1, <1>2, <1>4, <1>7 DEF PreviousTreeSurvives, Swapping, Recording, DoneSteps,
                                  SaveApp, PlaceApp, SaveLauncher, PlaceLauncher,
                                  Swapped, Goto
<1>10. TagCompared'
    BY <1>1, <1>2 DEF TagCompared, SameTag, SwapSteps
<1> QED BY <1>3, <1>4, <1>5, <1>6, <1>7, <1>8, <1>9, <1>10

(* A step raises: what the two locals say is what the handler will find.      *)
LEMMA RaiseHolds == ASSUME IInv, StepRaises PROVE IInv'
<1> USE InstallAssumption DEF IInv
<1>1. /\ pc \in BuildSteps \cup SwapSteps /\ pc' = "dropLauncher"
      /\ UNCHANGED <<disk, staged, cand, outcome, before, stranded>>
    BY DEF StepRaises, Goto
<1>2. TypeOK'
    BY <1>1 DEF TypeOK, disk, staged, Steps, UndoSteps
<1>3. Swapping' /\ Candidate' /\ Recording'
    BY <1>1 DEF Swapping, Candidate, Recording, BuildSteps, DoneSteps
<1>4. Undoing'
    BY <1>1 DEF Undoing, Swapping, Held, AppSwapped, LauncherSwapped, BuildSteps, SwapSteps,
                disk, staged
<1>5. ProvenanceTrue' /\ SavedTrue' /\ PreviousTreeSurvives'
    BY <1>1 DEF ProvenanceTrue, Trusted, VersionMatches, SavedTrue, PreviousTreeSurvives,
                disk, staged
<1>6. TagCompared'
    BY <1>1 DEF TagCompared, SameTag, BuildSteps, SwapSteps
<1> QED BY <1>2, <1>3, <1>4, <1>5, <1>6

LEMMA UndoHolds ==
    ASSUME IInv, DropLauncher \/ RestoreLauncher \/ DropApp
    PROVE  IInv'
<1> USE InstallAssumption DEF IInv
<1>1. /\ UNCHANGED <<meta, cand, outcome, before, stranded, swapped>>
      /\ pc \in {"dropLauncher", "restoreLauncher", "dropApp"}
      /\ pc' \in {"restoreLauncher", "dropApp", "restoreApp"}
    BY DEF DropLauncher, RestoreLauncher, DropApp, Goto, staged
<1>2. /\ stage' \in Staging /\ app' \in Trees /\ launcher' \in Launchers
      /\ pending' \in BOOLEAN
    <2>1. CASE DropLauncher \/ DropApp
        BY <2>1 DEF DropLauncher, DropApp, staged, TypeOK, Launchers, Trees
    <2>2. CASE RestoreLauncher
        BY <2>2 DEF RestoreLauncher, TypeOK, Launchers, Staging
    <2> QED BY <2>1, <2>2
<1>3. TypeOK'
    BY <1>1, <1>2 DEF TypeOK, Steps, UndoSteps
<1>4. Swapping' /\ Candidate' /\ Recording'
    BY <1>1 DEF Swapping, Candidate, Recording, BuildSteps, DoneSteps
<1>5. Undoing'
    <2>1. CASE DropLauncher
        BY <2>1 DEF DropLauncher, Undoing, Held, AppSwapped, LauncherSwapped, Goto, staged
    <2>2. CASE RestoreLauncher
        BY <2>2 DEF RestoreLauncher, Undoing, Held, AppSwapped, Goto, TypeOK, Staging
    <2>3. CASE DropApp
        BY <2>3 DEF DropApp, Undoing, Held, AppSwapped, Goto, staged
    <2> QED BY <2>1, <2>2, <2>3
<1>6. ProvenanceTrue' /\ SavedTrue'
    <2>1. stage'.oldApp = stage.oldApp /\ stage'.oldPending = stage.oldPending
        BY DEF DropLauncher, RestoreLauncher, DropApp, staged, TypeOK, Staging
    <2>2. app' = Absent \/ (app' = app /\ pending' = pending)
        BY DEF DropLauncher, RestoreLauncher, DropApp, TypeOK
    <2> QED BY <1>1, <2>1, <2>2 DEF ProvenanceTrue, SavedTrue, Trusted, VersionMatches
<1>7. PreviousTreeSurvives'
    BY <1>1, <1>5 DEF PreviousTreeSurvives, Undoing, Held
<1>8. TagCompared'
    BY <1>1 DEF TagCompared, SameTag
<1> QED BY <1>3, <1>4, <1>5, <1>6, <1>7, <1>8

(* A run ends, in any way, with or without a torn application.                *)
LEMMA EndHolds ==
    ASSUME IInv, NEW result \in Outcomes, End(result), pc # "idle",
           UNCHANGED <<launcher, meta>> \/ RestoreApp,
           app' \in Trees, pending' \in BOOLEAN, launcher' \in Launchers, meta' = meta,
           stranded' \subseteq Builds \cup {Torn},
           ProvenanceTrue', PreviousTreeSurvives'
    PROVE  IInv'
<1> USE InstallAssumption DEF IInv, End
<1>1. TypeOK'
    BY DEF TypeOK, Steps, Staging, EmptyStage, Launchers, Trees
<1>2. Swapping' /\ Candidate' /\ Undoing' /\ Recording'
    BY DEF Swapping, Candidate, Undoing, Recording, BuildSteps, DoneSteps
<1>3. SavedTrue' /\ TagCompared'
    BY DEF SavedTrue, TagCompared, EmptyStage
<1> QED BY <1>1, <1>2, <1>3

LEMMA RestoreAppHolds == ASSUME IInv, RestoreApp PROVE IInv'
<1> USE InstallAssumption DEF IInv
<1>1. /\ pc = "restoreApp" /\ End("failed")
      /\ UNCHANGED <<launcher, meta, stranded>>
      /\ app' = IF stage.oldApp = Absent THEN app ELSE stage.oldApp
      /\ pending' = IF stage.oldApp = Absent THEN pending ELSE stage.oldPending
    BY DEF RestoreApp
<1>2. app' \in Trees /\ pending' \in BOOLEAN
    BY <1>1 DEF TypeOK, Staging
<1>3. ProvenanceTrue'
    BY <1>1 DEF ProvenanceTrue, SavedTrue, Trusted, VersionMatches
<1>4. app' = before.app
    BY <1>1 DEF Undoing, Held
<1>5. PreviousTreeSurvives'
    BY <1>1, <1>4 DEF PreviousTreeSurvives, End
<1> QED BY <1>1, <1>2, <1>3, <1>5, EndHolds DEF TypeOK, Outcomes

(* An end before, after or outside the swap leaves the disk as it is.         *)
LEMMA QuietEndHolds ==
    ASSUME IInv, NEW result \in Outcomes, End(result),
           pc = "preflight" \/ pc \in DoneSteps,
           UNCHANGED <<disk, stranded>>
    PROVE  IInv'
<1> USE InstallAssumption DEF IInv
<1>1. pc # "idle" /\ (app = before.app \/ app = cand)
    BY DEF DoneSteps, Swapping, Recording
<1>2. ProvenanceTrue'
    BY DEF ProvenanceTrue, Trusted, VersionMatches, disk
<1>3. PreviousTreeSurvives'
    BY <1>1 DEF PreviousTreeSurvives, End, disk
<1> QED BY <1>1, <1>2, <1>3, EndHolds DEF TypeOK, disk

(* An interrupt, a kill, an undo that raises.                                 *)
LEMMA CutHolds == ASSUME IInv, UndoRaises \/ Interrupt \/ Kill PROVE IInv'
<1> USE InstallAssumption DEF IInv
<1>1. /\ pc # "idle" /\ Tearing /\ UNCHANGED <<launcher, meta>>
      /\ End("undo_failed") \/ End("interrupted") \/ End("killed")
    BY DEF UndoRaises, Interrupt, Kill, UndoSteps
<1>2. app' \in Trees /\ pending' \in BOOLEAN
    BY <1>1 DEF Tearing, TypeOK, Trees
<1>3. ProvenanceTrue'
    <2>1. (app' = app /\ pending' = pending) \/ app' = Torn
        BY <1>1 DEF Tearing
    <2> QED BY <1>1, <2>1 DEF ProvenanceTrue, Trusted, VersionMatches
<1>4. stranded' \subseteq Builds \cup {Torn}
    BY DEF UndoRaises, Interrupt, Kill, TypeOK, Staging, Trees
<1>5. PreviousTreeSurvives'
    <2>1. CASE UndoRaises \/ Interrupt
        BY <2>1 DEF UndoRaises, Interrupt, End, PreviousTreeSurvives
    <2>2. CASE Kill
        <3>1. /\ UNCHANGED <<before, cand>>
              /\ stranded' = stranded \cup ({stage.oldApp} \ {Absent})
            BY <2>2 DEF Kill, End
        <3>2. \/ app \in {cand, before.app} /\ ~(pc = "dropApp" /\ AppSwapped)
              \/ before.app \in {stage.oldApp, Absent}
            BY <1>1 DEF TypeOK, Steps, Swapping, Undoing, Recording, Held, AppSwapped,
                        UndoSteps, BuildSteps, SwapSteps, DoneSteps
        <3>3. CASE before.app \in {stage.oldApp, Absent}
            BY <3>1, <3>3 DEF PreviousTreeSurvives
        <3>4. CASE app \in {cand, before.app} /\ ~(pc = "dropApp" /\ AppSwapped)
            <4>1. app' = app
                BY <1>1, <3>4 DEF Tearing
            <4> QED BY <3>1, <3>4, <4>1 DEF PreviousTreeSurvives
        <3> QED BY <3>2, <3>3, <3>4
    <2> QED BY <2>1, <2>2
<1>6. {"undo_failed", "interrupted", "killed"} \subseteq Outcomes
    BY DEF Outcomes
<1> QED BY <1>1, <1>2, <1>3, <1>4, <1>5, <1>6, EndHolds DEF TypeOK

(* The record, the marker and the report.                                     *)
LEMMA WriteHolds ==
    ASSUME IInv, MetadataWritten \/ MetadataFails \/ Unmark \/ UnmarkFails
                 \/ (Report /\ pc' = "handoff")
    PROVE  IInv'
<1> USE InstallAssumption DEF IInv
<1>1. /\ pc \in DoneSteps /\ pc' \in {"unmark", "report", "handoff"}
      /\ UNCHANGED <<app, launcher, staged, cand, before, stranded>>
      /\ stage = EmptyStage /\ swapped = {}
    <2>1. pc \in DoneSteps /\ pc' \in {"unmark", "report", "handoff"}
        BY DEF MetadataWritten, MetadataFails, Unmark, UnmarkFails, Report, Goto, DoneSteps
    <2>2. UNCHANGED <<app, launcher, staged, cand, before, stranded>>
        BY DEF MetadataWritten, MetadataFails, Unmark, UnmarkFails, Report, disk, End
    <2>3. stage = EmptyStage /\ swapped = {}
        BY <2>1 DEF TypeOK, DoneSteps, BuildSteps, SwapSteps, UndoSteps
    <2> QED BY <2>1, <2>2, <2>3
<1>2. /\ meta' \in {meta, Record(cand)}
      /\ pending' \in {pending, FALSE}
      /\ outcome' \in {outcome, "unrecorded", "ok"}
      /\ meta' # meta => pending' = pending /\ pc = "metadata"
      /\ pending' # pending => Unmark
    BY DEF MetadataWritten, MetadataFails, Unmark, UnmarkFails, Report, disk, End
<1>3. TypeOK'
    BY <1>1, <1>2 DEF TypeOK, Records, Steps, DoneSteps, staged, Outcomes
<1>4. Swapping' /\ Candidate' /\ Undoing'
    BY <1>1 DEF Swapping, Candidate, Undoing, BuildSteps
<1>5. Recording'
    BY <1>1 DEF Recording, MetadataWritten, MetadataFails, Unmark, UnmarkFails, Report,
                Goto, DoneSteps, disk, End
<1>6. ProvenanceTrue'
    <2>1. CASE MetadataWritten \/ MetadataFails \/ UnmarkFails
        BY <1>1, <2>1 DEF MetadataWritten, MetadataFails, UnmarkFails, Recording,
                          ProvenanceTrue, Trusted, disk
    <2>2. CASE Unmark
        BY <1>1, <2>2 DEF Unmark, Recording, Record, ProvenanceTrue, DoneSteps
    <2>3. CASE Report
        BY <2>3 DEF Report, disk, ProvenanceTrue, Trusted, VersionMatches
    <2> QED BY <2>1, <2>2, <2>3
<1>7. SavedTrue' /\ PreviousTreeSurvives' /\ TagCompared'
    BY <1>1 DEF SavedTrue, PreviousTreeSurvives, Recording, TagCompared, SameTag,
                DoneSteps, EmptyStage, staged
<1> QED BY <1>3, <1>4, <1>5, <1>6, <1>7

LEMMA ByHandHolds == ASSUME IInv, RemoveByHand PROVE IInv'
<1> USE InstallAssumption DEF IInv
<1>1. /\ pc = "idle" /\ pc' = "idle"
      /\ UNCHANGED <<meta, staged, cand, stranded>>
      /\ app' = Absent \/ UNCHANGED <<app, pending>>
      /\ app' \in Trees /\ launcher' \in Launchers /\ pending' \in BOOLEAN
      /\ before' = [app |-> app', launcher |-> launcher', trusted |-> FALSE]
      /\ outcome' = "none"
    BY DEF RemoveByHand, TypeOK, Trees, Launchers
<1>2. TypeOK'
    BY <1>1 DEF TypeOK, staged, Outcomes
<1>3. Swapping' /\ Candidate' /\ Undoing' /\ Recording' /\ TagCompared'
    BY <1>1 DEF Swapping, Candidate, Undoing, Recording, TagCompared, BuildSteps, DoneSteps
<1>4. ProvenanceTrue' /\ SavedTrue' /\ PreviousTreeSurvives'
    BY <1>1 DEF ProvenanceTrue, Trusted, VersionMatches, SavedTrue, PreviousTreeSurvives,
                staged
<1> QED BY <1>2, <1>3, <1>4

--------------------------------------------------------------------------------
LEMMA StepHolds == ASSUME IInv, [Next]_vars PROVE IInv'
<1> {"refused", "rejected", "handoff_failed"} \subseteq Outcomes /\ outcome \in Outcomes
    BY DEF IInv, TypeOK, Outcomes
<1>1. CASE \E b \in Builds : Begin(b)
    BY <1>1, BeginHolds
<1>2. CASE PreflightPasses \/ Build
    BY <1>2, BuildHolds DEF Build
<1>3. CASE PreflightRefuses
    BY <1>3, QuietEndHolds DEF PreflightRefuses
<1>4. CASE Swap
    BY <1>4, SwapHolds, RaiseHolds DEF Swap
<1>5. CASE Undo
    BY <1>5, UndoHolds, RestoreAppHolds, CutHolds DEF Undo
<1>6. CASE MetadataRejected \/ Handoff \/ HandoffFails
    BY <1>6, QuietEndHolds DEF MetadataRejected, Handoff, HandoffFails, DoneSteps
<1>7. CASE Report
    <2>1. pc = "report" /\ UNCHANGED <<disk, stranded>> /\ (End(outcome) \/ pc' = "handoff")
        BY <1>7 DEF Report, Goto
    <2>2. CASE End(outcome)
        BY <2>1, <2>2, QuietEndHolds DEF DoneSteps
    <2> QED BY <1>7, <2>1, <2>2, WriteHolds
<1>8. CASE MetadataWritten \/ MetadataFails \/ Unmark \/ UnmarkFails
    BY <1>8, WriteHolds
<1>9. CASE Interrupt \/ Kill
    BY <1>9, CutHolds
<1>10. CASE RemoveByHand
    BY <1>10, ByHandHolds
<1>11. CASE UNCHANGED vars
    BY <1>11 DEF vars, disk, staged, IInv, TypeOK, Swapping, Candidate, Undoing, Recording,
                 AppSwapped, LauncherSwapped, ProvenanceTrue, Trusted, VersionMatches,
                 SavedTrue, PreviousTreeSurvives, TagCompared, SameTag, Snapshot
<1> QED BY <1>1, <1>2, <1>3, <1>4, <1>5, <1>6, <1>7, <1>8, <1>9, <1>10, <1>11
        DEF Next, Write

LEMMA Invariance == Spec => []IInv
<1>1. Init => IInv
    BY InitHolds
<1>2. IInv /\ [Next]_vars => IInv'
    BY StepHolds
<1> QED BY <1>1, <1>2, PTL DEF Spec

(* Every variable of the installer stays in its set, and its staging          *)
(* directory is empty outside the swap.                                       *)
THEOREM TypeCorrect == Spec => []TypeOK
<1>1. IInv => TypeOK
    BY DEF IInv
<1> QED BY <1>1, Invariance, PTL

(* What the runtime console trusts names the build that is installed.         *)
THEOREM TrustedIsTrue == Spec => []ProvenanceTrue
<1>1. IInv => ProvenanceTrue
    BY DEF IInv
<1> QED BY <1>1, Invariance, PTL

(* Only an interrupt or a failing undo loses the previous application.        *)
THEOREM PreviousSurvives == Spec => []PreviousTreeSurvives
<1>1. IInv => PreviousTreeSurvives
    BY DEF IInv
<1> QED BY <1>1, Invariance, PTL

(* No trusted release is replaced by another commit of its tag.               *)
THEOREM OneCommitPerTag == Spec => []TagNamesOneCommit
<1>1. IInv => TagNamesOneCommit
    BY DEF IInv, TagCompared, SameTag, TagNamesOneCommit, SwapSteps, DoneSteps
<1> QED BY <1>1, Invariance, PTL

--------------------------------------------------------------------------------
(* The refinement. What the promise calls installed is the disk, or, while    *)
(* the swap is under way, what the disk held before it.                       *)
Installed == IF pc \in SwapSteps \cup UndoSteps
               THEN [app |-> before.app, launcher |-> before.launcher]
               ELSE [app |-> app, launcher |-> launcher]
Reported == CASE pc \in DoneSteps -> "committed"
              [] pc = "idle"       -> outcome
              [] OTHER             -> "running"

LEMMA PairsTyped ==
    ASSUME TypeOK
    PROVE  Installed \in [app : Trees, launcher : Launchers]
BY DEF Installed, TypeOK

(* A step between begin and end that does not reach the finally clause.       *)
LEMMA WorkStutters ==
    ASSUME IInv, UNCHANGED <<before, cand>>,
           pc # "idle", pc \notin DoneSteps, pc' # "idle", pc' \notin DoneSteps,
           UNCHANGED <<app, launcher>> \/ pc \in SwapSteps \cup UndoSteps,
           \/ pc' \in SwapSteps \cup UndoSteps
           \/ pc' \in BuildSteps /\ pc \in BuildSteps \cup {"preflight"}
    PROVE  UNCHANGED <<Installed, Reported>>
<1>1. pc \notin SwapSteps \cup UndoSteps => app = before.app /\ launcher = before.launcher
    BY DEF IInv, TypeOK, Steps, Swapping
<1>2. BuildSteps \cap (SwapSteps \cup UndoSteps) = {} /\ "preflight" \notin SwapSteps \cup UndoSteps
    BY DEF BuildSteps, SwapSteps, UndoSteps
<1> QED BY <1>1, <1>2 DEF Installed, Reported

(* A step after the commit, before the report.                                *)
LEMMA WriteStutters ==
    ASSUME UNCHANGED <<app, launcher>>, pc \in DoneSteps, pc' \in DoneSteps
    PROVE  UNCHANGED <<Installed, Reported>>
BY DEF Installed, Reported, DoneSteps, SwapSteps, UndoSteps

LEMMA StepIsPromised ==
    ASSUME IInv, IInv', [Next]_vars
    PROVE  [Promise!Next]_(Promise!vars)
<1> USE DEF IInv
<1>1. SUFFICES ASSUME ~UNCHANGED <<Installed, cand, Reported>>
               PROVE  Promise!Next
    BY DEF Promise!vars, Installed, Reported
<1>2. /\ DoneSteps \cap (SwapSteps \cup UndoSteps) = {}
      /\ "idle" \notin DoneSteps \cup SwapSteps \cup UndoSteps
      /\ "preflight" \notin DoneSteps \cup SwapSteps \cup UndoSteps
    BY DEF DoneSteps, SwapSteps, UndoSteps
<1>3. /\ pc = "idle" => Reported = outcome
      /\ pc' = "idle" => Reported' = outcome' /\ Installed' = [app |-> app', launcher |-> launcher']
      /\ pc \in DoneSteps => Reported = "committed"
      /\ pc' \in DoneSteps => Reported' = "committed"
      /\ pc # "idle" /\ pc \notin DoneSteps => Reported = "running"
      /\ pc' # "idle" /\ pc' \notin DoneSteps => Reported' = "running"
    BY <1>2 DEF Reported, Installed
<1>4. /\ outcome \notin {"running", "committed"}
      /\ Installed' \in [app : Trees, launcher : Launchers]
    BY PairsTyped DEF TypeOK, Outcomes, Installed
<1>5. CASE \E b \in Builds : Begin(b)
    <2>1. /\ pc = "idle" /\ pc' = "preflight" /\ cand' \in Builds
          /\ UNCHANGED <<app, launcher>>
        BY <1>5 DEF Begin, Goto, disk
    <2>2. Installed' = Installed
        BY <2>1, <1>2 DEF Installed
    <2>3. Promise!Start
        BY <2>1, <2>2, <1>2, <1>3, <1>4 DEF Promise!Start, Promise!Running, Installed, Reported
    <2> QED BY <2>3 DEF Promise!Next
<1>6. CASE PreflightPasses \/ Build \/ SaveApp \/ PlaceApp \/ SaveLauncher
             \/ PlaceLauncher \/ StepRaises \/ DropLauncher \/ RestoreLauncher \/ DropApp
    <2>1. /\ UNCHANGED <<before, cand>>
          /\ pc # "idle" /\ pc \notin DoneSteps /\ pc' # "idle" /\ pc' \notin DoneSteps
          /\ UNCHANGED <<app, launcher>> \/ pc \in SwapSteps \cup UndoSteps
          /\ \/ pc' \in SwapSteps \cup UndoSteps
             \/ pc' \in BuildSteps /\ pc \in BuildSteps \cup {"preflight"}
        BY <1>6 DEF PreflightPasses, Build, MaterializeApp, WriteLauncher, Synchronize,
                    SaveApp, PlaceApp, SaveLauncher, PlaceLauncher, StepRaises,
                    DropLauncher, RestoreLauncher, DropApp, Goto, disk,
                    BuildSteps, SwapSteps, UndoSteps, DoneSteps
    <2>2. UNCHANGED <<Installed, Reported>>
        BY ONLY IInv, <2>1, WorkStutters
    <2> QED BY <2>1, <2>2, <1>1
<1>7. CASE MetadataWritten \/ MetadataFails \/ Unmark \/ UnmarkFails
             \/ (Report /\ pc' = "handoff")
    <2>1. UNCHANGED <<app, launcher, cand>> /\ pc \in DoneSteps /\ pc' \in DoneSteps
        BY <1>7 DEF MetadataWritten, MetadataFails, Unmark, UnmarkFails, Report, Goto,
                    DoneSteps, disk, End
    <2> QED BY <2>1, <1>1, WriteStutters
<1>8. CASE Swapped
    <2>1. /\ pc = "chmod" /\ pc' = "metadata" /\ UNCHANGED cand
          /\ app' = cand /\ launcher' = cand
        BY <1>8 DEF Swapped, Swapping, Goto, disk
    <2>2. /\ Installed' = Promise!Whole(cand)
          /\ Reported = "running" /\ Reported' = "committed"
        BY <2>1 DEF Installed, Reported, Promise!Whole, DoneSteps, SwapSteps, UndoSteps
    <2>3. Promise!Commit
        BY <2>1, <2>2 DEF Promise!Commit, Promise!Whole, Installed, Reported
    <2> QED BY <2>3 DEF Promise!Next
<1>9. CASE PreflightRefuses \/ RestoreApp
    <2>1. /\ pc # "idle" /\ pc \notin DoneSteps /\ pc' = "idle" /\ UNCHANGED cand
          /\ outcome' \in {"refused", "failed"}
        BY <1>9, <1>2 DEF PreflightRefuses, RestoreApp, End, DoneSteps
    <2>2. Installed' = Installed
        <3>1. CASE PreflightRefuses
            BY <3>1, <1>2 DEF PreflightRefuses, End, disk, Installed
        <3>2. CASE RestoreApp
            <4>1. app' = before.app /\ launcher' = before.launcher /\ pc \in UndoSteps
                BY <3>2 DEF RestoreApp, Undoing, Held, UndoSteps
            <4> QED BY <4>1, <2>1, <1>2 DEF Installed
        <3> QED BY <1>9, <3>1, <3>2
    <2>3. Promise!GiveUp
        BY <2>1, <2>2, <1>3 DEF Promise!GiveUp, Installed, Reported
    <2> QED BY <2>3 DEF Promise!Next
<1>10. CASE (Report /\ pc' # "handoff") \/ MetadataRejected \/ Handoff \/ HandoffFails
              \/ ((Interrupt \/ Kill) /\ pc \in DoneSteps)
    <2>1. /\ pc \in DoneSteps /\ pc' = "idle" /\ UNCHANGED <<cand, app, launcher>>
          /\ outcome' \in {"ok", "unrecorded", "rejected", "handoff_failed",
                           "interrupted", "killed"}
        BY <1>10 DEF Report, MetadataRejected, Handoff, HandoffFails, Interrupt, Kill,
                     Tearing, End, Goto, disk, DoneSteps, Recording
    <2>2. Installed' = Installed
        BY <2>1, <1>2 DEF Installed
    <2>3. Promise!Report
        BY <2>1, <2>2, <1>3 DEF Promise!Report, Installed, Reported
    <2> QED BY <2>3 DEF Promise!Next
<1>11. CASE UndoRaises \/ ((Interrupt \/ Kill) /\ pc \notin DoneSteps)
    <2>1. /\ pc # "idle" /\ pc \notin DoneSteps /\ pc' = "idle" /\ UNCHANGED cand
          /\ outcome' \in {"undo_failed", "interrupted", "killed"}
        BY <1>11 DEF UndoRaises, Interrupt, Kill, End, UndoSteps, DoneSteps
    <2>2. Promise!Break
        BY <2>1, <1>3, <1>4 DEF Promise!Break, Installed, Reported
    <2> QED BY <2>2 DEF Promise!Next
<1>12. CASE RemoveByHand
    <2>1. pc = "idle" /\ pc' = "idle" /\ outcome' = "none" /\ UNCHANGED cand
        BY <1>12 DEF RemoveByHand
    <2>2. Promise!RemoveByHand
        BY <2>1, <1>3, <1>4 DEF Promise!RemoveByHand, Promise!Running, Installed, Reported
    <2> QED BY <2>2 DEF Promise!Next
<1>13. CASE UNCHANGED vars
    BY <1>1, <1>13 DEF vars, Installed, Reported
<1> QED BY <1>5, <1>6, <1>7, <1>8, <1>9, <1>10, <1>11, <1>12, <1>13
        DEF Next, Build, Swap, Undo, Write

(* The installer keeps its promise: the installed pair changes in one step,   *)
(* at the end of a swap that went through, "refused" and "failed" are         *)
(* reported of an unchanged disk, and success of the requested build.         *)
THEOREM KeepsPromise == Spec => PromiseSpec
<1>1. Init => Promise!Init
    <2> SUFFICES ASSUME Init PROVE Promise!Init
        OBVIOUS
    <2>1. TypeOK /\ pc = "idle" /\ outcome = "none"
        BY InitHolds DEF Init, IInv
    <2>2. Installed \in [app : Trees, launcher : Launchers] /\ Reported = "none"
        BY <2>1, PairsTyped DEF Reported, DoneSteps
    <2> QED BY <2>1, <2>2 DEF Promise!Init, Installed, Reported, TypeOK
<1>2. IInv /\ IInv' /\ [Next]_vars => [Promise!Next]_(Promise!vars)
    BY StepIsPromised
<1> QED BY <1>1, <1>2, Invariance, PTL DEF Spec, PromiseSpec, Promise!Spec

--------------------------------------------------------------------------------
(* What the last run reported, for as long as nothing else has happened.      *)

(* What the runtime console would make of a tree beside the metadata on disk. *)
TrustOf(tree, marked) ==
    meta # Absent /\ ~marked /\ (tree \in Builds => meta.version = Version[tree])

(* A marker is in a tree: where there is none, there is no marker.            *)
MarkNeedsTree == /\ app = Absent => ~pending
                 /\ stage.oldApp = Absent => ~stage.oldPending

(* The tree that would be put back, in place or set aside.                    *)
InPlace == stage.oldApp = Absent /\ ~AppSwapped

(* Until the swap is through, that tree is trusted as it was before the run.  *)
TrustSaved ==
    pc # "idle" /\ pc \notin DoneSteps =>
       (before.trusted <=> IF InPlace THEN TrustOf(app, pending)
                                      ELSE TrustOf(stage.oldApp, stage.oldPending))

(* What was swapped in is gone before the previous tree is put back.          *)
DroppedGone == pc = "restoreApp" /\ AppSwapped => app = Absent

OkRecorded == pc \in {"report", "handoff"} /\ outcome = "ok"
                 => ~pending /\ meta = Record(cand)

(* After "refused" and "failed" the disk is as the run found it, down to      *)
(* whether the application's origin is trusted; after every report from the   *)
(* far side of the swap application and launcher are the requested build's;   *)
(* and after "ok" so is the record, and nothing marks it as pending.          *)
ReportsTrue ==
    pc = "idle" =>
       /\ outcome \in {"refused", "failed"} => before = Snapshot
       /\ outcome \in {"ok", "unrecorded", "rejected", "handoff_failed"} =>
             app = cand /\ launcher = cand
       /\ outcome = "ok" => ~pending /\ meta = Record(cand)

RInv == MarkNeedsTree /\ TrustSaved /\ DroppedGone /\ OkRecorded /\ ReportsTrue

LEMMA MarksKept ==
    ASSUME IInv, MarkNeedsTree, [Next]_vars
    PROVE  MarkNeedsTree'
<1> USE InstallAssumption DEF MarkNeedsTree
<1>0. TypeOK
    BY DEF IInv
<1>1. CASE stage' = EmptyStage /\ UNCHANGED <<app, pending>>
    BY <1>1 DEF EmptyStage
<1>2. CASE UNCHANGED <<stage, app, pending>>
    BY <1>2
<1>3. CASE MaterializeApp \/ WriteLauncher
    BY <1>0, <1>3 DEF MaterializeApp, WriteLauncher, disk, EmptyStage, TypeOK, Staging
<1>4. CASE SaveApp
    BY <1>0, <1>4 DEF SaveApp, TypeOK, Staging
<1>5. CASE PlaceApp
    <2>1. stage.app = cand
        BY <1>5 DEF PlaceApp, IInv, Candidate
    <2> QED BY <1>0, <1>5, <2>1 DEF PlaceApp, TypeOK, Staging
<1>6. CASE SaveLauncher \/ PlaceLauncher \/ RestoreLauncher
    BY <1>0, <1>6 DEF SaveLauncher, PlaceLauncher, RestoreLauncher, TypeOK, Staging
<1>7. CASE DropApp
    BY <1>7 DEF DropApp, staged, AppSwapped
<1>8. CASE RestoreApp
    BY <1>0, <1>8 DEF RestoreApp, End, EmptyStage, TypeOK, Staging
<1>9. CASE UndoRaises \/ Interrupt \/ Kill
    <2>1. Tearing /\ stage' = EmptyStage
        BY <1>9 DEF UndoRaises, Interrupt, Kill, End
    <2>2. app' = Torn \/ UNCHANGED <<app, pending>>
        BY <2>1 DEF Tearing
    <2>3. CASE app' = Torn
        BY <2>1, <2>3 DEF EmptyStage
    <2> QED BY <1>1, <2>1, <2>2, <2>3
<1>10. CASE RemoveByHand
    BY <1>10 DEF RemoveByHand, staged
<1>11. CASE Unmark
    BY <1>11 DEF Unmark, staged
<1>12. CASE \/ \E b \in Builds : Begin(b)
            \/ PreflightPasses \/ Synchronize \/ StepRaises \/ DropLauncher
            \/ MetadataWritten \/ MetadataFails \/ UnmarkFails \/ UNCHANGED vars
    BY <1>2, <1>12 DEF Begin, PreflightPasses, Synchronize, StepRaises, DropLauncher,
                       MetadataWritten, MetadataFails, UnmarkFails, vars, disk, staged
<1>13. CASE \/ PreflightRefuses \/ Swapped \/ MetadataRejected \/ Report \/ Handoff
            \/ HandoffFails
    BY <1>1, <1>2, <1>13 DEF PreflightRefuses, Swapped, MetadataRejected, Report, Handoff,
                             HandoffFails, End, disk, staged
<1> QED BY <1>3, <1>4, <1>5, <1>6, <1>7, <1>8, <1>9, <1>10, <1>11, <1>12, <1>13
        DEF Next, Build, Swap, Undo, Write

LEMMA TrustKept ==
    ASSUME IInv, MarkNeedsTree, TrustSaved, [Next]_vars
    PROVE  TrustSaved'
<1> USE InstallAssumption
<1>0. TypeOK
    BY DEF IInv
<1>1. CASE pc' = "idle" \/ pc' \in DoneSteps
    BY <1>1 DEF TrustSaved
<1>2. CASE \E b \in Builds : Begin(b)
    <2>1. /\ before' = Snapshot /\ UNCHANGED <<app, pending, meta, stage, swapped>>
          /\ stage = EmptyStage /\ swapped = {}
        BY <1>0, <1>2 DEF Begin, disk, staged, TypeOK, BuildSteps, SwapSteps, UndoSteps
    <2> QED BY <2>1 DEF TrustSaved, InPlace, AppSwapped, EmptyStage, Snapshot, Trusted,
                        VersionMatches, TrustOf
<1>3. ASSUME pc # "idle", pc \notin DoneSteps, UNCHANGED <<before, meta>>,
             IF InPlace THEN \/ InPlace' /\ UNCHANGED <<app, pending>>
                             \/ /\ ~InPlace' /\ stage'.oldApp = app
                                /\ stage'.oldPending = pending
                        ELSE /\ ~InPlace' /\ stage'.oldApp = stage.oldApp
                             /\ stage'.oldPending = stage.oldPending
      PROVE  TrustSaved'
    BY <1>3 DEF TrustSaved, TrustOf
<1>4. CASE PreflightPasses \/ Synchronize \/ StepRaises \/ DropLauncher
    <2>1. /\ pc # "idle" /\ pc \notin DoneSteps
          /\ UNCHANGED <<before, meta, app, pending, stage, swapped>>
        BY <1>4 DEF PreflightPasses, Synchronize, StepRaises, DropLauncher, disk, staged,
                    BuildSteps, SwapSteps, DoneSteps
    <2> QED BY <1>3, <2>1 DEF InPlace, AppSwapped
<1>5. CASE MaterializeApp \/ WriteLauncher \/ SaveLauncher \/ PlaceLauncher
           \/ RestoreLauncher
    <2>1. /\ pc # "idle" /\ pc \notin DoneSteps
          /\ UNCHANGED <<before, meta, app, pending>>
          /\ stage'.oldApp = stage.oldApp /\ stage'.oldPending = stage.oldPending
          /\ AppSwapped' = AppSwapped
        <3>1. CASE MaterializeApp
            <4>1. stage.oldApp = Absent /\ stage.oldPending = FALSE
                BY <1>0, <3>1 DEF MaterializeApp, IInv, Swapping, MarkNeedsTree, BuildSteps,
                                  TypeOK, Staging
            <4> QED BY <3>1, <4>1 DEF MaterializeApp, EmptyStage, disk, AppSwapped, DoneSteps
        <3>2. CASE WriteLauncher
            BY <1>0, <3>2 DEF WriteLauncher, disk, TypeOK, Staging, AppSwapped, DoneSteps
        <3>3. CASE SaveLauncher \/ RestoreLauncher
            BY <1>0, <3>3 DEF SaveLauncher, RestoreLauncher, TypeOK, Staging, AppSwapped,
                              DoneSteps
        <3>4. CASE PlaceLauncher
            BY <1>0, <3>4 DEF PlaceLauncher, TypeOK, Staging, AppSwapped, DoneSteps
        <3> QED BY <1>5, <3>1, <3>2, <3>3, <3>4
    <2> QED BY <1>3, <2>1 DEF InPlace
<1>6. CASE SaveApp
    <2>1. /\ pc # "idle" /\ pc \notin DoneSteps /\ UNCHANGED <<before, meta, swapped>>
          /\ stage'.oldApp = app /\ stage'.oldPending = pending
          /\ app' = Absent /\ pending' = FALSE
        BY <1>0, <1>6 DEF SaveApp, TypeOK, Staging, DoneSteps
    <2>2. InPlace /\ swapped = {}
        BY <1>6 DEF SaveApp, IInv, Swapping, InPlace, AppSwapped
    <2>3. CASE app = Absent
        <3>1. pending = FALSE
            BY <1>0, <2>3 DEF MarkNeedsTree, TypeOK
        <3> QED BY <1>3, <2>1, <2>2, <2>3, <3>1 DEF InPlace, AppSwapped
    <2>4. CASE app # Absent
        BY <1>3, <2>1, <2>2, <2>4 DEF InPlace, AppSwapped
    <2> QED BY <2>3, <2>4
<1>7. CASE PlaceApp
    <2>1. /\ pc # "idle" /\ pc \notin DoneSteps /\ UNCHANGED <<before, meta>>
          /\ stage'.oldApp = stage.oldApp /\ stage'.oldPending = stage.oldPending
          /\ AppSwapped'
        BY <1>0, <1>7 DEF PlaceApp, TypeOK, Staging, DoneSteps, AppSwapped
    <2>2. app = Absent /\ ~AppSwapped
        BY <1>7 DEF PlaceApp, IInv, Swapping, AppSwapped
    <2>3. pending = FALSE /\ (stage.oldApp = Absent => stage.oldPending = FALSE)
        BY <1>0, <2>2 DEF MarkNeedsTree, TypeOK, Staging
    <2> QED BY <1>3, <2>1, <2>2, <2>3 DEF InPlace
<1>8. CASE DropApp
    <2>1. /\ pc # "idle" /\ pc \notin DoneSteps /\ UNCHANGED <<before, meta, stage, swapped>>
          /\ ~AppSwapped => UNCHANGED <<app, pending>>
        <3>1. pc = "dropApp" /\ UNCHANGED <<before, meta, stage, swapped>>
            BY <1>8 DEF DropApp, staged
        <3>2. ~AppSwapped => app' = app
            BY <1>8 DEF DropApp
        <3>3. ~AppSwapped => pending' = pending
            <4>1. pending' = (pending /\ ~AppSwapped) /\ pending \in BOOLEAN
                BY <1>0, <1>8 DEF DropApp, TypeOK
            <4>2. CASE pending = TRUE
                BY <4>1, <4>2
            <4>3. CASE pending = FALSE
                BY <4>1, <4>3
            <4> QED BY <4>1, <4>2, <4>3
        <3> QED BY <3>1, <3>2, <3>3 DEF DoneSteps
    <2> QED BY <1>3, <2>1 DEF InPlace, AppSwapped
<1>9. CASE RemoveByHand \/ UndoRaises \/ Interrupt \/ Kill \/ PreflightRefuses \/ RestoreApp
           \/ Swapped \/ Write
    BY <1>1, <1>9
    DEF RemoveByHand, UndoRaises, Interrupt, Kill, PreflightRefuses, RestoreApp, Swapped,
        Write, MetadataWritten, MetadataFails, MetadataRejected, Unmark, UnmarkFails, Report,
        Handoff, HandoffFails, End, Goto, DoneSteps
<1>10. CASE UNCHANGED vars
    BY <1>10 DEF vars, disk, staged, TrustSaved, TrustOf, InPlace, AppSwapped
<1> QED BY <1>2, <1>4, <1>5, <1>6, <1>7, <1>8, <1>9, <1>10 DEF Next, Build, Swap, Undo

LEMMA DroppedKept ==
    ASSUME IInv, DroppedGone, [Next]_vars
    PROVE  DroppedGone'
<1>1. CASE DropApp
    BY <1>1 DEF DropApp, DroppedGone, staged, AppSwapped
<1>2. CASE UNCHANGED vars
    BY <1>2 DEF vars, disk, staged, DroppedGone, AppSwapped
<1>3. CASE [Next]_vars /\ ~DropApp /\ ~UNCHANGED vars
    <2>1. pc' # "restoreApp"
        BY <1>3 DEF Next, Begin, PreflightPasses, PreflightRefuses, Build, Swap, Undo, Write,
                    Interrupt, Kill, RemoveByHand, MaterializeApp, WriteLauncher, Synchronize,
                    SaveApp, PlaceApp, SaveLauncher, PlaceLauncher, Swapped, StepRaises,
                    DropLauncher, RestoreLauncher, RestoreApp, UndoRaises, MetadataWritten,
                    MetadataFails, MetadataRejected, Unmark, UnmarkFails, Report, Handoff,
                    HandoffFails, End, Goto
    <2> QED BY <2>1 DEF DroppedGone
<1> QED BY <1>1, <1>2, <1>3

LEMMA RecordedKept ==
    ASSUME IInv, OkRecorded, [Next]_vars
    PROVE  OkRecorded'
<1>1. CASE pc' \notin {"report", "handoff"}
    BY <1>1 DEF OkRecorded
<1>2. CASE MetadataFails \/ UnmarkFails
    BY <1>2 DEF MetadataFails, UnmarkFails, OkRecorded
<1>3. CASE Unmark
    BY <1>3 DEF Unmark, OkRecorded, IInv, Recording, Record
<1>4. CASE Report
    BY <1>1, <1>4 DEF Report, End, Goto, OkRecorded, disk, Record
<1>5. CASE UNCHANGED vars
    BY <1>5 DEF vars, disk, OkRecorded, Record
<1>6. CASE \/ (\E b \in Builds : Begin(b)) \/ PreflightPasses \/ PreflightRefuses
           \/ Build \/ Swap \/ Undo \/ Interrupt \/ Kill \/ RemoveByHand
           \/ MetadataWritten \/ MetadataRejected \/ Handoff \/ HandoffFails
    BY <1>1, <1>6
    DEF Begin, PreflightPasses, PreflightRefuses, Build, Swap, Undo, Interrupt, Kill,
        RemoveByHand, MetadataWritten, MetadataRejected, Handoff, HandoffFails,
        MaterializeApp, WriteLauncher, Synchronize, SaveApp, PlaceApp, SaveLauncher,
        PlaceLauncher, Swapped, StepRaises, DropLauncher, RestoreLauncher, DropApp,
        RestoreApp, UndoRaises, End, Goto
<1> QED BY <1>2, <1>3, <1>4, <1>5, <1>6 DEF Next, Write

(* The reports that leave the disk as it is made them true already; the       *)
(* failed swap restores it.                                                   *)
LEMMA ReportsKept ==
    ASSUME IInv, RInv, [Next]_vars
    PROVE  ReportsTrue'
<1>0. TypeOK /\ MarkNeedsTree /\ TrustSaved /\ DroppedGone /\ OkRecorded /\ ReportsTrue
    BY DEF IInv, RInv
<1>1. CASE pc' # "idle" \/ outcome' \in {"none", "undo_failed", "interrupted", "killed"}
    BY <1>1 DEF ReportsTrue
<1>2. CASE PreflightRefuses
    <2>1. before = Snapshot /\ UNCHANGED <<before, disk>> /\ outcome' = "refused"
        BY <1>2 DEF PreflightRefuses, End, IInv, TagCompared
    <2>2. Snapshot' = Snapshot
        BY <2>1 DEF Snapshot, Trusted, VersionMatches, disk
    <2> QED BY <2>1, <2>2 DEF ReportsTrue
<1>3. CASE RestoreApp
    <2>1. /\ pc = "restoreApp" /\ outcome' = "failed"
          /\ UNCHANGED <<before, launcher, meta>>
          /\ app'     = IF stage.oldApp = Absent THEN app ELSE stage.oldApp
          /\ pending' = IF stage.oldApp = Absent THEN pending ELSE stage.oldPending
        BY <1>3 DEF RestoreApp, End
    <2>2. launcher = before.launcher /\ Held(app, stage.oldApp, before.app)
        BY <2>1 DEF IInv, Undoing
    <2>3. app' = before.app
        BY <2>1, <2>2 DEF Held
    <2>4. before.trusted <=> Trusted'
        <3>1. before.trusted <=> IF InPlace THEN TrustOf(app, pending)
                                 ELSE TrustOf(stage.oldApp, stage.oldPending)
            BY <1>0, <2>1 DEF TrustSaved, DoneSteps
        <3>2. CASE stage.oldApp # Absent
            BY <2>1, <3>1, <3>2 DEF InPlace, TrustOf, Trusted, VersionMatches
        <3>3. CASE InPlace
            BY <2>1, <3>1, <3>3 DEF InPlace, TrustOf, Trusted, VersionMatches
        <3>4. CASE stage.oldApp = Absent /\ ~InPlace
            <4>1. app = Absent
                BY <1>0, <2>1, <3>4 DEF InPlace, DroppedGone
            <4>2. pending = FALSE /\ stage.oldPending = FALSE
                BY <1>0, <3>4, <4>1 DEF MarkNeedsTree, TypeOK, Staging
            <4> QED BY <2>1, <3>1, <3>4, <4>1, <4>2 DEF TrustOf, Trusted, VersionMatches
        <3> QED BY <3>2, <3>3, <3>4
    <2>5. before \in [app : Trees, launcher : Launchers, trusted : BOOLEAN]
        BY <1>0 DEF TypeOK
    <2>6. before' = Snapshot'
        BY <2>1, <2>2, <2>3, <2>4, <2>5 DEF Snapshot
    <2> QED BY <2>1, <2>6 DEF ReportsTrue
<1>4. CASE Report \/ Handoff
    <2>1. /\ pc \in {"report", "handoff"} /\ UNCHANGED <<disk, cand, outcome>>
          /\ outcome \in {"ok", "unrecorded"}
        BY <1>4 DEF Report, Handoff, End, Goto, IInv, Recording
    <2>2. app = cand /\ launcher = cand
        BY <2>1 DEF IInv, Recording, DoneSteps
    <2>3. outcome = "ok" => ~pending /\ meta = Record(cand)
        BY <1>0, <2>1 DEF OkRecorded
    <2> QED BY <2>1, <2>2, <2>3 DEF ReportsTrue, disk, Record
<1>5. CASE MetadataRejected \/ HandoffFails
    <2>1. /\ pc \in DoneSteps /\ UNCHANGED <<disk, cand>>
          /\ outcome' \in {"rejected", "handoff_failed"}
        BY <1>5 DEF MetadataRejected, HandoffFails, End, DoneSteps
    <2> QED BY <2>1 DEF ReportsTrue, IInv, Recording, disk
<1>6. CASE UNCHANGED vars
    BY <1>0, <1>6 DEF vars, disk, ReportsTrue, Snapshot, Trusted, VersionMatches, Record
<1>7. CASE \/ (\E b \in Builds : Begin(b)) \/ PreflightPasses \/ Build \/ Swap
           \/ (Undo /\ ~RestoreApp) \/ Interrupt \/ Kill \/ RemoveByHand
           \/ MetadataWritten \/ MetadataFails \/ Unmark \/ UnmarkFails
    BY <1>1, <1>7
    DEF Begin, PreflightPasses, Build, Swap, Undo, Interrupt, Kill, RemoveByHand,
        MetadataWritten, MetadataFails, Unmark, UnmarkFails, MaterializeApp, WriteLauncher,
        Synchronize, SaveApp, PlaceApp, SaveLauncher, PlaceLauncher, Swapped, StepRaises,
        DropLauncher, RestoreLauncher, DropApp, UndoRaises, End, Goto
<1> QED BY <1>2, <1>3, <1>4, <1>5, <1>6, <1>7 DEF Next, Undo, Write

(* Every report is true of the disk: a run that reports "refused" or "failed" *)
(* has left application, launcher and the trust in the record as they were,   *)
(* one that got past the swap has installed the requested build, and "ok" is  *)
(* said only when the record is of that build and no longer pending.          *)
THEOREM ReportsAreTrue == Spec => []ReportsTrue
<1>1. Init => RInv
    BY InstallAssumption DEF Init, RInv, MarkNeedsTree, TrustSaved, DroppedGone, OkRecorded,
                             ReportsTrue, EmptyStage
<1>2. IInv /\ RInv /\ [Next]_vars => RInv'
    BY MarksKept, TrustKept, DroppedKept, RecordedKept, ReportsKept DEF RInv
<1>3. RInv => ReportsTrue
    BY DEF RInv
<1> QED BY <1>1, <1>2, <1>3, Invariance, PTL DEF Spec
================================================================================
