------------------------------ MODULE RtaScan ------------------------------
(***************************************************************************)
(* scan_rta_sources of diagnostics/rta.py: the console has one real-time   *)
(* analyser; a scan reads which source it listens to, moves it to each     *)
(* configured source in turn, and puts it back at the end, whatever ended  *)
(* the loop.                                                               *)
(*                                                                         *)
(* Selecting a source is a request over UDP (osc/transport.py): the        *)
(* console may handle it in time, handle it after the bridge has given up, *)
(* refuse it, or never see it, and its answer may be lost.  The operator   *)
(* selects sources by hand whenever he likes.                              *)
(***************************************************************************)
EXTENDS Integers, Sequences

CONSTANTS
    Sources,        \* what the analyser can listen to
    Unknown,        \* what the console tells when it cannot say
    Refused,        \* sources the console does not select when asked
    ScanLists,      \* configured sources, in order
    InitialSources, \* where the analyser may be when the bridge starts
    MaxScans,       \* bound: scans
    MaxManual       \* bound: selections made by hand

ASSUME ScanAssumption ==
    /\ Unknown \notin Sources
    /\ Refused \subseteq Sources
    /\ ScanLists \subseteq Seq(Sources)
    /\ InitialSources \subseteq Sources \cup {Unknown}
    /\ MaxScans \in Nat
    /\ MaxManual \in Nat

VARIABLES
    source,         \* the console's analyser source
    inflight,       \* selection requests not yet handled or lost
    manuals,        \* selections made by hand so far
    pc,             \* where the scan is
    list,           \* its configured sources
    n,              \* the one it is at
    original,       \* the source it has to put back
    waiting,        \* the request it waits for, 0 for none
    reply,          \* what the console answered to that request
    status,         \* the scan's status
    restore,        \* the status of its restore attempt
    requests,       \* requests sent so far
    scans,          \* scans so far
    \* History, read by the properties only.
    first,          \* requests sent before this scan
    disturbed       \* since original was read, somebody selected a source by
                    \* hand, or a request nobody waits for was handled

netVars == <<source, inflight, manuals>>
askVars == <<waiting, reply, requests>>
callVars == <<list, n, original, scans, first>>
vars == <<netVars, askVars, callVars, pc, status, restore, disturbed>>

Requests == [id: Nat \ {0}, to: Sources]

Init ==
    /\ source \in InitialSources
    /\ inflight = {}
    /\ manuals = 0
    /\ pc = "idle"
    /\ list = <<>>
    /\ n = 1
    /\ original = Unknown
    /\ waiting = 0
    /\ reply = "none"
    /\ status = "success"
    /\ restore = "none"
    /\ requests = 0
    /\ scans = 0
    /\ first = 0
    /\ disturbed = FALSE

-----------------------------------------------------------------------------

\* _set_rta_source sends its request.
Ask(s) ==
    /\ requests' = requests + 1
    /\ inflight' = inflight \cup {[id |-> requests + 1, to |-> s]}
    /\ waiting' = requests + 1
    /\ reply' = "none"
    /\ UNCHANGED <<source, manuals>>

\* It returns, or raises.
Asked ==
    /\ waiting' = 0
    /\ reply' = "none"
    /\ UNCHANGED requests

\* A scan outside SOUNDCHECK, or with no source configured.
ScanDenied ==
    /\ pc = "idle"
    /\ status' = "denied"
    /\ restore' = "none"
    /\ first' = requests
    /\ original' = Unknown
    /\ UNCHANGED <<netVars, askVars, list, n, scans, pc, disturbed>>

\* A scan in SOUNDCHECK of at least one configured source.
Start(sources) ==
    /\ pc = "idle"
    /\ sources # <<>>
    /\ scans < MaxScans
    /\ scans' = scans + 1
    /\ pc' = "original"
    /\ list' = sources
    /\ n' = 1
    /\ original' = Unknown
    /\ status' = "success"
    /\ restore' = "none"
    /\ first' = requests
    /\ UNCHANGED <<netVars, askVars, disturbed>>

\* client.rta(), and _normalize_source.
ReadOriginal ==
    /\ pc = "original"
    /\ original' = source
    /\ pc' = "loop"
    /\ disturbed' = FALSE
    /\ UNCHANGED <<netVars, askVars, list, n, scans, first, status, restore>>

\* It raises before anything has been changed.
OriginalReadFails ==
    /\ pc = "original"
    /\ pc' = "idle"
    /\ status' = "raised"
    /\ UNCHANGED <<netVars, askVars, callVars, restore, disturbed>>

SelectNext ==
    /\ pc = "loop"
    /\ n <= Len(list)
    /\ Ask(list[n])
    /\ pc' = "selecting"
    /\ UNCHANGED <<callVars, status, restore, disturbed>>

\* The cancellation is looked at before each source.
CancelSeen ==
    /\ pc = "loop"
    /\ n <= Len(list)
    /\ status' = "cancelled"
    /\ pc' = "restore"
    /\ UNCHANGED <<netVars, askVars, callVars, restore, disturbed>>

AllScanned ==
    /\ pc = "loop"
    /\ n > Len(list)
    /\ pc' = "restore"
    /\ UNCHANGED <<netVars, askVars, callVars, status, restore, disturbed>>

Selected ==
    /\ pc = "selecting"
    /\ reply = "ok"
    /\ Asked
    /\ pc' = "measure"
    /\ UNCHANGED <<netVars, callVars, status, restore, disturbed>>

\* Mutant: the exception leaves the scan at once.
SelectRaisesOut ==
    /\ pc = "selecting"
    /\ Asked
    /\ status' = "raised"
    /\ pc' = "idle"
    /\ UNCHANGED <<netVars, callVars, restore, disturbed>>

\* Mutant: a selection that raised counts as a failed measurement.
SelectRaisesCaught ==
    /\ pc = "selecting"
    /\ Asked
    /\ status' = "failed"
    /\ pc' = "restore"
    /\ UNCHANGED <<netVars, callVars, restore, disturbed>>

\* Mutant: no timeout, it waits again.
SelectWaitsAgain ==
    /\ pc = "selecting"
    /\ reply' = "none"
    /\ UNCHANGED <<netVars, callVars, waiting, requests, pc, status, restore,
                   disturbed>>

\* The request is refused or times out: the exception passes through finally.
SelectRaises ==
    /\ pc = "selecting"
    /\ Asked
    /\ status' = "raised"
    /\ pc' = "restore"
    /\ UNCHANGED <<netVars, callVars, restore, disturbed>>

\* analyze_rta
Measured ==
    /\ pc = "measure"
    /\ n' = n + 1
    /\ pc' = "loop"
    /\ UNCHANGED <<netVars, askVars, list, original, scans, first, status,
                   restore, disturbed>>

MeasureFails ==
    /\ pc = "measure"
    /\ status' = "failed"
    /\ pc' = "restore"
    /\ UNCHANGED <<netVars, askVars, callVars, restore, disturbed>>

-----------------------------------------------------------------------------
(* The finally clause. *)

RestoreSkipped ==
    /\ pc = "restore"
    /\ original = Unknown
    /\ restore' = "skipped"
    /\ pc' = "idle"
    /\ UNCHANGED <<netVars, askVars, callVars, status, disturbed>>

RestoreAsked ==
    /\ pc = "restore"
    /\ original # Unknown
    /\ Ask(original)
    /\ pc' = "restoring"
    /\ UNCHANGED <<callVars, status, restore, disturbed>>

\* Mutant: any answer counts.
RestoredByAnyReply ==
    /\ pc = "restoring"
    /\ reply # "none"
    /\ Asked
    /\ restore' = "restored"
    /\ pc' = "idle"
    /\ UNCHANGED <<netVars, callVars, status, disturbed>>

Restored ==
    /\ pc = "restoring"
    /\ reply = "ok"
    /\ Asked
    /\ restore' = "restored"
    /\ pc' = "idle"
    /\ UNCHANGED <<netVars, callVars, status, disturbed>>

\* Mutant: the socket is left waiting.
RestoreFailsWaiting ==
    /\ pc = "restoring"
    /\ restore' = "failed"
    /\ status' = IF status = "raised" THEN "raised" ELSE "failed"
    /\ pc' = "idle"
    /\ UNCHANGED <<netVars, askVars, callVars, disturbed>>

\* Swallowed; the exception that was on its way goes on.
RestoreFails ==
    /\ pc = "restoring"
    /\ Asked
    /\ restore' = "failed"
    /\ status' = IF status = "raised" THEN "raised" ELSE "failed"
    /\ pc' = "idle"
    /\ UNCHANGED <<netVars, callVars, disturbed>>

-----------------------------------------------------------------------------
(* The console, the network and the operator. *)

\* _handle on /rta/source/set.
Arrive(d) ==
    /\ inflight' = inflight \ {d}
    /\ source' = IF d.to \in Refused THEN source ELSE d.to
    /\ IF d.id = waiting
       THEN /\ reply' = IF d.to \in Refused THEN "refused" ELSE "ok"
            /\ UNCHANGED disturbed
       ELSE /\ disturbed' = TRUE
            /\ UNCHANGED reply
    /\ UNCHANGED <<manuals, waiting, requests, callVars, pc, status, restore>>

Lose(d) ==
    /\ inflight' = inflight \ {d}
    /\ UNCHANGED <<source, manuals, askVars, callVars, pc, status, restore,
                   disturbed>>

SelectByHand(s) ==
    /\ manuals < MaxManual
    /\ manuals' = manuals + 1
    /\ source' = s
    /\ disturbed' = TRUE
    /\ UNCHANGED <<inflight, askVars, callVars, pc, status, restore>>

-----------------------------------------------------------------------------

ScanStep ==
    \/ ReadOriginal \/ OriginalReadFails
    \/ SelectNext \/ CancelSeen \/ AllScanned
    \/ Selected \/ SelectRaises \/ Measured \/ MeasureFails
    \/ RestoreSkipped \/ RestoreAsked \/ Restored \/ RestoreFails

Next ==
    \/ \E sources \in ScanLists : Start(sources)
    \/ ScanDenied
    \/ ScanStep
    \/ \E d \in inflight : Arrive(d) \/ Lose(d)
    \/ \E s \in Sources : SelectByHand(s)

Spec == Init /\ [][Next]_vars

\* A started scan runs on: every request ends at the socket's timeout.
FairSpec == Spec /\ WF_vars(ScanStep)

-----------------------------------------------------------------------------
(* Properties. *)

\* Every variable stays in its set, and the scan waits for a request exactly
\* while it is selecting or restoring a source.
TypeOK ==
    /\ source \in Sources \cup {Unknown}
    /\ inflight \subseteq Requests
    /\ manuals \in 0..MaxManual
    /\ pc \in {"idle", "original", "loop", "selecting", "measure", "restore",
               "restoring"}
    /\ list \in Seq(Sources)
    /\ n \in 1..(Len(list) + 1)
    /\ original \in Sources \cup {Unknown}
    /\ requests \in Nat
    /\ waiting \in 0..requests
    /\ waiting # 0 <=> pc \in {"selecting", "restoring"}
    /\ reply \in {"none", "ok", "refused"}
    /\ status \in {"denied", "success", "cancelled", "failed", "raised"}
    /\ restore \in {"none", "restored", "failed", "skipped"}
    /\ scans \in 0..MaxScans
    /\ first \in 0..requests
    /\ disturbed \in BOOLEAN

\* A scan that says it has restored the source has: until somebody selects one
\* by hand or a request given up long ago is handled, the analyser listens to
\* what it listened to when the scan began.
RestoredIsOriginal ==
    pc = "idle" /\ restore = "restored" /\ ~disturbed => source = original

\* A scan that returns, with the source restored, leaves no request behind that
\* could move the analyser later.
NothingLeftBehind ==
    pc = "idle" /\ restore = "restored" /\ status # "raised" =>
        \A d \in inflight : d.id <= first

\* Whatever ends a scan that has asked for a source, it has tried to put the
\* original back, or did not know it.
AlwaysPutBack ==
    pc = "idle" /\ requests > first => restore # "none"

\* Every scan ends, however long the console stays silent.
ScanEnds == pc # "idle" ~> pc = "idle"

-----------------------------------------------------------------------------
(* The inductive invariant behind them.                                     *)

\* A request in flight is told from the others by its number, and the one that
\* is waited for carries what the scan asked for and is not answered.
RequestsTold ==
    /\ \A d \in inflight : d.id <= requests
    /\ \A d, e \in inflight : d.id = e.id => d = e
    /\ waiting # 0 /\ reply # "none" => \A d \in inflight : d.id # waiting
    /\ pc = "restoring" =>
           \A d \in inflight : d.id = waiting => d.to = original

\* While no request of this scan was given up, only the one it waits for can be
\* in flight.
OwnRequests ==
    status # "raised" /\ restore # "failed" =>
        \A d \in inflight : d.id > first => d.id = waiting

\* An accepted restore request has moved the analyser back.
RestoreTook ==
    pc = "restoring" /\ reply = "ok" /\ ~disturbed => source = original

\* Nothing is asked for before the original is read.
ReadFirst == pc = "original" => requests = first

\* What is measured is in the list.
MeasuresListed == pc \in {"selecting", "measure"} => n <= Len(list)

\* The restore attempt comes last, and nothing but the loop decides before it.
RestoreOnce ==
    /\ pc # "idle" => restore = "none"
    /\ pc \in {"original", "loop", "selecting", "measure"} => status = "success"

SInv ==
    /\ TypeOK
    /\ RequestsTold
    /\ OwnRequests
    /\ RestoreTook
    /\ ReadFirst
    /\ RestoreOnce
    /\ MeasuresListed
    /\ RestoredIsOriginal
    /\ AlwaysPutBack
=============================================================================
