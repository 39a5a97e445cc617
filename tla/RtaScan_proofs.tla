--------------------------- MODULE RtaScan_proofs ---------------------------
(***************************************************************************)
(* The safety properties of the RTA scan, for any sources, any lists and   *)
(* any number of scans.                                                    *)
(***************************************************************************)
EXTENDS RtaScan, TLAPS

LEMMA InitHolds == Init => SInv
<1> SUFFICES ASSUME Init PROVE SInv
    OBVIOUS
<1>1. list = <<>> /\ list \in Seq(Sources) /\ Len(list) = 0
    BY DEF Init
<1>2. TypeOK
    <2>1. n \in 1..(Len(list) + 1) /\ list \in Seq(Sources)
        BY <1>1 DEF Init
    <2>2. source \in Sources \cup {Unknown}
        BY ScanAssumption DEF Init
    <2>3. /\ manuals \in 0..MaxManual
          /\ scans \in 0..MaxScans
          /\ requests \in Nat
          /\ waiting \in 0..requests
          /\ first \in 0..requests
        BY ScanAssumption DEF Init
    <2>4. inflight \subseteq Requests /\ ~(waiting # 0) /\ pc = "idle"
        BY DEF Init
    <2> QED BY <2>1, <2>2, <2>3, <2>4 DEF Init, TypeOK
<1> QED BY <1>2
        DEF Init, SInv, RequestsTold, OwnRequests, RestoreTook, ReadFirst,
            RestoreOnce, MeasuresListed, RestoredIsOriginal, AlwaysPutBack

\* Asking for a source while nothing is waited for.
LEMMA AskHolds ==
    ASSUME SInv, NEW s \in Sources, Ask(s), waiting = 0,
           NEW step \in {"selecting", "restoring"}, pc' = step,
           pc \notin {"idle", "original"},
           step = "restoring" => s = original,
           step = "selecting" => n <= Len(list) /\ status = "success",
           UNCHANGED <<callVars, status, restore, disturbed>>
    PROVE  SInv'
<1> DEFINE new == [id |-> requests + 1, to |-> s]
<1> USE DEF SInv
<1>1. /\ requests \in Nat
      /\ new \in Requests
      /\ inflight' = inflight \cup {new}
      /\ \A d \in inflight : d.id \in Nat \ {0} /\ d.id <= requests
    BY DEF TypeOK, Requests, RequestsTold, Ask
<1>2. TypeOK'
    BY <1>1 DEF TypeOK, Ask, callVars
<1>3. RequestsTold'
    <2>1. \A d \in inflight' : d.id <= requests'
        BY <1>1 DEF Ask
    <2>2. \A d, e \in inflight' : d.id = e.id => d = e
        BY <1>1 DEF RequestsTold
    <2>3. reply' = "none"
        BY DEF Ask
    <2>4. pc' = "restoring" =>
              \A d \in inflight' : d.id = waiting' => d.to = original'
        BY <1>1 DEF Ask, callVars
    <2> QED BY <2>1, <2>2, <2>3, <2>4 DEF RequestsTold
<1>4. OwnRequests'
    BY <1>1 DEF OwnRequests, Ask, callVars
<1>5. RestoreTook' /\ ReadFirst' /\ RestoredIsOriginal' /\ AlwaysPutBack'
        /\ RestoreOnce' /\ MeasuresListed'
    BY DEF RestoreOnce, MeasuresListed, RestoreTook, ReadFirst, RestoredIsOriginal,
           AlwaysPutBack, Ask, callVars
<1> QED BY <1>2, <1>3, <1>4, <1>5

\* A step inside the bridge that asks for nothing.
LEMMA WithinHolds ==
    ASSUME SInv, UNCHANGED <<netVars, askVars, list, scans, first, restore>>,
           pc \notin {"idle", "selecting", "restoring"},
           pc' \in {"loop", "measure", "restore"},
           n' \in 1..(Len(list) + 1),
           pc' = "measure" => n' <= Len(list),
           original' \in Sources \cup {Unknown},
           status' \in {"denied", "success", "cancelled", "failed", "raised"},
           status = "raised" => status' = "raised",
           pc' \in {"loop", "measure"} => status' = "success",
           disturbed' \in BOOLEAN
    PROVE  SInv'
<1> USE DEF SInv, netVars, askVars
<1>1. TypeOK'
    BY DEF TypeOK
<1>2. RequestsTold' /\ OwnRequests'
    BY DEF RequestsTold, OwnRequests, TypeOK
<1>3. RestoreTook' /\ ReadFirst' /\ RestoredIsOriginal' /\ AlwaysPutBack'
        /\ RestoreOnce' /\ MeasuresListed'
    BY DEF RestoreOnce, MeasuresListed, RestoreTook, ReadFirst, RestoredIsOriginal, AlwaysPutBack
<1> QED BY <1>1, <1>2, <1>3

\* The scan ends, or the source is selected, or it gives up a request.
LEMMA AskedHolds ==
    ASSUME SInv, Asked, pc \in {"selecting", "restoring"},
           UNCHANGED <<netVars, callVars, disturbed>>,
           \/ Selected
           \/ SelectRaises
           \/ Restored
           \/ RestoreFails
    PROVE  SInv'
<1> USE DEF SInv, netVars, callVars, Asked
<1>1. TypeOK'
    BY DEF TypeOK, Selected, SelectRaises, Restored, RestoreFails
<1>2. RequestsTold'
    BY DEF RequestsTold, Selected, SelectRaises, Restored, RestoreFails
<1>3. OwnRequests'
    <2>1. CASE Selected \/ Restored
        <3>1. \A d \in inflight : d.id # waiting
            BY <2>1 DEF Selected, Restored, RequestsTold, TypeOK
        <3>2. status' = status /\ (restore' = restore \/ Restored)
            BY <2>1 DEF Selected, Restored
        <3>3. CASE Selected
            BY <3>1, <3>2, <3>3 DEF OwnRequests, Selected
        <3>4. CASE Restored
            <4>1. status # "raised" => restore = "none"
                BY <3>4 DEF Restored, RestoreOnce
            <4> QED BY <3>1, <3>2, <4>1 DEF OwnRequests
        <3> QED BY <2>1, <3>3, <3>4
    <2>2. CASE SelectRaises \/ RestoreFails
        BY <2>2 DEF OwnRequests, SelectRaises, RestoreFails
    <2> QED BY <2>1, <2>2
<1>4. RestoreTook' /\ ReadFirst' /\ RestoreOnce' /\ MeasuresListed'
    BY DEF RestoreOnce, MeasuresListed, RestoreTook, ReadFirst, Selected, SelectRaises, Restored,
           RestoreFails
<1>5. RestoredIsOriginal' /\ AlwaysPutBack'
    BY DEF RestoredIsOriginal, AlwaysPutBack, RestoreTook, Selected,
           SelectRaises, Restored, RestoreFails
<1> QED BY <1>1, <1>2, <1>3, <1>4, <1>5

\* The bridge's own steps.
LEMMA ScanStepHolds == SInv /\ ScanStep => SInv'
<1> SUFFICES ASSUME SInv, ScanStep PROVE SInv'
    OBVIOUS
<1>0. /\ n + 1 \in Nat /\ n \in 1..(Len(list) + 1) /\ Len(list) \in Nat
      /\ source \in Sources \cup {Unknown}
      /\ original \in Sources \cup {Unknown}
      /\ disturbed \in BOOLEAN
      /\ pc \notin {"selecting", "restoring"} => waiting = 0
    BY DEF SInv, TypeOK
<1>1. CASE ReadOriginal
    <2>1. status = "success"
        BY <1>1 DEF ReadOriginal, SInv, RestoreOnce
    <2> QED BY <1>0, <1>1, <2>1, WithinHolds DEF ReadOriginal
<1>2. CASE CancelSeen \/ AllScanned \/ MeasureFails
    <2>1. status = "success"
        BY <1>2 DEF CancelSeen, AllScanned, MeasureFails, SInv, RestoreOnce
    <2>2. UNCHANGED callVars
        BY <1>2 DEF CancelSeen, AllScanned, MeasureFails
    <2> QED BY <1>0, <1>2, <2>1, <2>2, WithinHolds
            DEF CancelSeen, AllScanned, MeasureFails, callVars
<1>3. CASE Measured
    <2>1. n + 1 \in 1..(Len(list) + 1) /\ status = "success"
        BY <1>0, <1>3 DEF Measured, SInv, MeasuresListed, RestoreOnce
    <2> QED BY <1>0, <1>3, <2>1, WithinHolds DEF Measured
<1>4. CASE SelectNext
    <2>1. list[n] \in Sources
        BY <1>0, <1>4 DEF SelectNext, SInv, TypeOK
    <2>2. status = "success"
        BY <1>4 DEF SelectNext, SInv, RestoreOnce
    <2> QED BY <1>0, <1>4, <2>1, <2>2, AskHolds DEF SelectNext
<1>5. CASE RestoreAsked
    BY <1>0, <1>5, AskHolds DEF RestoreAsked
<1>6. CASE Selected \/ SelectRaises \/ Restored \/ RestoreFails
    BY <1>6, AskedHolds DEF Selected, SelectRaises, Restored, RestoreFails
<1>7. CASE OriginalReadFails \/ RestoreSkipped
    BY <1>0, <1>7
       DEF OriginalReadFails, RestoreSkipped, SInv, TypeOK, RequestsTold,
           OwnRequests, RestoreTook, ReadFirst, RestoreOnce, MeasuresListed,
           RestoredIsOriginal, AlwaysPutBack, netVars, askVars, callVars
<1> QED BY <1>1, <1>2, <1>3, <1>4, <1>5, <1>6, <1>7 DEF ScanStep

\* A scan begins, or is denied.
LEMMA StartHolds ==
    ASSUME SInv, ScanDenied \/ \E sources \in ScanLists : Start(sources)
    PROVE  SInv'
<1> USE DEF SInv, netVars, askVars, callVars, TypeOK, RequestsTold, OwnRequests,
            RestoreTook, ReadFirst, RestoreOnce, MeasuresListed, RestoredIsOriginal,
            AlwaysPutBack, Requests
<1>1. CASE ScanDenied
    BY <1>1 DEF ScanDenied
<1>2. ASSUME NEW sources \in ScanLists, Start(sources)
      PROVE  SInv'
    <2>1. sources \in Seq(Sources) /\ Len(sources) \in Nat
        BY ScanAssumption
    <2> QED BY <1>2, <2>1, ScanAssumption DEF Start
<1> QED BY <1>1, <1>2

\* The console handles a request.
LEMMA ArriveHolds ==
    ASSUME SInv, NEW d \in inflight, Arrive(d)
    PROVE  SInv'
<1> USE DEF SInv, Arrive, callVars
<1>1. d \in Requests /\ inflight' \subseteq inflight
    BY DEF TypeOK
<1>2. TypeOK'
    BY <1>1 DEF TypeOK, Requests
<1>3. RequestsTold' /\ OwnRequests'
    BY <1>1 DEF RequestsTold, OwnRequests
<1>4. RestoreTook'
    BY <1>1 DEF RestoreTook, RequestsTold, TypeOK
<1>5. RestoredIsOriginal'
    BY <1>1 DEF RestoredIsOriginal, TypeOK, Requests
<1>6. ReadFirst' /\ RestoreOnce' /\ MeasuresListed' /\ AlwaysPutBack'
    BY DEF ReadFirst, RestoreOnce, MeasuresListed, AlwaysPutBack
<1> QED BY <1>2, <1>3, <1>4, <1>5, <1>6

\* A request is lost, or somebody selects a source by hand.
LEMMA OutsideHolds ==
    ASSUME SInv,
           \/ \E d \in inflight : Lose(d)
           \/ \E s \in Sources : SelectByHand(s)
           \/ UNCHANGED vars
    PROVE  SInv'
<1> USE DEF SInv, vars, netVars, askVars, callVars, TypeOK, RequestsTold,
            OwnRequests, RestoreTook, ReadFirst, RestoreOnce, MeasuresListed,
            RestoredIsOriginal, AlwaysPutBack
<1>1. CASE UNCHANGED vars
    BY <1>1
<1>2. ASSUME NEW d \in inflight, Lose(d) PROVE SInv'
    BY <1>2 DEF Lose
<1>3. ASSUME NEW s \in Sources, SelectByHand(s) PROVE SInv'
    BY <1>3, ScanAssumption DEF SelectByHand
<1> QED BY <1>1, <1>2, <1>3

LEMMA Inductive == Spec => []SInv
<1>1. SInv /\ [Next]_vars => SInv'
    BY ScanStepHolds, StartHolds, ArriveHolds, OutsideHolds DEF Next
<1> QED BY <1>1, InitHolds, PTL DEF Spec

\* Every variable of the scan stays in its set.
THEOREM TypeCorrect == Spec => []TypeOK
BY Inductive, PTL DEF SInv

\* A scan that says it has restored the source has, until somebody selects one
\* by hand or a request given up long ago is handled.
THEOREM RestoredHolds == Spec => []RestoredIsOriginal
BY Inductive, PTL DEF SInv

\* A scan that returns with the source restored leaves no request behind.
THEOREM NothingLeft == Spec => []NothingLeftBehind
<1>1. SInv => NothingLeftBehind
    BY DEF SInv, OwnRequests, NothingLeftBehind, TypeOK, Requests
<1> QED BY <1>1, Inductive, PTL

\* Whatever ends a scan, it has tried to put the source back.
THEOREM PutBack == Spec => []AlwaysPutBack
BY Inductive, PTL DEF SInv

-----------------------------------------------------------------------------
(* How long a scan can go on.                                               *)

\* Steps the scan may still take: the loop's three for each source it has not
\* been to, and the two of the finally clause.
Remaining ==
    LET left == Len(list) + 1 - n IN
    IF pc = "idle" THEN 0
    ELSE IF pc = "original" THEN 3 * Len(list) + 4
    ELSE IF pc = "loop" THEN 3 * left + 3
    ELSE IF pc = "selecting" THEN 3 * left + 2
    ELSE IF pc = "measure" THEN 3 * left + 1
    ELSE IF pc = "restore" THEN 2
    ELSE 1

\* Every step of a scan, whether its request was answered, refused or given
\* up, brings it nearer to its end; nothing the console, the network and the
\* operator do puts the end off.
ScanShrinks ==
    [][/\ ScanStep => Remaining' < Remaining
       /\ \A d \in inflight : Arrive(d) \/ Lose(d) => Remaining' = Remaining
       /\ \A s \in Sources : SelectByHand(s) => Remaining' = Remaining]_vars

\* What each step of a scan does to its place.
LEMMA ScanStepIs ==
    ASSUME ScanStep
    PROVE  /\ list' = list
           /\ \/ pc = "original" /\ pc' \in {"loop", "idle"} /\ n' = n
              \/ /\ pc = "loop" /\ n <= Len(list) /\ n' = n
                 /\ pc' \in {"selecting", "restore"}
              \/ pc = "loop" /\ pc' = "restore" /\ n' = n
              \/ pc = "selecting" /\ pc' \in {"measure", "restore"} /\ n' = n
              \/ pc = "measure" /\ pc' = "loop" /\ n' = n + 1
              \/ pc = "measure" /\ pc' = "restore"
              \/ pc = "restore" /\ pc' \in {"idle", "restoring"}
              \/ pc = "restoring" /\ pc' = "idle"
<1>1. CASE ReadOriginal \/ OriginalReadFails
    BY <1>1 DEF ReadOriginal, OriginalReadFails, callVars
<1>2. CASE SelectNext \/ CancelSeen \/ AllScanned
    BY <1>2 DEF SelectNext, CancelSeen, AllScanned, callVars
<1>3. CASE Selected \/ SelectRaises \/ Measured \/ MeasureFails
    BY <1>3 DEF Selected, SelectRaises, Measured, MeasureFails, callVars
<1>4. CASE RestoreSkipped \/ RestoreAsked \/ Restored \/ RestoreFails
    BY <1>4 DEF RestoreSkipped, RestoreAsked, Restored, RestoreFails, callVars
<1> QED BY <1>1, <1>2, <1>3, <1>4 DEF ScanStep

\* The measure behind ScanEnds: a scan of any number of sources ends, at the
\* latest after three steps for each and four more.
THEOREM EveryStepShrinksTheScan == Spec => [](Remaining \in Nat) /\ ScanShrinks
<1>1. SInv => Remaining \in Nat
    <2> SUFFICES ASSUME SInv PROVE Remaining \in Nat
        OBVIOUS
    <2>1. Len(list) \in Nat /\ n \in 1..(Len(list) + 1)
        BY DEF SInv, TypeOK
    <2> QED BY <2>1 DEF Remaining
<1>2. SInv /\ [Next]_vars =>
          [/\ ScanStep => Remaining' < Remaining
           /\ \A d \in inflight : Arrive(d) \/ Lose(d) => Remaining' = Remaining
           /\ \A s \in Sources : SelectByHand(s) => Remaining' = Remaining]_vars
    <2>1. ASSUME SInv, ScanStep
          PROVE  Remaining' < Remaining
        <3>1. /\ Len(list) \in Nat /\ n \in 1..(Len(list) + 1)
              /\ pc \in {"selecting", "measure"} => n <= Len(list)
            BY <2>1 DEF SInv, TypeOK, MeasuresListed
        <3>2. Len(list') = Len(list)
            BY <2>1, ScanStepIs
        <3>3. CASE pc = "original"
            <4>1. pc' \in {"loop", "idle"} /\ n' = n
                BY <2>1, <3>3, ScanStepIs
            <4> QED BY <3>1, <3>2, <3>3, <4>1 DEF Remaining
        <3>4. CASE pc = "loop"
            <4>1. pc' \in {"selecting", "restore"} /\ n' = n
                BY <2>1, <3>4, ScanStepIs
            <4> QED BY <3>1, <3>2, <3>4, <4>1 DEF Remaining
        <3>5. CASE pc = "selecting"
            <4>1. pc' \in {"measure", "restore"} /\ n' = n
                BY <2>1, <3>5, ScanStepIs
            <4> QED BY <3>1, <3>2, <3>5, <4>1 DEF Remaining
        <3>6. CASE pc = "measure"
            <4>1. pc' = "restore" \/ (pc' = "loop" /\ n' = n + 1)
                BY <2>1, <3>6, ScanStepIs
            <4> QED BY <3>1, <3>2, <3>6, <4>1 DEF Remaining
        <3>7. CASE pc \in {"restore", "restoring"}
            <4>1. pc' = "idle" \/ (pc = "restore" /\ pc' = "restoring")
                BY <2>1, <3>7, ScanStepIs
            <4> QED BY <3>7, <4>1 DEF Remaining
        <3> QED BY <2>1, <3>3, <3>4, <3>5, <3>6, <3>7, ScanStepIs
    <2>2. ASSUME NEW d \in inflight, Arrive(d) \/ Lose(d)
          PROVE  Remaining' = Remaining
        BY <2>2 DEF Arrive, Lose, callVars, Remaining
    <2>3. ASSUME NEW s \in Sources, SelectByHand(s)
          PROVE  Remaining' = Remaining
        BY <2>3 DEF SelectByHand, callVars, Remaining
    <2> QED BY <2>1, <2>2, <2>3
<1> QED BY <1>1, <1>2, Inductive, PTL DEF Spec, ScanShrinks
=============================================================================
