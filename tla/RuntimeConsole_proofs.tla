------------------------- MODULE RuntimeConsole_proofs -------------------------
(***************************************************************************)
(* What holds of the Runtime Console for any endpoints, whoever else       *)
(* writes the configuration and wherever a save or a probe is cut.         *)
(***************************************************************************)
EXTENDS RuntimeConsole, TLAPS

\* A save replaces the file by what it wrote; a probe is recorded under the
\* endpoint it went to, or under none.
Saving == /\ pc = "replace" => temp = probe.at
          /\ probe.print \in {probe.at, NoEndpoint}

\* What the session keeps of the connection is what the last probe found.
KeptTrue == /\ conn # "not_checked" /\ checked # NoEndpoint => conn = last[checked]
            /\ conn = "reachable" => \E e \in Endpoints : last[e] = "reachable"

\* A read was asked for exactly as often as it waits or is under way, and in a
\* session that ended at least as often.
Waiting(c) == (IF pc = "dispatch" /\ cmd = c THEN 1 ELSE 0)
                 + (IF pending = c THEN 1 ELSE 0)
AskedOnce == /\ pc # "exited" => \A c \in Reads : asked[c] = Waiting(c)
             /\ pc = "exited" => \A c \in Reads : Waiting(c) <= asked[c]

CommandKnown == pc = "dispatch" => cmd \in Reads

RInv == /\ TypeOK
        /\ SavedConfigWhole /\ Saving
        /\ KeptTrue /\ StatusSpeaksOfEndpoint
        /\ AskedOnce /\ CommandKnown

-----------------------------------------------------------------------------
\* What is known of the sets and of the configuration.
LEMMA Distinct ==
    /\ NoEndpoint \notin Endpoints /\ Broken \notin Maybe /\ Partial \notin Maybe
    /\ Broken # Partial
    /\ NoCommand \notin Reads /\ "/setup" \notin Reads /\ NoCommand # "/setup"
BY ConsoleAssumption DEF Maybe, Reads

LEMMA Configured ==
    ASSUME TypeOK
    PROVE  /\ Precondition \in States
           /\ Precondition = "ready" => Effective \in Endpoints
           /\ Fingerprint \in Maybe
           /\ Fingerprint # NoEndpoint => Precondition = "ready" /\ Fingerprint = Effective
BY Distinct DEF TypeOK, Precondition, Effective, Fingerprint, States, Contents, Maybe

OpStates == {"setup_required", "config_invalid", "console_connected",
             "console_unreachable", "console_not_checked"}
Snapshots == [config: States, connection: Connections, endpoint: Maybe]

LEMMA OperationalTyped ==
    ASSUME TypeOK, NEW connection \in Connections
    PROVE  /\ Operational(connection) \in OpStates
           /\ Operational(connection) = "console_connected" => connection = "reachable"
BY Configured DEF Operational, OpStates, Connections, States

\* A rebuilt status shows the connection of the endpoint it shows, if what it
\* is built from is what the last probe of that endpoint found.
LEMMA BuildHolds ==
    ASSUME TypeOK, NEW connection \in Connections, NEW print \in Maybe,
           Build(connection, print),
           connection # "not_checked" /\ print # NoEndpoint => connection = last'[print],
           connection = "reachable" => \E e \in Endpoints : last'[e] = "reachable"
    PROVE  /\ conn' \in Connections /\ checked' \in Maybe
           /\ op' \in OpStates /\ snap' \in Snapshots
           /\ KeptTrue' /\ StatusSpeaksOfEndpoint'
<1> DEFINE bound == Bound(connection, print)
<1>1. /\ bound \in Connections
      /\ bound # "not_checked" =>
            /\ bound = connection /\ print = Fingerprint /\ print # NoEndpoint
    BY DEF Bound, Connections
<1>2. /\ conn' = connection /\ checked' = print
      /\ op' = Operational(bound) /\ snap' = Snapshot(connection, print)
    BY DEF Build
<1>3. snap' = [config |-> Precondition, connection |-> bound,
               endpoint |-> IF Precondition = "ready" THEN Effective ELSE NoEndpoint]
    BY <1>2 DEF Snapshot
<1>4. snap' \in Snapshots
    BY <1>1, <1>3, Configured DEF Snapshots, Maybe
<1>5. op' \in OpStates /\ (op' = "console_connected" => connection = "reachable")
    <2>1. op' \in OpStates /\ (op' = "console_connected" => bound = "reachable")
        BY <1>1, <1>2, OperationalTyped
    <2> QED BY <1>1, <2>1
<1>6. KeptTrue'
    BY <1>2 DEF KeptTrue
<1>7. bound # "not_checked" =>
         /\ snap'.endpoint = print /\ print # NoEndpoint
         /\ bound = last'[print]
    BY <1>1, <1>3, Configured
<1>8. StatusSpeaksOfEndpoint'
    <2>1. /\ snap'.connection = bound
          /\ snap'.config \in States
        BY <1>3, Configured
    <2>2. States \cap {"reachable", "unreachable"} = {}
        BY DEF States
    <2>3. (Footer = "console_connected" => \E e \in Endpoints : last[e] = "reachable")'
        BY <1>5 DEF Footer
    <2> QED BY <1>7, <2>1, <2>2, <2>3 DEF StatusSpeaksOfEndpoint, Shown, Dashboard
<1> QED BY <1>2, <1>4, <1>5, <1>6, <1>8

\* The precondition is stored beside the connection as it is.
LEMMA StoreHolds ==
    ASSUME TypeOK, KeptTrue, StatusSpeaksOfEndpoint, StorePrecondition, UNCHANGED last
    PROVE  /\ op' \in OpStates /\ UNCHANGED <<conn, checked, snap>>
           /\ KeptTrue' /\ StatusSpeaksOfEndpoint'
<1>1. UNCHANGED <<conn, checked, snap>> /\ op' = Operational(conn)
    BY DEF StorePrecondition
<1>2. op' \in OpStates /\ (op' = "console_connected" => conn = "reachable")
    BY <1>1, OperationalTyped DEF TypeOK
<1>3. KeptTrue'
    BY <1>1 DEF KeptTrue
<1>4. StatusSpeaksOfEndpoint'
    BY <1>1, <1>2 DEF StatusSpeaksOfEndpoint, Shown, Dashboard, Footer, KeptTrue
<1> QED BY <1>1, <1>2, <1>3, <1>4

\* Whatever leaves the status alone.
LEMMA SeenHolds ==
    ASSUME KeptTrue, StatusSpeaksOfEndpoint, UNCHANGED <<seen, last>>
    PROVE  KeptTrue' /\ StatusSpeaksOfEndpoint'
BY DEF KeptTrue, StatusSpeaksOfEndpoint, Shown, Dashboard, Footer, seen

-----------------------------------------------------------------------------
LEMMA InitHolds == ASSUME Init PROVE RInv
<1>1. Precondition \in States /\ Effective \in Contents
    BY DEF Init, Precondition, Effective, States, Contents, Maybe
<1>2. Precondition = "ready" => Effective \in Endpoints
    BY Distinct DEF Init, Precondition, Effective, Maybe
<1>3. conn = "not_checked" /\ Bound(conn, checked) = "not_checked"
    BY DEF Init, Bound
<1>4. op \in {"setup_required", "config_invalid", "console_not_checked"}
    BY <1>1, <1>3 DEF Init, Operational, States
<1>5. /\ snap = [config |-> Precondition, connection |-> "not_checked",
                 endpoint |-> IF Precondition = "ready" THEN Effective ELSE NoEndpoint]
    BY <1>3 DEF Init, Snapshot
<1>6. snap \in Snapshots
    BY <1>1, <1>2, <1>5 DEF Snapshots, Maybe, Connections
<1>7. TypeOK
    <2>1. asked \in [Reads -> 0 .. 2]
        BY DEF Init, Nothing
    <2>2. last \in [Endpoints -> Connections]
        BY DEF Init, Connections
    <2> QED BY <1>3, <1>4, <1>6, <2>1, <2>2
            DEF Init, TypeOK, Contents, Maybe, NoProbe, Snapshots, Connections
<1>8. SavedConfigWhole
    BY Distinct DEF Init, SavedConfigWhole
<1>9. KeptTrue /\ StatusSpeaksOfEndpoint
    <2>1. snap.connection = "not_checked" /\ snap.config \in States
        BY <1>1, <1>5
    <2>2. States \cap {"reachable", "unreachable"} = {}
        BY DEF States
    <2> QED BY <1>3, <1>4, <2>1, <2>2
            DEF KeptTrue, StatusSpeaksOfEndpoint, Shown, Dashboard, Footer
<1>10. Saving /\ AskedOnce /\ CommandKnown
    BY Distinct DEF Init, Saving, NoProbe, AskedOnce, Waiting, Nothing, CommandKnown
<1> QED BY <1>7, <1>8, <1>9, <1>10 DEF RInv

\* Keys that open, close or type, and the end of a session.
LEMMA ScreenHolds ==
    ASSUME RInv,
           TypeText \/ Escape \/ EnterWithPending \/ Setup \/ OtherCommand \/ ExitCommand
             \/ Decline \/ Interrupt \/ Kill
    PROVE  RInv'
<1> USE DEF RInv, disk, seen, screen, history
<1>1. /\ UNCHANGED <<override, file, seen, cmd, probe, last>>
      /\ temp' \in {temp, NoEndpoint}
      /\ buffer' \in {"empty", "slash", "text"} /\ panel' \in BOOLEAN /\ form' \in BOOLEAN
      /\ pc' \in {pc, "exited", "submitted"} /\ (pc' = "submitted" => pc = "keys")
      /\ pc' = "replace" => temp' = temp
      /\ \/ UNCHANGED <<pending, asked>>
         \/ pending' = NoCommand /\ asked' = Nothing /\ pc = "keys" /\ pc' = "keys"
    BY DEF TypeOK, TypeText, Escape, EnterWithPending, Setup, OtherCommand, ExitCommand,
           Decline, Interrupt, Kill, CanRun, OpenForm, FormFails, ClearScreen
<1>2. Nothing \in [Reads -> 0 .. 2] /\ \A c \in Reads : Nothing[c] = 0
    BY DEF Nothing
<1>3. TypeOK'
    BY <1>1, <1>2 DEF TypeOK, Contents, Maybe, Busy, SetupSteps
<1>4. SavedConfigWhole' /\ Saving' /\ CommandKnown'
    BY <1>1 DEF SavedConfigWhole, Saving, CommandKnown
<1>5. KeptTrue' /\ StatusSpeaksOfEndpoint'
    BY <1>1, SeenHolds
<1>6. AskedOnce'
    BY <1>1, <1>2, Distinct DEF AskedOnce, Waiting
<1> QED BY <1>3, <1>4, <1>5, <1>6

\* A read that is dispatched, refused until setup, or refused.
LEMMA ReadHolds == ASSUME RInv, NEW c \in Reads, Read(c) PROVE RInv'
<1> USE DEF RInv, disk, history
<1>1. /\ UNCHANGED <<override, file, temp, form, probe, last>>
      /\ pc = "keys" /\ StorePrecondition /\ buffer' = "empty"
      /\ panel' \in BOOLEAN
    BY DEF Read, CanRun, TypeOK
<1>2. /\ pc' \in {"keys", "dispatch"} /\ cmd' \in {cmd, c}
      /\ pending' \in {pending, c, NoCommand}
      /\ pc' = "dispatch" => cmd' = c /\ pending' = pending
    BY <1>1 DEF Read
<1>3. \A d \in Reads : asked[d] = (IF pending = d THEN 1 ELSE 0)
    BY <1>1 DEF AskedOnce, Waiting
<1>4. asked' \in [Reads -> 0 .. 2] /\ \A d \in Reads : asked'[d] = Waiting(d)'
    <2>1. CASE pc' = "dispatch"
        <3>1. asked' = [asked EXCEPT ![c] = @ + 1] /\ cmd' = c /\ pending' = pending
            BY <1>1, <2>1 DEF Read
        <3> QED BY <1>3, <2>1, <3>1 DEF TypeOK, Waiting
    <2>2. CASE pending' = c /\ asked' = [Nothing EXCEPT ![c] = 1] /\ pc' # "dispatch"
        BY <2>2 DEF Nothing, Waiting
    <2>3. CASE pending' = NoCommand /\ asked' = Nothing /\ pc' # "dispatch"
        BY <2>3, Distinct DEF Nothing, Waiting
    <2> QED BY <1>1, <2>1, <2>2, <2>3 DEF Read
<1>5. op' \in OpStates /\ UNCHANGED <<conn, checked, snap>> /\ KeptTrue' /\ StatusSpeaksOfEndpoint'
    BY <1>1, StoreHolds
<1>6. TypeOK'
    BY <1>1, <1>2, <1>4, <1>5 DEF TypeOK, OpStates, Busy, SetupSteps
<1>7. SavedConfigWhole' /\ Saving' /\ CommandKnown' /\ AskedOnce'
    BY <1>1, <1>2, <1>4 DEF SavedConfigWhole, Saving, CommandKnown, AskedOnce
<1> QED BY <1>5, <1>6, <1>7

\* The status is rebuilt with what is known.
LEMMA StatusHolds == ASSUME RInv, Status PROVE RInv'
<1> USE DEF RInv, disk, history
<1>1. /\ UNCHANGED <<override, file, temp, form, pending, pc, cmd, probe, last, asked>>
      /\ Build(conn, checked) /\ buffer' = "empty" /\ panel' = TRUE
    BY DEF Status
<1>2. /\ conn' \in Connections /\ checked' \in Maybe
      /\ op' \in OpStates /\ snap' \in Snapshots
      /\ KeptTrue' /\ StatusSpeaksOfEndpoint'
    BY <1>1, BuildHolds DEF TypeOK, KeptTrue
<1>3. TypeOK'
    BY <1>1, <1>2 DEF TypeOK, OpStates, Snapshots
<1>4. SavedConfigWhole' /\ Saving' /\ CommandKnown' /\ AskedOnce'
    BY <1>1 DEF SavedConfigWhole, Saving, CommandKnown, AskedOnce, Waiting
<1> QED BY <1>2, <1>3, <1>4

-----------------------------------------------------------------------------
\* The save: its start, its three steps, and everybody else's saves.
LEMMA SaveHolds ==
    ASSUME RInv,
           \/ \E e \in Endpoints : Submit(e)
           \/ CreateTemp \/ WriteTemp \/ Replace
           \/ \E f \in Maybe \cup {Broken} : OtherWriter(f)
    PROVE  RInv'
<1> USE DEF RInv, disk, screen, history
<1>1. /\ UNCHANGED <<override, seen, screen, pending, last, asked>>
      /\ pc' \in {pc, "create", "write", "replace", "probe"}
      /\ pc = "dispatch" => pc' = "dispatch" /\ cmd' = cmd
      /\ pc # "dispatch" => pc' # "dispatch"
      /\ pc = "exited" <=> pc' = "exited"
      /\ cmd' \in {cmd, "/setup"}
    BY DEF Submit, CreateTemp, WriteTemp, Replace, OtherWriter
<1>2. /\ probe' \in [at: Maybe, print: Maybe]
      /\ probe'.print \in {probe'.at, NoEndpoint}
      /\ pc' \in {"create", "write", "replace", "probe"} => probe'.at # NoEndpoint
    <2>1. CASE \E e \in Endpoints : Submit(e)
        BY <2>1, Distinct DEF Submit, Maybe
    <2>2. CASE CreateTemp \/ WriteTemp \/ Replace \/ \E f \in Maybe \cup {Broken} : OtherWriter(f)
        BY <2>2 DEF CreateTemp, WriteTemp, Replace, OtherWriter, TypeOK, Saving
    <2> QED BY <2>1, <2>2
<1>3. /\ file' \in Contents /\ file' # Partial
      /\ temp' \in Contents
      /\ pc' = "replace" => temp' = probe'.at
    <2>1. CASE \E e \in Endpoints : Submit(e)
        BY <2>1 DEF Submit, TypeOK, SavedConfigWhole
    <2>2. CASE CreateTemp \/ WriteTemp
        BY <2>2 DEF CreateTemp, WriteTemp, TypeOK, SavedConfigWhole, Contents
    <2>3. CASE Replace
        <3>1. temp = probe.at /\ probe.at \in Maybe
            BY <2>3 DEF Replace, Saving, TypeOK
        <3> QED BY <2>3, <3>1, Distinct DEF Replace, Contents, Maybe
    <2>4. CASE \E f \in Maybe \cup {Broken} : OtherWriter(f)
        BY <2>4, Distinct DEF OtherWriter, TypeOK, Contents, Saving
    <2> QED BY <2>1, <2>2, <2>3, <2>4
<1>4. TypeOK'
    BY <1>1, <1>2, <1>3 DEF TypeOK, Busy, SetupSteps, seen
<1>5. SavedConfigWhole' /\ Saving' /\ CommandKnown'
    BY <1>1, <1>2, <1>3 DEF SavedConfigWhole, Saving, CommandKnown
<1>6. KeptTrue' /\ StatusSpeaksOfEndpoint'
    BY <1>1, SeenHolds
<1>7. AskedOnce'
    BY <1>1 DEF AskedOnce, Waiting
<1> QED BY <1>4, <1>5, <1>6, <1>7

LEMMA SaveFailsHolds == ASSUME RInv, SaveFails PROVE RInv'
<1> USE DEF RInv, screen, history
<1>1. /\ UNCHANGED <<override, file, screen, pending, cmd, probe, last, asked>>
      /\ Build("not_checked", probe.print)
      /\ temp' = NoEndpoint /\ pc' = "submitted" /\ pc \notin {"dispatch", "exited"}
    BY DEF SaveFails
<1>2. /\ conn' \in Connections /\ checked' \in Maybe
      /\ op' \in OpStates /\ snap' \in Snapshots
      /\ KeptTrue' /\ StatusSpeaksOfEndpoint'
    <2>1. "not_checked" \in Connections /\ probe.print \in Maybe
        BY DEF Connections, TypeOK
    <2> QED BY <1>1, <2>1, BuildHolds
<1>3. TypeOK'
    BY <1>1, <1>2 DEF TypeOK, OpStates, Snapshots, Contents, Maybe, Busy, SetupSteps
<1>4. SavedConfigWhole' /\ Saving' /\ CommandKnown' /\ AskedOnce'
    BY <1>1 DEF SavedConfigWhole, Saving, CommandKnown, AskedOnce, Waiting
<1> QED BY <1>2, <1>3, <1>4

LEMMA CloseFormHolds == ASSUME RInv, CloseForm PROVE RInv'
<1> USE DEF RInv, disk, history
<1>1. /\ UNCHANGED <<override, file, temp, buffer, panel, last>>
      /\ pc = "submitted" /\ StorePrecondition /\ form' = FALSE
      /\ pending' = NoCommand /\ probe' = NoProbe
      /\ pc' \in {"keys", "dispatch"}
    BY DEF CloseForm
<1>2. /\ cmd' \in Reads \cup {NoCommand} /\ (pc' = "dispatch" => cmd' \in Reads)
      /\ asked' \in [Reads -> 0 .. 2]
      /\ \A c \in Reads : asked'[c] = Waiting(c)'
    <2>1. CASE pending # NoCommand /\ Precondition = "ready"
        <3>1. pc' = "dispatch" /\ cmd' = pending /\ asked' = asked
            BY <2>1 DEF CloseForm
        <3>2. \A c \in Reads : asked[c] = (IF pending = c THEN 1 ELSE 0)
            BY <1>1 DEF AskedOnce, Waiting
        <3> QED BY <1>1, <2>1, <3>1, <3>2, Distinct DEF TypeOK, Waiting
    <2>2. CASE ~(pending # NoCommand /\ Precondition = "ready")
        BY <1>1, <2>2, Distinct DEF CloseForm, Nothing, Waiting
    <2> QED BY <2>1, <2>2
<1>3. op' \in OpStates /\ UNCHANGED <<conn, checked, snap>> /\ KeptTrue' /\ StatusSpeaksOfEndpoint'
    BY <1>1, StoreHolds
<1>4. TypeOK'
    BY <1>1, <1>2, <1>3 DEF TypeOK, OpStates, Busy, NoProbe, Maybe
<1>5. SavedConfigWhole' /\ Saving' /\ CommandKnown' /\ AskedOnce'
    BY <1>1, <1>2 DEF SavedConfigWhole, Saving, CommandKnown, AskedOnce, NoProbe
<1> QED BY <1>3, <1>4, <1>5

-----------------------------------------------------------------------------
\* A read that begins, or raises, is no longer waited for.
LEMMA BegunHolds ==
    ASSUME RInv, Dispatch \/ CommandFails
    PROVE  /\ asked' \in [Reads -> 0 .. 2]
           /\ \A c \in Reads : asked'[c] = Waiting(c)'
           /\ pc' \in {"keys", "probe"} /\ UNCHANGED pending
<1> USE DEF RInv, history
<1>1. pc \in {"dispatch", "probe"} /\ pc' \in {"keys", "probe"} /\ UNCHANGED pending
    BY DEF Dispatch, CommandFails
<1>2. \A c \in Reads : asked[c] = Waiting(c) /\ asked[c] \in 0 .. 2
    BY <1>1 DEF AskedOnce, TypeOK
<1>3. CASE pc = "dispatch"
    <2>1. cmd \in Reads /\ asked' = [asked EXCEPT ![cmd] = @ - 1]
        BY <1>3 DEF CommandKnown, Dispatch, CommandFails
    <2>2. \A c \in Reads : asked'[c] = IF c = cmd THEN asked[c] - 1 ELSE asked[c]
        BY <2>1 DEF TypeOK
    <2>3. asked[cmd] >= 1
        BY <1>2, <1>3, <2>1 DEF Waiting
    <2> QED BY <1>1, <1>2, <1>3, <2>1, <2>2, <2>3 DEF Waiting, TypeOK
<1>4. CASE pc = "probe"
    <2>1. asked' = asked
        BY <1>4 DEF Dispatch, CommandFails
    <2> QED BY <1>1, <1>2, <1>4, <2>1 DEF Waiting, TypeOK
<1> QED BY <1>1, <1>3, <1>4

LEMMA DispatchHolds == ASSUME RInv, Dispatch \/ CommandFails PROVE RInv'
<1> USE DEF RInv, disk, history
<1>1. /\ UNCHANGED <<override, file, temp, seen, buffer, form, last>>
      /\ panel' \in BOOLEAN /\ cmd' \in Reads \cup {"/setup", NoCommand}
    BY DEF Dispatch, CommandFails, TypeOK
<1>2. /\ asked' \in [Reads -> 0 .. 2]
      /\ \A c \in Reads : asked'[c] = Waiting(c)'
      /\ pc' \in {"keys", "probe"} /\ UNCHANGED pending
    BY BegunHolds
<1>3. /\ probe' \in [at: Maybe, print: Maybe]
      /\ probe'.print \in {probe'.at, NoEndpoint}
      /\ pc' = "probe" => probe'.at # NoEndpoint
    <2>1. CASE Dispatch /\ Precondition = "ready"
        <3>1. probe' = [at |-> Effective, print |-> Fingerprint]
            BY <2>1 DEF Dispatch
        <3> QED BY <3>1, <2>1, Configured, Distinct DEF Maybe
    <2>2. CASE Dispatch /\ Precondition # "ready"
        BY <2>2 DEF Dispatch, TypeOK, Saving
    <2>3. CASE CommandFails
        BY <2>3 DEF CommandFails, NoProbe, Maybe
    <2> QED BY <2>1, <2>2, <2>3
<1>4. TypeOK'
    BY <1>1, <1>2, <1>3 DEF TypeOK, seen, Busy
<1>5. SavedConfigWhole' /\ Saving' /\ CommandKnown' /\ AskedOnce'
    BY <1>1, <1>2, <1>3 DEF SavedConfigWhole, Saving, CommandKnown, AskedOnce
<1>6. KeptTrue' /\ StatusSpeaksOfEndpoint'
    BY <1>1, SeenHolds
<1> QED BY <1>4, <1>5, <1>6

\* The answer to a probe is recorded under its endpoint.
LEMMA ProbedHolds ==
    ASSUME RInv, NEW r \in Connections \ {"not_checked"},
           SetupProbed(r) \/ GetInfoProbed(r) \/ VerifyProbed(r)
    PROVE  RInv'
<1> USE DEF RInv, disk, history
<1>1. /\ UNCHANGED <<override, file, temp, buffer, form, pending, asked>>
      /\ pc = "probe" /\ pc' \in {"keys", "submitted"}
      /\ last' = [last EXCEPT ![probe.at] = r] /\ Build(r, probe.print)
      /\ cmd' \in {cmd, NoCommand} /\ probe' \in {probe, NoProbe}
      /\ panel' \in BOOLEAN
    BY DEF SetupProbed, GetInfoProbed, VerifyProbed, Answered, ShowResult, TypeOK
<1>2. /\ probe.at \in Endpoints /\ probe.print \in Maybe
      /\ probe.print \in {probe.at, NoEndpoint}
      /\ last' \in [Endpoints -> Connections] /\ last'[probe.at] = r
    BY <1>1 DEF TypeOK, Saving, Maybe
<1>3. /\ conn' \in Connections /\ checked' \in Maybe
      /\ op' \in OpStates /\ snap' \in Snapshots
      /\ KeptTrue' /\ StatusSpeaksOfEndpoint'
    BY <1>1, <1>2, BuildHolds
<1>4. TypeOK'
    BY <1>1, <1>2, <1>3 DEF TypeOK, OpStates, Snapshots, NoProbe, Maybe, Busy, SetupSteps
<1>5. SavedConfigWhole' /\ Saving' /\ CommandKnown' /\ AskedOnce'
    BY <1>1, <1>2 DEF SavedConfigWhole, Saving, NoProbe, CommandKnown, AskedOnce, Waiting
<1> QED BY <1>3, <1>4, <1>5

LEMMA RestartHolds == ASSUME RInv, Restart PROVE RInv'
<1> USE DEF RInv
<1>1. /\ UNCHANGED <<override, file, last>> /\ temp' = NoEndpoint
      /\ Build("not_checked", NoEndpoint)
      /\ buffer' = "empty" /\ panel' = FALSE /\ form' = FALSE
      /\ pending' = NoCommand /\ pc' = "keys" /\ cmd' = NoCommand
      /\ probe' = NoProbe /\ asked' = Nothing
    BY DEF Restart, ClearScreen
<1>2. /\ conn' \in Connections /\ checked' \in Maybe
      /\ op' \in OpStates /\ snap' \in Snapshots
      /\ KeptTrue' /\ StatusSpeaksOfEndpoint'
    <2>1. "not_checked" \in Connections /\ NoEndpoint \in Maybe
        BY DEF Connections, Maybe
    <2> QED BY <1>1, <2>1, BuildHolds
<1>3. Nothing \in [Reads -> 0 .. 2]
    BY DEF Nothing
<1>4. TypeOK'
    BY <1>1, <1>2, <1>3 DEF TypeOK, OpStates, Snapshots, NoProbe, Maybe, Contents
<1>5. SavedConfigWhole' /\ Saving' /\ CommandKnown' /\ AskedOnce'
    BY <1>1, Distinct DEF SavedConfigWhole, Saving, NoProbe, CommandKnown, AskedOnce,
                          Waiting, Nothing
<1> QED BY <1>2, <1>4, <1>5

-----------------------------------------------------------------------------
LEMMA StepHolds == ASSUME RInv, [Next]_vars PROVE RInv'
<1>1. CASE \/ TypeText \/ Escape \/ EnterWithPending \/ Setup \/ OtherCommand
           \/ ExitCommand \/ Decline \/ Interrupt \/ Kill
    BY <1>1, ScreenHolds
<1>2. CASE \E c \in Reads : Read(c)
    BY <1>2, ReadHolds
<1>3. CASE Status
    BY <1>3, StatusHolds
<1>4. CASE \/ \E e \in Endpoints : Submit(e)
           \/ CreateTemp \/ WriteTemp \/ Replace
           \/ \E f \in Maybe \cup {Broken} : OtherWriter(f)
    BY <1>4, SaveHolds
<1>5. CASE SaveFails
    BY <1>5, SaveFailsHolds
<1>6. CASE CloseForm
    BY <1>6, CloseFormHolds
<1>7. CASE Dispatch \/ CommandFails
    BY <1>7, DispatchHolds
<1>8. CASE \E r \in Connections \ {"not_checked"} :
              SetupProbed(r) \/ GetInfoProbed(r) \/ VerifyProbed(r)
    BY <1>8, ProbedHolds
<1>9. CASE Restart
    BY <1>9, RestartHolds
<1>10. CASE UNCHANGED vars
    <2>1. UNCHANGED <<override, disk, seen, screen, pending, pc, cmd, probe, history>>
        BY <1>10 DEF vars
    <2>2. KeptTrue' /\ StatusSpeaksOfEndpoint'
        BY <2>1, SeenHolds DEF RInv, history
    <2>3. TypeOK' /\ SavedConfigWhole' /\ Saving' /\ AskedOnce' /\ CommandKnown'
        BY <2>1 DEF RInv, TypeOK, SavedConfigWhole, Saving, AskedOnce, Waiting,
                    CommandKnown, disk, seen, screen, history
    <2> QED BY <2>2, <2>3 DEF RInv
<1> QED BY <1>1, <1>2, <1>3, <1>4, <1>5, <1>6, <1>7, <1>8, <1>9, <1>10
        DEF Next, Keys, Machine

LEMMA Invariance == Spec => []RInv
<1>1. Init => RInv
    BY InitHolds
<1>2. RInv /\ [Next]_vars => RInv'
    BY StepHolds
<1> QED BY <1>1, <1>2, PTL DEF Spec

\* Every variable of the console stays in its set: no command is asked for more
\* than twice at once, and nothing is probed that has no endpoint.
THEOREM TypeCorrect == Spec => []TypeOK
<1>1. RInv => TypeOK
    BY DEF RInv
<1> QED BY <1>1, Invariance, PTL

\* The status and the dashboard show no connection of another endpoint than the
\* one they name, whoever changed the configuration, and when.
THEOREM StatusIsBound == Spec => []StatusSpeaksOfEndpoint
<1>1. RInv => StatusSpeaksOfEndpoint
    BY DEF RInv
<1> QED BY <1>1, Invariance, PTL

\* save_runtime_config never leaves a part of a configuration.
THEOREM SavedWhole == Spec => []SavedConfigWhole
<1>1. RInv => SavedConfigWhole
    BY DEF RInv
<1> QED BY <1>1, Invariance, PTL

\* A read goes to the console once for each time the operator asked for it.
THEOREM ReadsAnswer == Spec => []ReadsAnswerRequests
<1>1. RInv => ReadsAnswerRequests
    <2> SUFFICES ASSUME RInv, NEW c \in Reads
                 PROVE  Waiting(c) <= asked[c]
        BY DEF ReadsAnswerRequests, Waiting
    <2> QED BY DEF RInv, AskedOnce, Waiting, TypeOK
<1> QED BY <1>1, Invariance, PTL

-----------------------------------------------------------------------------
(* How long the loop can be away from the keys.                             *)

\* Steps the loop may still take: a save writes, replaces, probes and closes
\* its form, and then there may be a read that was waiting for it.
Remaining ==
    IF pc \in {"keys", "exited"} THEN 0
    ELSE IF pc = "create"    THEN 7
    ELSE IF pc = "write"     THEN 6
    ELSE IF pc = "replace"   THEN 5
    ELSE IF pc = "submitted" THEN 3
    ELSE IF pc = "dispatch"  THEN 2
    ELSE IF cmd = "/setup"   THEN 4 ELSE 1

\* Whatever a save or a probe comes to, it brings the loop nearer to its keys;
\* another process that writes the configuration in the middle does not put
\* them off, and a session that ends has nothing left to do.
CommandsShrink ==
    [][/\ Machine => Remaining' < Remaining
       /\ \A f \in Maybe \cup {Broken} : OtherWriter(f) => Remaining' = Remaining
       /\ Interrupt \/ Kill => Remaining' = 0]_vars

\* The measure behind CommandsEnd: seven steps bring any command and any save
\* back to the keys, the retry of a command that waited for setup included.
THEOREM EveryStepShrinksTheCommand == Spec => [](Remaining \in 0..7) /\ CommandsShrink
<1>1. Remaining \in 0..7
    BY DEF Remaining
<1>2. RInv /\ [Next]_vars =>
          [/\ Machine => Remaining' < Remaining
           /\ \A f \in Maybe \cup {Broken} : OtherWriter(f) => Remaining' = Remaining
           /\ Interrupt \/ Kill => Remaining' = 0]_vars
    <2>1. ASSUME RInv, Machine
          PROVE  Remaining' < Remaining
        <3>1. CASE CreateTemp \/ WriteTemp \/ Replace \/ SaveFails
            BY <3>1 DEF CreateTemp, WriteTemp, Replace, SaveFails, Remaining
        <3>2. CASE CloseForm
            BY <3>2 DEF CloseForm, Remaining
        <3>3. CASE Dispatch
            <4>1. cmd # "/setup"
                BY <2>1, <3>3, ConsoleAssumption
                DEF RInv, CommandKnown, Dispatch, Reads
            <4> QED BY <3>3, <4>1 DEF Dispatch, Remaining
        <3>4. CASE CommandFails
            BY <3>4 DEF CommandFails, Remaining
        <3>5. ASSUME NEW r \in Connections, SetupProbed(r) \/ GetInfoProbed(r)
                                                \/ VerifyProbed(r)
              PROVE  Remaining' < Remaining
            BY <3>5 DEF SetupProbed, GetInfoProbed, VerifyProbed, ShowResult,
                        Answered, Remaining
        <3> QED BY <2>1, <3>1, <3>2, <3>3, <3>4, <3>5 DEF Machine
    <2>2. ASSUME NEW f \in Maybe \cup {Broken}, OtherWriter(f)
          PROVE  Remaining' = Remaining
        BY <2>2 DEF OtherWriter, Remaining
    <2>3. ASSUME Interrupt \/ Kill
          PROVE  Remaining' = 0
        BY <2>3 DEF Interrupt, Kill, Remaining
    <2> QED BY <2>1, <2>2, <2>3
<1> QED BY <1>1, <1>2, Invariance, PTL DEF Spec, CommandsShrink
=============================================================================
