---------------------------- MODULE RuntimeConsole ----------------------------
(***************************************************************************)
(* The Runtime Console: the key loop of installer/tty_app.py, the setup    *)
(* form and the two commands that read the console, the saved              *)
(* configuration they agree on, and the status snapshot they leave behind. *)
(*                                                                         *)
(* The loop has one thread, and waits in a probe or a save while another   *)
(* process (`m32-bridge config set', an editor) changes the configuration. *)
(* An endpoint stands for a host and port with its intended target.        *)
(***************************************************************************)
EXTENDS Naturals

CONSTANTS Endpoints,    \* what the operator, the file or the environment names
          NoEndpoint,   \* none: the file is missing or names no host
          Broken,       \* the file is not a readable mapping
          Partial,      \* a file whose writing stopped half way
          GetInfo, VerifyDevice,  \* the commands that read the console
          NoCommand

ASSUME ConsoleAssumption ==
    /\ NoEndpoint # Broken /\ NoEndpoint # Partial /\ Broken # Partial
    /\ {NoEndpoint, Broken, Partial} \cap Endpoints = {}
    /\ GetInfo # VerifyDevice /\ NoCommand # "/setup"
    /\ {NoCommand, "/setup"} \cap {GetInfo, VerifyDevice} = {}

VARIABLES
    override,       \* what M32_CONSOLE_HOST and _PORT name in this session
    file,           \* the user configuration
    temp,           \* the temporary file of the save in progress
    conn,           \* result["console_connection_status"]
    checked,        \* result["last_console_config_fingerprint"]
    op,             \* result["operational_state"], which the footer shows
    snap,           \* result["runtime_status_snapshot"]
    buffer,         \* input_buffer: empty, starting with a slash, other text
    panel,          \* whether a panel covers the dashboard
    form,           \* whether the setup form is open
    pending,        \* pending_setup_command
    pc,             \* where the loop is
    cmd,            \* the command it executes
    probe,          \* the endpoint it probes, and the fingerprint it records
    \* History, read by the properties only.
    last,           \* what the last probe of each endpoint found
    asked           \* how often the operator asked for a read not yet begun

seen    == <<conn, checked, op, snap>>
screen  == <<buffer, panel, form>>
disk    == <<file, temp>>
history == <<last, asked>>
vars    == <<override, disk, seen, screen, pending, pc, cmd, probe, history>>

Reads       == {GetInfo, VerifyDevice}
Maybe       == Endpoints \cup {NoEndpoint}
Contents    == Maybe \cup {Broken, Partial}
States      == {"setup_required", "config_invalid", "ready"}
Connections == {"not_checked", "reachable", "unreachable"}
Nothing     == [c \in Reads |-> 0]
NoProbe     == [at |-> NoEndpoint, print |-> NoEndpoint]

-----------------------------------------------------------------------------
(* The configuration and the status built from it.                          *)

Effective == IF override # NoEndpoint THEN override ELSE file

\* evaluate_console_precondition; an unreadable file outweighs the override.
Precondition == IF file \in {Broken, Partial}  THEN "config_invalid"
                ELSE IF Effective = NoEndpoint THEN "setup_required"
                                               ELSE "ready"

\* endpoint_fingerprint: there is none without a configuration file, even when
\* the environment names an endpoint.
Fingerprint == IF Precondition = "ready" /\ file # NoEndpoint THEN Effective
                                                              ELSE NoEndpoint

\* Mutant: whatever endpoint it was asked of.
AnyConnection(connection, print) ==
    IF print # NoEndpoint /\ Precondition = "ready" THEN connection
                                                    ELSE "not_checked"

\* What is known of the connection, bound to the endpoint it was asked of.
Bound(connection, print) ==
    IF print # NoEndpoint /\ print = Fingerprint THEN connection
                                                 ELSE "not_checked"

Operational(connection) ==
    CASE Precondition # "ready"      -> Precondition
      [] connection = "reachable"    -> "console_connected"
      [] connection = "unreachable"  -> "console_unreachable"
      [] connection = "not_checked"  -> "console_not_checked"

Snapshot(connection, print) ==
    [config     |-> Precondition,
     connection |-> Bound(connection, print),
     endpoint   |-> IF Precondition = "ready" THEN Effective ELSE NoEndpoint]

\* record_console_result, if there is one, and build_runtime_status.
Build(connection, print) ==
    /\ conn' = connection
    /\ checked' = print
    /\ op' = Operational(Bound(connection, print))
    /\ snap' = Snapshot(connection, print)

\* What the status panel shows of the console when it has been built.
Shown == [endpoint |-> snap.endpoint, connection |-> snap.connection]

\* What the dashboard shows of it, from the last snapshot, at every frame that
\* no panel covers.
Dashboard == [endpoint |-> snap.endpoint, connection |-> snap.connection,
              operational |-> IF snap.config = "ready" THEN snap.connection ELSE snap.config]

\* What the footer says of it, under every panel.
Footer == op

\* _store_console_precondition: the connection is taken as it is.
StorePrecondition == /\ op' = Operational(conn)
                     /\ UNCHANGED <<conn, checked, snap>>

ClearScreen == buffer' = "empty" /\ panel' = FALSE /\ form' = FALSE

Init ==
    /\ override \in Maybe
    /\ file \in Maybe \cup {Broken} /\ temp = NoEndpoint
    /\ conn = "not_checked" /\ checked = NoEndpoint /\ op = Operational(conn)
    /\ snap = Snapshot(conn, checked)
    /\ buffer = "empty" /\ panel = FALSE /\ form = FALSE
    /\ pending = NoCommand /\ pc = "keys" /\ cmd = NoCommand /\ probe = NoProbe
    /\ last = [e \in Endpoints |-> "not_checked"] /\ asked = Nothing

-----------------------------------------------------------------------------
(* Keys.                                                                    *)

TypeText == /\ pc = "keys" /\ ~form
            /\ IF buffer = "empty" THEN buffer' \in {"slash", "text"}
                                   ELSE buffer' = "empty"      \* backspaces
            /\ UNCHANGED <<override, disk, seen, panel, form, pending, pc, cmd,
                           probe, history>>

\* ESC takes back the innermost thing, and leaves the console from the
\* dashboard. Dismissing the picker leaves the waiting command.
Escape ==
    /\ pc = "keys"
    /\ \/ /\ form
          /\ ClearScreen
          /\ pending' = NoCommand /\ asked' = Nothing
          /\ UNCHANGED pc
       \/ /\ ~form /\ buffer = "slash"
          /\ ClearScreen
          /\ UNCHANGED <<pending, asked, pc>>
       \/ /\ ~form /\ buffer # "slash" /\ panel
          /\ panel' = FALSE
          /\ pending' = NoCommand /\ asked' = Nothing
          /\ UNCHANGED <<buffer, form, pc>>
       \/ /\ ~form /\ buffer # "slash" /\ ~panel
          /\ pc' = "exited"
          /\ UNCHANGED <<screen, pending, asked>>
    /\ UNCHANGED <<override, disk, seen, cmd, probe, last>>

OpenForm == /\ buffer' = "empty" /\ panel' = TRUE /\ form' = TRUE
            /\ UNCHANGED <<pending, asked>>

\* A broken mapping opens the form with a warning, but loading may also raise:
\* then there is no form, and nothing waits for it any more.
FormFails == /\ buffer' = "empty" /\ panel' = TRUE /\ form' = FALSE
             /\ pending' = NoCommand /\ asked' = Nothing

\* While a command waits for setup, ENTER asks for the form whatever is typed.
EnterWithPending ==
    /\ pc = "keys" /\ ~form /\ pending # NoCommand
    /\ OpenForm \/ FormFails
    /\ UNCHANGED <<override, disk, seen, pc, cmd, probe, last>>

\* A command is executed by ENTER, or by TAB on the picker's selection.
CanRun == /\ pc = "keys" /\ ~form
          /\ (buffer = "slash" \/ (buffer = "text" /\ pending = NoCommand))

Setup == /\ CanRun
         /\ OpenForm \/ FormFails
         /\ UNCHANGED <<override, disk, seen, pc, cmd, probe, last>>

\* gate_runtime_command: ready, refused until setup, or refused.
Read(c) ==
    /\ CanRun
    /\ StorePrecondition
    /\ buffer' = "empty"
    /\ \/ /\ Precondition = "ready"
          /\ pc' = "dispatch" /\ cmd' = c /\ asked' = [asked EXCEPT ![c] = @ + 1]
          /\ UNCHANGED <<panel, pending>>
       \/ /\ Precondition = "setup_required"
          /\ pending' = c /\ panel' = TRUE /\ asked' = [Nothing EXCEPT ![c] = 1]
          /\ UNCHANGED <<pc, cmd>>
       \/ /\ Precondition = "config_invalid"
          /\ pending' = NoCommand /\ panel' = TRUE /\ asked' = Nothing
          /\ UNCHANGED <<pc, cmd>>
    /\ UNCHANGED <<override, disk, form, probe, last>>

\* /status, /health and /doctor-runtime rebuild the snapshot without a probe.
Status == /\ CanRun
          /\ Build(conn, checked)
          /\ buffer' = "empty" /\ panel' = TRUE
          /\ UNCHANGED <<override, disk, form, pending, pc, cmd, probe, history>>

\* /clear typed with its slash uncovers the dashboard; /help, /contact and
\* /mcp-config cover it.
OtherCommand == /\ CanRun
                /\ buffer' = "empty" /\ panel' \in BOOLEAN
                /\ UNCHANGED <<override, disk, seen, form, pending, pc, cmd, probe, history>>

ExitCommand == /\ CanRun
               /\ pc' = "exited"
               /\ UNCHANGED <<override, disk, seen, screen, pending, cmd, probe, history>>

-----------------------------------------------------------------------------
(* The setup form.                                                          *)

\* SAVE, with what was typed or what the form showed.
Submit(e) == /\ pc = "keys" /\ form
             /\ probe' = [at |-> e, print |-> e]
             /\ pc' = "create" /\ cmd' = "/setup"
             /\ UNCHANGED <<override, disk, seen, screen, pending, history>>

\* CANCEL, or a port that is no port: the form is done all the same.
Decline == /\ pc = "keys" /\ form
           /\ pc' = "submitted"
           /\ UNCHANGED <<override, disk, seen, screen, pending, cmd, probe, history>>

\* Mutant: the configuration is written in place.
CreateInPlace == /\ pc = "create"
                 /\ file' = Partial
                 /\ pc' = "write"
                 /\ UNCHANGED <<override, temp, seen, screen, pending, cmd, probe, history>>

CreateTemp == /\ pc = "create"
              /\ temp' = Partial
              /\ pc' = "write"
              /\ UNCHANGED <<override, file, seen, screen, pending, cmd, probe, history>>

WriteTemp == /\ pc = "write"
             /\ temp' = probe.at
             /\ pc' = "replace"
             /\ UNCHANGED <<override, file, seen, screen, pending, cmd, probe, history>>

Replace == /\ pc = "replace"
           /\ file' = temp /\ temp' = NoEndpoint
           /\ pc' = "probe"
           /\ UNCHANGED <<override, seen, screen, pending, cmd, probe, history>>

\* CONFIG_WRITE_FAILED: nothing is probed, and the session says so.
SaveFails == /\ pc \in {"create", "write", "replace"}
             /\ temp' = NoEndpoint
             /\ Build("not_checked", probe.print)
             /\ pc' = "submitted"
             /\ UNCHANGED <<override, file, screen, pending, cmd, probe, history>>

\* Mutant: the retried command still waits.
CloseFormWaiting ==
    /\ pc = "submitted"
    /\ StorePrecondition
    /\ form' = FALSE
    /\ probe' = NoProbe
    /\ IF pending # NoCommand /\ Precondition = "ready"
         THEN pc' = "dispatch" /\ cmd' = pending /\ UNCHANGED pending
         ELSE pc' = "keys" /\ cmd' = NoCommand /\ pending' = NoCommand
    /\ UNCHANGED <<override, disk, buffer, panel, history>>

\* Mutant: the form stays until there is a configuration to retry with.
CloseFormWhenReady ==
    /\ pc = "submitted" /\ Precondition = "ready"
    /\ StorePrecondition
    /\ form' = FALSE /\ pending' = NoCommand /\ probe' = NoProbe
    /\ pc' = "keys" /\ cmd' = NoCommand /\ asked' = Nothing
    /\ UNCHANGED <<override, disk, buffer, panel, last>>

\* The form closes; the waiting command is retried or forgotten.
CloseForm ==
    /\ pc = "submitted"
    /\ StorePrecondition
    /\ form' = FALSE
    /\ pending' = NoCommand
    /\ probe' = NoProbe
    /\ IF pending # NoCommand /\ Precondition = "ready"
         THEN /\ pc' = "dispatch" /\ cmd' = pending
              /\ UNCHANGED asked
         ELSE /\ pc' = "keys" /\ cmd' = NoCommand
              /\ asked' = Nothing
    /\ UNCHANGED <<override, disk, buffer, panel, last>>

-----------------------------------------------------------------------------
(* One read-only /info request.                                             *)

\* Mutant: the gate is believed.
DispatchBlindly ==
    /\ pc = "dispatch"
    /\ asked' = [asked EXCEPT ![cmd] = @ - 1]
    /\ pc' = "probe"
    /\ probe' = [at |-> Effective, print |-> Fingerprint]
    /\ UNCHANGED <<override, disk, seen, screen, pending, cmd, last>>

\* _execute_console_read evaluates the precondition again.
Dispatch ==
    /\ pc = "dispatch"
    /\ asked' = [asked EXCEPT ![cmd] = @ - 1]
    /\ IF Precondition = "ready"
         THEN /\ pc' = "probe"
              /\ probe' = [at |-> Effective, print |-> Fingerprint]
              /\ UNCHANGED <<cmd, panel>>
         ELSE /\ pc' = "keys" /\ cmd' = NoCommand /\ panel' = TRUE
              /\ UNCHANGED probe
    /\ UNCHANGED <<override, disk, seen, buffer, form, pending, last>>

\* The answer, whichever address it came from, or the timeout.
Answered(connection) ==
    /\ pc = "probe"
    /\ last' = [last EXCEPT ![probe.at] = connection]
    /\ Build(connection, probe.print)
    /\ UNCHANGED <<override, disk, buffer, form, pending, asked>>

SetupProbed(connection) == /\ cmd = "/setup"
                           /\ Answered(connection)
                           /\ pc' = "submitted"
                           /\ UNCHANGED <<cmd, probe, panel>>

ShowResult == pc' = "keys" /\ cmd' = NoCommand /\ probe' = NoProbe /\ panel' = TRUE

GetInfoProbed(connection) == /\ cmd = GetInfo
                             /\ Answered(connection)
                             /\ ShowResult

\* classify_device names the device from the answer and from what was intended;
\* the status is told only whether there was one.
VerifyProbed(connection) == /\ cmd = VerifyDevice
                            /\ Answered(connection)
                            /\ ShowResult

\* A read that raises, gated or retried: its panel says so, nothing is recorded.
CommandFails == /\ pc \in {"dispatch", "probe"} /\ cmd \in Reads
                /\ pc' = "keys" /\ cmd' = NoCommand
                /\ probe' = NoProbe /\ panel' = TRUE
                /\ asked' = IF pc = "dispatch" THEN [asked EXCEPT ![cmd] = @ - 1]
                                               ELSE asked
                /\ UNCHANGED <<override, disk, seen, buffer, form, pending, last>>

-----------------------------------------------------------------------------
(* Everybody else.                                                          *)

\* `config set', an editor, or a deletion, at any time.
OtherWriter(f) == /\ file' = f
                  /\ UNCHANGED <<override, temp, seen, screen, pending, pc, cmd,
                                 probe, history>>

\* The input ends, or a keyboard interrupt: the finally clause of a save runs.
Interrupt == /\ pc # "exited"
             /\ pc' = "exited" /\ temp' = NoEndpoint
             /\ UNCHANGED <<override, file, seen, screen, pending, cmd, probe, history>>

Kill == /\ pc # "exited"
        /\ pc' = "exited"
        /\ UNCHANGED <<override, disk, seen, screen, pending, cmd, probe, history>>

\* run_runtime_tty: a new session, which starts with an empty result.
Restart == /\ pc = "exited"
           /\ temp' = NoEndpoint
           /\ override' = override /\ file' = file
           /\ Build("not_checked", NoEndpoint)
           /\ ClearScreen
           /\ pending' = NoCommand /\ pc' = "keys" /\ cmd' = NoCommand
           /\ probe' = NoProbe /\ asked' = Nothing
           /\ UNCHANGED last

Keys == TypeText \/ Escape \/ EnterWithPending \/ Setup \/ (\E c \in Reads : Read(c))
        \/ Status \/ OtherCommand \/ ExitCommand
        \/ (\E e \in Endpoints : Submit(e)) \/ Decline

Machine == \/ CreateTemp \/ WriteTemp \/ Replace \/ SaveFails
           \/ CloseForm \/ Dispatch \/ CommandFails
           \/ \E r \in Connections \ {"not_checked"} : SetupProbed(r) \/ GetInfoProbed(r) \/ VerifyProbed(r)

Next == \/ Keys \/ Machine \/ Interrupt \/ Kill \/ Restart
        \/ \E f \in Maybe \cup {Broken} : OtherWriter(f)

Spec == Init /\ [][Next]_vars

\* Files and sockets return, and a probe has a timeout.
FairSpec == Spec /\ WF_vars(Machine)

-----------------------------------------------------------------------------
SetupSteps == {"create", "write", "replace", "submitted"}
Busy       == SetupSteps \cup {"dispatch", "probe"}

\* Every variable stays in its set, and a probe has an endpoint.
TypeOK ==
    /\ override \in Maybe /\ file \in Contents /\ temp \in Contents
    /\ conn \in Connections /\ checked \in Maybe
    /\ op \in {"setup_required", "config_invalid", "console_connected",
               "console_unreachable", "console_not_checked"}
    /\ snap \in [config: States, connection: Connections, endpoint: Maybe]
    /\ buffer \in {"empty", "slash", "text"} /\ panel \in BOOLEAN /\ form \in BOOLEAN
    /\ pending \in Reads \cup {NoCommand}
    /\ pc \in Busy \cup {"keys", "exited"} /\ cmd \in Reads \cup {"/setup", NoCommand}
    /\ probe \in [at: Maybe, print: Maybe]
    /\ last \in [Endpoints -> Connections] /\ asked \in [Reads -> 0 .. 2]
    /\ pc \in {"create", "write", "replace", "probe"} => probe.at # NoEndpoint

\* Neither the status panel nor the dashboard shows a connection that the last
\* probe of the very endpoint it shows did not find, whoever changed the
\* configuration meanwhile.
\* The footer is held to less: some endpoint answered its last probe.
StatusSpeaksOfEndpoint ==
    /\ Shown.connection # "not_checked" =>
          /\ Shown.endpoint # NoEndpoint
          /\ Shown.connection = last[Shown.endpoint]
    /\ Dashboard.operational \in {"reachable", "unreachable"} =>
          /\ Dashboard.endpoint # NoEndpoint
          /\ Dashboard.operational = last[Dashboard.endpoint]
    /\ Footer = "console_connected" => \E e \in Endpoints : last[e] = "reachable"

\* Wherever a save fails, is interrupted or is killed, the configuration is one
\* that somebody wrote whole.
SavedConfigWhole == file # Partial

\* A read goes to the console only for a command the operator entered, once for
\* each time, and not after the wait for it was given up.
ReadsAnswerRequests ==
    \A c \in Reads : (IF pc = "dispatch" /\ cmd = c THEN 1 ELSE 0)
                        + (IF pending = c THEN 1 ELSE 0) <= asked[c]

\* Every command and every save comes back to the keys.
CommandsEnd == pc \in Busy ~> pc \in {"keys", "exited"}
=============================================================================
