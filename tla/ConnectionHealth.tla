-------------------------- MODULE ConnectionHealth --------------------------
(***************************************************************************)
(* The fail-closed connection of core/connection.py and the emergency lock *)
(* of core/emergency.py that asks it before it lets go.                    *)
(*                                                                         *)
(* Each request to the console may go unanswered.  The bridge has one      *)
(* thread, so nothing but the clock moves while a request is waited for:   *)
(* what was reconciled a moment ago may be too old when the answer comes.  *)
(***************************************************************************)
EXTENDS Integers, Sequences, EmergencyController

CONSTANTS
    Items,              \* what a reconciliation asks for, in order: the
                        \* console's identity, then every required path
    MaxAttempts,        \* max_attempts of reconnect_with_backoff
    InitialBackoff,     \* its initial_backoff_seconds, in milliseconds
    MaxBackoff,         \* its max_backoff_seconds, in milliseconds
    CallerModes,        \* the runtime_mode callers of m32_unlock_writes pass
    RevisionParses,     \* whether the revision in an /info answer is a number
    MaxWrites           \* bound: guarded writes

ASSUME ConnectionAssumption ==
    /\ Items \in Seq(STRING) /\ Items # <<>>
    /\ MaxAttempts \in Int
    /\ InitialBackoff \in Nat
    /\ MaxBackoff \in Nat
    /\ CallerModes \subseteq Modes
    /\ RevisionParses \subseteq BOOLEAN
    /\ MaxWrites \in Nat

VARIABLES
    health,         \* the flags of ConnectionController
    age,            \* of last_reconciled_at: "never", "fresh" or "old"
    pc,             \* where the call in progress is
    n,              \* the item its reconciliation is at
    retrying,       \* it runs inside reconnect_with_backoff
    attempt,        \* of reconnect_with_backoff
    delay,          \* its next sleep
    controller,     \* the emergency controller
    \* History, read by the properties only.
    answered,       \* items answered for in the last reconciliation
    writes,         \* guarded writes so far
    settled,        \* a reconciliation completed since the last emergency
    slept           \* sleeps since reconnect_with_backoff was called

callVars == <<pc, n, retrying, attempt, delay, slept>>
vars == <<health, age, callVars, controller, answered, writes, settled>>

Health == [write_locked: BOOLEAN, reconciled: BOOLEAN,
           connected: BOOLEAN, stale: BOOLEAN]

Init ==
    /\ health = [write_locked |-> TRUE, reconciled |-> FALSE,
                 connected |-> FALSE, stale |-> FALSE]
    /\ age = "never"
    /\ pc = "idle"
    /\ n = 1
    /\ retrying = FALSE
    /\ attempt = 1
    /\ delay = InitialBackoff
    /\ slept = <<>>
    /\ controller = InitialController
    /\ answered = {}
    /\ writes = 0
    /\ settled = TRUE

-----------------------------------------------------------------------------

\* Mutant: the flag that unlocks is left as it was.
LockedHalf(connected, stale) ==
    [health EXCEPT !.reconciled = FALSE, !.connected = connected,
                   !.stale = stale]

\* _lock
Locked(connected, stale) ==
    [write_locked |-> TRUE, reconciled |-> FALSE,
     connected |-> connected, stale |-> stale]

\* The decision of require_reconciled_for_writes.
Allowed ==
    /\ age # "never"
    /\ health.connected
    /\ ~health.stale
    /\ health.reconciled
    /\ ~health.write_locked

\* The call in progress ends.
Return ==
    /\ pc' = "idle"
    /\ n' = 1
    /\ retrying' = FALSE
    /\ attempt' = 1
    /\ delay' = InitialBackoff
    /\ slept' = <<>>

Attempts == IF MaxAttempts > 1 THEN MaxAttempts ELSE 1

-----------------------------------------------------------------------------
(* check_connection_health *)

HealthIsStale ==
    /\ pc = "idle"
    /\ age = "old"
    /\ health' = Locked(TRUE, TRUE)
    /\ answered' = {}
    /\ UNCHANGED <<age, callVars, controller, writes, settled>>

Heartbeat ==
    /\ pc = "idle"
    /\ age # "old"
    /\ pc' = "heartbeat"
    /\ UNCHANGED <<health, age, n, retrying, attempt, delay, slept, controller,
                   answered, writes, settled>>

\* Mutant: an answer is enough to unlock.
HeartbeatUnlocks ==
    /\ pc = "heartbeat"
    /\ health' = [health EXCEPT !.connected = TRUE, !.reconciled = TRUE,
                                !.write_locked = FALSE]
    /\ Return
    /\ UNCHANGED <<age, controller, answered, writes, settled>>

HeartbeatAnswered ==
    /\ pc = "heartbeat"
    /\ health' = [health EXCEPT !.connected = TRUE,
                                !.write_locked = ~health.reconciled]
    /\ Return
    /\ UNCHANGED <<age, controller, answered, writes, settled>>

HeartbeatMissed ==
    /\ pc = "heartbeat"
    /\ health' = Locked(FALSE, FALSE)
    /\ answered' = {}
    /\ Return
    /\ UNCHANGED <<age, controller, writes, settled>>

-----------------------------------------------------------------------------
(* reconcile_after_reconnect, alone or inside reconnect_with_backoff *)

Reconcile(retry) ==
    /\ pc = "idle"
    /\ pc' = "reconcile"
    /\ n' = 1
    /\ retrying' = retry
    /\ answered' = {}
    /\ UNCHANGED <<health, age, attempt, delay, slept, controller, writes,
                   settled>>

ItemAnswered ==
    /\ pc = "reconcile"
    /\ n <= Len(Items)
    /\ answered' = answered \cup {Items[n]}
    /\ n' = n + 1
    /\ UNCHANGED <<health, age, pc, retrying, attempt, delay, slept,
                   controller, writes, settled>>

\* Everything answered, and the answer for the identity parses.
Reconciled ==
    /\ pc = "reconcile"
    /\ n > Len(Items)
    /\ TRUE \in RevisionParses
    /\ health' = [write_locked |-> FALSE, reconciled |-> TRUE,
                  connected |-> TRUE, stale |-> FALSE]
    /\ age' = "fresh"
    /\ settled' = TRUE
    /\ Return
    /\ UNCHANGED <<controller, answered, writes>>

\* A revision that is not a number: int() raises, outside the try, and the
\* exception leaves every flag as it was.
IdentityRaises ==
    /\ pc = "reconcile"
    /\ n > Len(Items)
    /\ FALSE \in RevisionParses
    /\ Return
    /\ UNCHANGED <<health, age, controller, answered, writes, settled>>

\* Mutant: one attempt too many.
ItemMissedOneMore ==
    /\ pc = "reconcile"
    /\ n <= Len(Items)
    /\ health' = Locked(FALSE, FALSE)
    /\ answered' = {}
    /\ IF retrying /\ attempt <= Attempts
       THEN pc' = "backoff" /\ UNCHANGED <<n, retrying, attempt, delay, slept>>
       ELSE Return
    /\ UNCHANGED <<age, controller, writes, settled>>

\* The first request that raises ends the attempt; after the last attempt
\* reconnect_with_backoff locks once more.
ItemMissed ==
    /\ pc = "reconcile"
    /\ n <= Len(Items)
    /\ health' = Locked(FALSE, FALSE)
    /\ answered' = {}
    /\ IF retrying /\ attempt < Attempts
       THEN pc' = "backoff" /\ UNCHANGED <<n, retrying, attempt, delay, slept>>
       ELSE Return
    /\ UNCHANGED <<age, controller, writes, settled>>

\* Mutants: the attempt is not counted; the delay is doubled past its limit.
BackoffUncounted ==
    /\ pc = "backoff"
    /\ pc' = "reconcile"
    /\ n' = 1
    /\ delay' = IF 2 * delay < MaxBackoff THEN 2 * delay ELSE MaxBackoff
    /\ slept' = <<delay>>
    /\ UNCHANGED <<retrying, attempt, health, age, controller, answered,
                   writes, settled>>
BackoffUnlimited ==
    /\ pc = "backoff"
    /\ pc' = "reconcile"
    /\ n' = 1
    /\ attempt' = attempt + 1
    /\ delay' = 2 * delay
    /\ slept' = Append(slept, delay)
    /\ UNCHANGED <<retrying, health, age, controller, answered, writes,
                   settled>>

\* sleep(delay), and the next attempt.
BackoffOver ==
    /\ pc = "backoff"
    /\ pc' = "reconcile"
    /\ n' = 1
    /\ attempt' = attempt + 1
    /\ delay' = IF 2 * delay < MaxBackoff THEN 2 * delay ELSE MaxBackoff
    /\ slept' = Append(slept, delay)
    /\ UNCHANGED <<retrying, health, age, controller, answered, writes,
                   settled>>

-----------------------------------------------------------------------------
(* Writes and unlocking *)

RequestUnlock ==
    /\ pc = "idle"
    /\ health' = [health EXCEPT !.write_locked = ~Allowed]
    /\ UNCHANGED <<age, callVars, controller, answered, writes, settled>>

\* run_guarded_write, when it is let through.
GuardedWrite ==
    /\ pc = "idle"
    /\ Allowed
    /\ writes < MaxWrites
    /\ writes' = writes + 1
    /\ UNCHANGED <<health, age, callVars, controller, answered, settled>>

LockWrites ==
    /\ pc = "idle"
    /\ controller' = [controller EXCEPT !.write_locked = TRUE]
    /\ UNCHANGED <<health, age, callVars, answered, writes, settled>>

\* Mutants: the emergency is not asked about; the connection is not.
UnlockedInAnyMode(mode) ==
    [controller EXCEPT !.reconciliation_required = FALSE,
                       !.write_locked = ~Allowed]
UnlockedUnasked(mode) ==
    IF mode # "OBSERVE" \/ controller.runtime_mode # "OBSERVE"
    THEN [controller EXCEPT !.write_locked = TRUE]
    ELSE [controller EXCEPT !.reconciliation_required = FALSE,
                            !.write_locked = FALSE]

\* m32_unlock_writes and unlock_writes_after_reconciliation: refused outside
\* OBSERVE; refused once for a reconciliation_required that this very refusal
\* clears; then up to the connection.
Unlocked(mode) ==
    IF mode # "OBSERVE" \/ controller.runtime_mode # "OBSERVE"
    THEN [controller EXCEPT !.write_locked = TRUE]
    ELSE IF controller.reconciliation_required
    THEN [controller EXCEPT !.reconciliation_required = FALSE,
                            !.write_locked = TRUE]
    ELSE [controller EXCEPT !.write_locked = ~Allowed]

UnlockWrites(mode) ==
    /\ pc = "idle"
    /\ controller' = Unlocked(mode)
    /\ UNCHANGED <<health, age, callVars, answered, writes, settled>>

EnterEmergency ==
    /\ pc = "idle"
    /\ controller' = InEmergency
    /\ settled' = FALSE
    /\ UNCHANGED <<health, age, callVars, answered, writes>>

ExitEmergencyToObserve ==
    /\ pc = "idle"
    /\ controller' = BackInObserve
    /\ UNCHANGED <<health, age, callVars, answered, writes, settled>>

-----------------------------------------------------------------------------

\* freshness_seconds pass since the last reconciliation.
GrowOld ==
    /\ age = "fresh"
    /\ age' = "old"
    /\ UNCHANGED <<health, callVars, controller, answered, writes, settled>>

Running ==
    \/ HeartbeatAnswered \/ HeartbeatMissed
    \/ ItemAnswered \/ Reconciled \/ IdentityRaises \/ ItemMissed
    \/ BackoffOver

Call ==
    \/ HealthIsStale \/ Heartbeat
    \/ \E retry \in BOOLEAN : Reconcile(retry)
    \/ RequestUnlock \/ GuardedWrite \/ LockWrites
    \/ \E mode \in CallerModes : UnlockWrites(mode)
    \/ EnterEmergency \/ ExitEmergencyToObserve

Next == Running \/ Call \/ GrowOld

Spec == Init /\ [][Next]_vars

\* A started call runs on: every request ends at the socket's timeout, and
\* every sleep ends.
FairSpec == Spec /\ WF_vars(Running)

-----------------------------------------------------------------------------
(* Properties. *)

Asked == {Items[i] : i \in DOMAIN Items}

\* Every variable stays in its set; the attempt never passes max_attempts and
\* the item asked for never passes the end of the list.
TypeOK ==
    /\ health \in Health
    /\ age \in {"never", "fresh", "old"}
    /\ pc \in {"idle", "heartbeat", "reconcile", "backoff"}
    /\ n \in 1..(Len(Items) + 1)
    /\ retrying \in BOOLEAN
    /\ attempt \in 1..Attempts
    /\ delay \in Nat
    /\ slept \in Seq(Nat)
    /\ controller \in Controllers
    /\ answered \subseteq Asked
    /\ writes \in 0..MaxWrites
    /\ settled \in BOOLEAN

\* The connection is unlocked exactly while it is reconciled, and then it is
\* connected, not known to be stale, and was reconciled at some time: the five
\* flags never disagree, whatever order the checks, attempts and unlock
\* requests come in.
UnlockedMeansReconciled ==
    /\ ~health.write_locked <=> health.reconciled
    /\ health.reconciled =>
           health.connected /\ ~health.stale /\ age # "never"

\* The connection implements the gate: it lets writes through only after the
\* console answered for every item of one reconciliation, and never between a
\* missed request, or a check that found it stale, and the next such one.
Gate == INSTANCE WriteGate WITH Items <- Asked, open <- Allowed
GateSpec == Gate!Spec

\* The emergency lock is off only in OBSERVE, outside an emergency and with no
\* reconciliation asked for: no order of locking, unlocking, entering and
\* leaving an emergency separates the lock from the mode.
UnlockedOutsideEmergency ==
    ~controller.write_locked =>
        /\ controller.runtime_mode = "OBSERVE"
        /\ ~controller.emergency_active
        /\ ~controller.automation_stopped
        /\ ~controller.reconciliation_required

\* The emergency lock comes off only when the console has answered for every
\* item and nothing has been missed or found stale since.
UnlocksAfterAnswers ==
    [][controller.write_locked /\ ~controller'.write_locked =>
           answered = Asked]_vars

\* Reconnecting sleeps only between two attempts, never longer than the limit
\* except for a first sleep the caller chose longer, and twice as long as the
\* time before until the limit cuts it.
BackoffBounded ==
    /\ Len(slept) < Attempts
    /\ \A i \in DOMAIN slept : slept[i] <= MaxBackoff \/ i = 1
    /\ \A i \in 2..Len(slept) :
           slept[i] = MaxBackoff \/ slept[i] = 2 * slept[i - 1]

\* Every check, reconciliation and reconnection returns, however long the
\* console stays silent.
CallsReturn == pc # "idle" ~> pc = "idle"

-----------------------------------------------------------------------------
(* The inductive invariant behind them.                                     *)

\* The answers of the reconciliation in progress, and the whole of them behind
\* an unlocked connection at rest.
AnswersCounted ==
    /\ pc = "reconcile" => answered = {Items[i] : i \in 1..(n - 1)}
    /\ pc \in {"idle", "heartbeat"} /\ ~health.write_locked =>
           answered = Asked
    /\ pc = "backoff" => health.write_locked /\ answered = {}

\* One sleep between two attempts, and the delay that follows the last one.
SleepsCounted ==
    /\ pc = "backoff" => attempt < Attempts
    /\ Len(slept) = attempt - 1
    /\ slept # <<>> =>
           \/ delay = MaxBackoff
           \/ delay <= MaxBackoff /\ delay = 2 * slept[Len(slept)]

ObserveIsCalm ==
    controller.runtime_mode = "OBSERVE" =>
        ~controller.emergency_active /\ ~controller.automation_stopped

CInv ==
    /\ TypeOK
    /\ ObserveIsCalm
    /\ UnlockedMeansReconciled
    /\ UnlockedOutsideEmergency
    /\ AnswersCounted
    /\ SleepsCounted
    /\ BackoffBounded

-----------------------------------------------------------------------------
(* What the repository's documents say and the code does not do.           *)

\* spec.md FR-054: after an emergency, a reconciliation comes before any write
\* can be enabled.  The one made before the emergency is enough for the code.
EmergencyEndsInReconciliation ==
    [][controller.write_locked /\ ~controller'.write_locked => settled]_vars
=============================================================================
