------------------------- MODULE ProposalExecution -------------------------
(***************************************************************************)
(* The write path of the bridge: proposals are stored, approved by the     *)
(* host, executed against the console over UDP, read back, audited, and    *)
(* possibly rolled back.                                                   *)
(*                                                                         *)
(*   core/proposals.py     the store and the life of a proposal            *)
(*   core/conflicts.py     the read of every path before the first write   *)
(*   core/executor.py      the transaction                                 *)
(*   core/readback.py      the comparison after each write                 *)
(*   core/rollback.py      the restoring of the stored "before" values     *)
(*   mcp/write_tools.py    the tools through which all of it is called     *)
(*                                                                         *)
(* The bridge handles one tool call at a time.  Execution and rollback     *)
(* are cut where they talk to the network: between two such points the     *)
(* console, the operator at its surface, the datagrams in flight and the   *)
(* clock are free to move.                                                 *)
(***************************************************************************)
EXTENDS Integers, Sequences, EmergencyController

CONSTANTS
    Proposals,      \* identifiers of the proposals that may be created
    Paths,          \* console paths
    ActionOf,       \* the semantic action whose allowlist a path is in
    Values,         \* levels, in quarters of a decibel
    NoValue,        \* what an unsupported path holds
    Plans,          \* operation lists a host may propose
    InitialValue,   \* the console's values when the bridge starts
    Nobody,         \* no proposal: the bridge is between two calls
    HostModes,      \* the runtime modes hosts pass with their calls
    DiskOutcomes,   \* whether an append to the audit file may fail
    MaxManual,      \* bound: changes made by hand at the console
    MaxRollbacks    \* bound: rollback calls

Operations == [path: Paths, before: Values, requested: Values]

ASSUME ConstantsAssumption ==
    /\ ActionOf \in [Paths -> Actions]
    /\ Values \subseteq Int
    /\ NoValue \notin Values
    /\ Plans \subseteq Seq(Operations)
    /\ InitialValue \in [Paths -> Values \cup {NoValue}]
    /\ Nobody \notin Proposals
    /\ HostModes \subseteq Modes
    /\ DiskOutcomes \in {{TRUE}, {TRUE, FALSE}}
    /\ MaxManual \in Nat
    /\ MaxRollbacks \in Nat

\* TERMINAL_STATUSES
Terminal == {"EXPIRED", "CONFLICTED", "POLICY_DENIED", "READBACK_FAILED",
             "ROLLED_BACK", "ROLLBACK_FAILED", "CANCELLED_BY_EMERGENCY",
             "USED"}
Statuses == {"absent", "PENDING_APPROVAL", "EXPIRED", "CONFLICTED",
             "POLICY_DENIED", "READBACK_FAILED", "ROLLED_BACK",
             "ROLLBACK_FAILED", "CANCELLED_BY_EMERGENCY", "USED"}

AuditResults == {"denied", "failed", "verified", "rolled_back"}

\* The base of a proposal that was never created; base_revisions.get(path, -1).
NoBaseline == -1

VARIABLES
    \* The console and the network.
    value,       \* path -> value
    revision,    \* the console's one revision counter
    inflight,    \* write datagrams sent and not yet delivered or lost
    manuals,     \* changes made by hand so far
    \* The proposal store and the clock.
    status,      \* proposal -> status, "absent" when never created
    plan,        \* proposal -> its operations
    base,        \* proposal -> the revision its snapshot was taken at
    expired,     \* proposals whose expires_at has passed
    \* The tool call in progress.
    pc,          \* where it is
    cur,         \* the proposal it works on
    mode,        \* the runtime_mode its caller passed
    k,           \* the operation it is at, from 1
    clash,       \* detect_conflicts has found a conflict
    restored,    \* operations of this rollback whose readback matched
    rollbacks,   \* rollback calls so far
    \* The emergency controller and the audit file.
    controller,
    audit,       \* proposal -> results of the records written for it
    \* History, read by the properties only.
    written,     \* proposal -> operations its execution sent, in order
    matched,     \* proposal -> operations whose readback matched
    manualRev,   \* path -> revision of its last change by hand
    readRev,     \* path -> the revision the current call has seen it at: where
                 \* its conflict read found it, until then where the call began
    stood        \* proposals stored when an emergency was entered

consoleVars == <<value, revision, inflight, manuals, manualRev>>
storeVars   == <<status, plan, base, expired>>
callVars    == <<pc, cur, mode, k, clash, restored, rollbacks, readRev>>
traceVars   == <<written, matched, stood>>
vars == <<consoleVars, storeVars, callVars, traceVars, controller, audit>>

Datagrams == [origin: {"execute", "rollback"}, proposal: Proposals,
              index: Nat \ {0}, call: Nat, path: Paths, value: Values]

PCs == {"idle", "conflicts", "policy", "write", "readback",
        "rb_write", "rb_readback"}

Init ==
    /\ value = InitialValue
    /\ revision = 1
    /\ inflight = {}
    /\ manuals = 0
    /\ manualRev = [path \in Paths |-> 0]
    /\ status = [p \in Proposals |-> "absent"]
    /\ plan = [p \in Proposals |-> <<>>]
    /\ base = [p \in Proposals |-> NoBaseline]
    /\ expired = {}
    /\ pc = "idle"
    /\ cur = Nobody
    /\ mode = "OBSERVE"
    /\ k = 1
    /\ clash = FALSE
    /\ restored = {}
    /\ rollbacks = 0
    /\ readRev = [path \in Paths |-> 0]
    /\ controller = InitialController
    /\ audit = [p \in Proposals |-> {}]
    /\ written = [p \in Proposals |-> <<>>]
    /\ matched = [p \in Proposals |-> {}]
    /\ stood = {}

-----------------------------------------------------------------------------
(* Operators shared by the calls. *)

Stored(p) == status[p] # "absent"

\* ProposalStore.get: looking at a proposal whose time has passed marks it.
Fetched(p) == IF Stored(p) /\ p \in expired THEN "EXPIRED" ELSE status[p]

\* _append_audit: a record for p, or an OSError that escapes the call.
Record(p, result) ==
    \E written_out \in DiskOutcomes :
        audit' = IF written_out THEN [audit EXCEPT ![p] = @ \cup {result}]
                                ELSE audit

\* The call returns, or an exception leaves it.
Return ==
    /\ pc' = "idle"
    /\ cur' = Nobody
    /\ mode' = "OBSERVE"
    /\ k' = 1
    /\ clash' = FALSE
    /\ restored' = {}
    /\ readRev' = [path \in Paths |-> 0]
    /\ UNCHANGED rollbacks

\* The call for p starts at its first network step.
Enter(step, p, m) ==
    /\ pc' = step
    /\ cur' = p
    /\ mode' = m
    /\ k' = 1
    /\ readRev' = [path \in Paths |-> revision]
    /\ UNCHANGED <<clash, restored>>

Stay == UNCHANGED <<cur, mode, restored, rollbacks, readRev>>

Op == plan[cur][k]
More == k <= Len(plan[cur])

Send(origin, level) ==
    inflight' = inflight \cup
        {[origin |-> origin, proposal |-> cur, index |-> k,
          call |-> IF origin = "execute" THEN 0 ELSE rollbacks,
          path |-> Op.path, value |-> level]}

\* _deny, for an execution of p that has not started to write.
Deny(p, s) ==
    /\ status' = [status EXCEPT ![p] = s]
    /\ Record(p, "denied")
    /\ Return
    /\ UNCHANGED <<consoleVars, plan, base, expired, traceVars, controller>>

-----------------------------------------------------------------------------
(* Creating and looking at proposals. *)

\* m32_propose_changes: every operation passes build_operation, or nothing is
\* stored.  The host says which revision its snapshot had.
Propose(p, ops, m, b) ==
    /\ pc = "idle"
    /\ ~Stored(p)
    /\ \A i \in DOMAIN ops :
           OperationAllowed(ActionOf[ops[i].path], ops[i].before,
                            ops[i].requested, m)
    /\ status' = [status EXCEPT ![p] = "PENDING_APPROVAL"]
    /\ plan' = [plan EXCEPT ![p] = ops]
    /\ base' = [base EXCEPT ![p] = b]
    /\ UNCHANGED <<consoleVars, expired, callVars, traceVars, controller,
                   audit>>

\* m32_verify_proposal, a read-only tool, goes through ProposalStore.get.
Verify(p) ==
    /\ pc = "idle"
    /\ Stored(p)
    /\ status' = [status EXCEPT ![p] = Fetched(p)]
    /\ UNCHANGED <<consoleVars, plan, base, expired, callVars, traceVars,
                   controller, audit>>

\* Five minutes pass since p was created.
TimePasses(p) ==
    /\ Stored(p)
    /\ expired' = expired \cup {p}
    /\ UNCHANGED <<consoleVars, status, plan, base, callVars, traceVars,
                   controller, audit>>

-----------------------------------------------------------------------------
(* Executing a proposal. *)

\* execute_proposal returns early: the host has not confirmed the call or would
\* always allow it, the proposal is unknown or terminal, or the digest or the
\* number of operations is not the stored one.  All that remains is what get
\* did, and the record.
ExecuteDenied(p) ==
    /\ pc = "idle"
    /\ Deny(p, Fetched(p))

\* A confirmed call in EMERGENCY mode cancels whatever proposal it finds.
ExecuteInEmergencyMode(p) ==
    /\ pc = "idle"
    /\ Deny(p, IF Stored(p) THEN "CANCELLED_BY_EMERGENCY" ELSE status[p])

\* Mutant: the status is not looked at.
ExecuteStartAnyStatus(p, m) ==
    /\ pc = "idle"
    /\ m # "EMERGENCY"
    /\ Stored(p)
    /\ Enter("conflicts", p, m)
    /\ UNCHANGED <<consoleVars, storeVars, rollbacks, traceVars, controller,
                   audit>>

\* A confirmed call with the right digest and count: detect_conflicts begins.
ExecuteStart(p, m) ==
    /\ pc = "idle"
    /\ m # "EMERGENCY"
    /\ Stored(p)
    /\ Fetched(p) \notin Terminal
    /\ Enter("conflicts", p, m)
    /\ UNCHANGED <<consoleVars, storeVars, rollbacks, traceVars, controller,
                   audit>>

\* Mutant: a console ahead of the baseline is taken for a fresh one.
MovedBack(path, b) == value[path] # NoValue /\ revision < b

\* What a read tells detect_conflicts.  A supported path answers with its value
\* and the revision; an unsupported one with one argument, which is skipped.
Moved(path, b) == value[path] # NoValue /\ revision # b

ReadForConflict ==
    /\ pc = "conflicts"
    /\ More
    /\ clash' = (clash \/ Moved(Op.path, base[cur]))
    /\ k' = k + 1
    /\ pc' = pc
    /\ readRev' = [readRev EXCEPT ![Op.path] = revision]
    /\ UNCHANGED <<cur, mode, restored, rollbacks>>
    /\ UNCHANGED <<consoleVars, storeVars, traceVars, controller, audit>>

\* A read times out or its reply does not parse: nothing catches it.
ConflictReadFails ==
    /\ pc = "conflicts"
    /\ More
    /\ Return
    /\ UNCHANGED <<consoleVars, storeVars, traceVars, controller, audit>>

ConflictsFound ==
    /\ pc = "conflicts"
    /\ ~More
    /\ clash
    /\ Deny(cur, "CONFLICTED")

NoConflicts ==
    /\ pc = "conflicts"
    /\ ~More
    /\ ~clash
    /\ pc' = "policy"
    /\ k' = 1
    /\ Stay
    /\ UNCHANGED <<clash, consoleVars, storeVars, traceVars, controller,
                   audit>>

\* The policy is asked again, in the mode of this call.
PlanAllowed(ops, m) ==
    \A i \in DOMAIN ops :
        OperationAllowed(ActionOf[ops[i].path], ops[i].before,
                         ops[i].requested, m)

PolicyDenies ==
    /\ pc = "policy"
    /\ ~PlanAllowed(plan[cur], mode)
    /\ Deny(cur, "POLICY_DENIED")

PolicyPasses ==
    /\ pc = "policy"
    /\ PlanAllowed(plan[cur], mode)
    /\ pc' = "write"
    /\ Stay
    /\ UNCHANGED <<k, clash, consoleVars, storeVars, traceVars, controller,
                   audit>>

\* write_operation: one datagram, unacknowledged.
WriteOperation ==
    /\ pc = "write"
    /\ More
    /\ Send("execute", Op.requested)
    /\ written' = [written EXCEPT ![cur] = Append(@, k)]
    /\ pc' = "readback"
    /\ Stay
    /\ UNCHANGED <<k, clash, value, revision, manuals, manualRev, storeVars,
                   matched, stood, controller, audit>>

\* verify_readback compares what the console holds now.
ReadbackMatches ==
    /\ pc = "readback"
    /\ value[Op.path] = Op.requested
    /\ matched' = [matched EXCEPT ![cur] = @ \cup {k}]
    /\ k' = k + 1
    /\ pc' = "write"
    /\ Stay
    /\ UNCHANGED <<clash, consoleVars, storeVars, written, stood, controller,
                   audit>>

\* Mutant: the transaction goes on after a readback that differs.
ReadbackDiffersGoesOn ==
    /\ pc = "readback"
    /\ value[Op.path] # Op.requested
    /\ k' = k + 1
    /\ pc' = "write"
    /\ Stay
    /\ UNCHANGED <<clash, consoleVars, storeVars, traceVars, controller,
                   audit>>

\* Mutant: the failed transaction leaves no record.
FailTransactionUnrecorded ==
    /\ status' = [status EXCEPT ![cur] = "READBACK_FAILED"]
    /\ Return
    /\ UNCHANGED <<consoleVars, plan, base, expired, traceVars, controller,
                   audit>>

\* The transaction stops at its first failed operation.
FailTransaction ==
    /\ status' = [status EXCEPT ![cur] = "READBACK_FAILED"]
    /\ Record(cur, "failed")
    /\ Return
    /\ UNCHANGED <<consoleVars, plan, base, expired, traceVars, controller>>

ReadbackDiffers ==
    /\ pc = "readback"
    /\ value[Op.path] # Op.requested
    /\ FailTransaction

\* Mutant: nothing catches the exception.
OperationRaisesUncaught ==
    /\ \/ pc = "write" /\ More
       \/ pc = "readback"
    /\ Return
    /\ UNCHANGED <<consoleVars, storeVars, traceVars, controller, audit>>

\* The send or the readback raises.
OperationRaises ==
    /\ \/ pc = "write" /\ More
       \/ pc = "readback"
    /\ FailTransaction

\* Mutant: the record first, and mark_used only once it is written.
FinishRecordFirst ==
    /\ pc = "write"
    /\ ~More
    /\ status[cur] \notin Terminal
    /\ \E written_out \in DiskOutcomes :
           /\ audit' = IF written_out
                       THEN [audit EXCEPT ![cur] = @ \cup {"verified"}]
                       ELSE audit
           /\ status' = IF written_out THEN [status EXCEPT ![cur] = "USED"]
                                      ELSE status
    /\ Return
    /\ UNCHANGED <<consoleVars, plan, base, expired, traceVars, controller>>

\* mark_used, then the record.
Finish ==
    /\ pc = "write"
    /\ ~More
    /\ status[cur] \notin Terminal
    /\ status' = [status EXCEPT ![cur] = "USED"]
    /\ Record(cur, "verified")
    /\ Return
    /\ UNCHANGED <<consoleVars, plan, base, expired, traceVars, controller>>

-----------------------------------------------------------------------------
(* Rolling a proposal back. *)

\* rollback_proposal in EMERGENCY mode, or of a proposal that is not there.
RollbackDenied(p) ==
    /\ pc = "idle"
    /\ Record(p, "denied")
    /\ UNCHANGED <<consoleVars, storeVars, callVars, traceVars, controller>>

\* The stored candidates equal the operations' values from the moment the
\* proposal is built, so the comparison with them always succeeds.
RollbackStart(p, m) ==
    /\ pc = "idle"
    /\ m # "EMERGENCY"
    /\ Stored(p)
    /\ rollbacks < MaxRollbacks
    /\ rollbacks' = rollbacks + 1
    /\ status' = [status EXCEPT ![p] = Fetched(p)]
    /\ Enter("rb_write", p, m)
    /\ UNCHANGED <<consoleVars, plan, base, expired, traceVars, controller,
                   audit>>

RollbackWrite ==
    /\ pc = "rb_write"
    /\ More
    /\ Send("rollback", Op.before)
    /\ pc' = "rb_readback"
    /\ Stay
    /\ UNCHANGED <<k, clash, value, revision, manuals, manualRev, storeVars,
                   traceVars, controller, audit>>

\* Mutant: a readback that differs is retried without end.
RollbackReadbackRetried ==
    /\ pc = "rb_readback"
    /\ restored' = IF value[Op.path] = Op.before
                   THEN restored \cup {k} ELSE restored
    /\ k' = IF value[Op.path] = Op.before THEN k + 1 ELSE k
    /\ pc' = "rb_write"
    /\ UNCHANGED <<cur, mode, clash, rollbacks, readRev, consoleVars,
                   storeVars, traceVars, controller, audit>>

\* The result is noted and the loop goes on, whatever it is.
RollbackReadback ==
    /\ pc = "rb_readback"
    /\ restored' = IF value[Op.path] = Op.before
                   THEN restored \cup {k} ELSE restored
    /\ k' = k + 1
    /\ pc' = "rb_write"
    /\ UNCHANGED <<cur, mode, clash, rollbacks, readRev, consoleVars,
                   storeVars, traceVars, controller, audit>>

\* The send or the readback raises: nothing catches it.
RollbackRaises ==
    /\ \/ pc = "rb_write" /\ More
       \/ pc = "rb_readback"
    /\ Return
    /\ UNCHANGED <<consoleVars, storeVars, traceVars, controller, audit>>

\* m32_rollback_proposal fetches the proposal again for its record.
RollbackDone ==
    /\ pc = "rb_write"
    /\ ~More
    /\ status' = [status EXCEPT ![cur] = Fetched(cur)]
    /\ Record(cur, "rolled_back")
    /\ Return
    /\ UNCHANGED <<consoleVars, plan, base, expired, traceVars, controller>>

-----------------------------------------------------------------------------
(* The emergency switch. *)

\* Mutants: a status outside TERMINAL_STATUSES; nothing is cancelled.
CancelledMisspelt(s) == IF s = "PENDING_APPROVAL" THEN "CANCELLED" ELSE s
CancelledNothing(s) == s

\* cancel_pending_by_emergency
Cancelled(s) == IF s = "PENDING_APPROVAL" THEN "CANCELLED_BY_EMERGENCY" ELSE s

EnterEmergency ==
    /\ pc = "idle"
    /\ status' = [p \in Proposals |-> Cancelled(status[p])]
    /\ controller' = InEmergency
    /\ stood' = {p \in Proposals : Stored(p)}
    /\ UNCHANGED <<consoleVars, plan, base, expired, callVars, written,
                   matched, audit>>

ExitEmergencyToObserve ==
    /\ pc = "idle"
    /\ controller' = BackInObserve
    /\ UNCHANGED <<consoleVars, storeVars, callVars, traceVars, audit>>

-----------------------------------------------------------------------------
(* The console, its operator and the network. *)

\* _handle on a write datagram: applied when the path exists, else ignored.
Deliver(d) ==
    /\ inflight' = inflight \ {d}
    /\ IF value[d.path] # NoValue
       THEN /\ value' = [value EXCEPT ![d.path] = d.value]
            /\ revision' = revision + 1
       ELSE UNCHANGED <<value, revision>>
    /\ UNCHANGED <<manuals, manualRev, storeVars, callVars, traceVars,
                   controller, audit>>

Lose(d) ==
    /\ inflight' = inflight \ {d}
    /\ UNCHANGED <<value, revision, manuals, manualRev, storeVars, callVars,
                   traceVars, controller, audit>>

\* set_value: somebody moves a control at the console.
ManualChange(path, v) ==
    /\ manuals < MaxManual
    /\ manuals' = manuals + 1
    /\ value' = [value EXCEPT ![path] = v]
    /\ revision' = revision + 1
    /\ manualRev' = [manualRev EXCEPT ![path] = revision + 1]
    /\ UNCHANGED <<inflight, storeVars, callVars, traceVars, controller,
                   audit>>

-----------------------------------------------------------------------------

ExecutionStep ==
    \/ ReadForConflict \/ ConflictReadFails \/ ConflictsFound \/ NoConflicts
    \/ PolicyDenies \/ PolicyPasses
    \/ WriteOperation \/ ReadbackMatches \/ ReadbackDiffers
    \/ OperationRaises \/ Finish

RollbackStep ==
    \/ RollbackWrite \/ RollbackReadback \/ RollbackRaises \/ RollbackDone

\* The calls a host and an operator make.
Call ==
    \/ \E p \in Proposals, m \in HostModes :
           \/ \E ops \in Plans, b \in 1..revision : Propose(p, ops, m, b)
           \/ ExecuteStart(p, m)
           \/ RollbackStart(p, m)
    \/ \E p \in Proposals :
           \/ Verify(p)
           \/ ExecuteDenied(p)
           \/ ExecuteInEmergencyMode(p)
           \/ RollbackDenied(p)
    \/ EnterEmergency
    \/ ExitEmergencyToObserve

Environment ==
    \/ \E p \in Proposals : TimePasses(p)
    \/ \E d \in inflight : Deliver(d) \/ Lose(d)
    \/ \E path \in Paths, v \in Values : ManualChange(path, v)

Next == Call \/ ExecutionStep \/ RollbackStep \/ Environment

Spec == Init /\ [][Next]_vars

\* A started call runs on: it holds the only thread of the bridge, and every
\* network operation in it ends at the socket's timeout (osc/transport.py).
FairSpec == Spec /\ WF_vars(ExecutionStep \/ RollbackStep)

-----------------------------------------------------------------------------
(* Properties. *)

ConsoleTypeOK ==
    /\ value \in [Paths -> Values \cup {NoValue}]
    /\ revision \in Nat
    /\ inflight \subseteq Datagrams
    /\ manuals \in 0..MaxManual
    /\ manualRev \in [Paths -> Nat]

StoreTypeOK ==
    /\ status \in [Proposals -> Statuses]
    /\ plan \in [Proposals -> Seq(Operations)]
    /\ base \in [Proposals -> Int]
    /\ expired \subseteq Proposals

CallTypeOK ==
    /\ pc \in PCs
    /\ cur \in Proposals \cup {Nobody}
    /\ pc # "idle" <=> cur # Nobody
    /\ mode \in Modes
    /\ k \in Nat \ {0}
    /\ clash \in BOOLEAN
    /\ restored \subseteq Nat
    /\ rollbacks \in 0..MaxRollbacks
    /\ readRev \in [Paths -> Nat]

RecordTypeOK ==
    /\ controller \in Controllers
    /\ audit \in [Proposals -> SUBSET AuditResults]
    /\ written \in [Proposals -> Seq(Nat)]
    /\ matched \in [Proposals -> SUBSET Nat]
    /\ stood \subseteq Proposals

\* Every variable stays in its set: no status is outside the ones the code
\* knows, and a call is on exactly while it has a proposal to work on.
TypeOK == ConsoleTypeOK /\ StoreTypeOK /\ CallTypeOK /\ RecordTypeOK

\* Across all calls ever made for a proposal, its execution sends its
\* operations in order, none twice and none after one whose readback did not
\* match: a proposal is executed once, and stops where it fails.
WritesOnceInOrder ==
    \A p \in Proposals :
        /\ Len(written[p]) <= Len(plan[p])
        /\ \A i \in 1..Len(written[p]) :
               /\ written[p][i] = i
               /\ i < Len(written[p]) => i \in matched[p]

\* A record "verified", and the status USED, mean that every operation was
\* sent and read back with its requested value; a transaction never has both
\* a "verified" and a "failed" record, however often it is asked for.
VerifiedMeansReadBack ==
    \A p \in Proposals :
        status[p] = "USED" \/ "verified" \in audit[p] =>
            /\ matched[p] = 1..Len(plan[p])
            /\ Len(written[p]) = Len(plan[p])
            /\ "failed" \notin audit[p]

\* Between calls, every proposal whose execution has sent anything has a
\* record of how the transaction ended.
ExecutionAudited ==
    \A p \in Proposals :
        pc = "idle" /\ written[p] # <<>> =>
            audit[p] \cap {"verified", "failed"} # {}

\* Between calls, a proposal whose execution has sent anything is closed, even
\* when the audit file could not be appended to.
WriterIsClosed ==
    \A p \in Proposals :
        pc = "idle" /\ written[p] # <<>> => status[p] \in Terminal

\* A change made by hand after the snapshot of a proposal keeps the call that
\* executes it from writing anything: a change before the call, or in it before
\* the call reads the path. What is changed after that read is overwritten.
ManualChangeBlocksWrite ==
    [][\A p \in Proposals :
          written'[p] # written[p] =>
              \A i \in DOMAIN plan[p] :
                  \/ manualRev[plan[p][i].path] <= base[p]
                  \/ manualRev[plan[p][i].path] > readRev[plan[p][i].path]]_vars

\* No proposal stored when an emergency was entered is executed after it, in
\* the emergency or after its end.
EmergencyClosesWhatStood ==
    [][\A p \in stood : written'[p] = written[p]]_vars

\* A transaction that has sent a write comes to an end: its proposal is
\* closed, and a record of how it ended is written.
WrittenSettles ==
    \A p \in Proposals :
        written[p] # <<>> ~>
            /\ status[p] \in Terminal
            /\ audit[p] \cap {"verified", "failed"} # {}

\* Every call returns.
CallsReturn == pc # "idle" ~> pc = "idle"

Outcomes == {"verified", "failed"}

InTransaction(p) == cur = p /\ pc \in {"write", "readback"}

\* The detailed transaction seen as OneShotTransaction's: a proposal is running
\* while its operations are written and read back.
TransactionState(p) ==
    IF status[p] = "absent" THEN "absent"
    ELSE IF InTransaction(p) THEN "running"
    ELSE IF status[p] = "PENDING_APPROVAL" THEN "open"
    ELSE "closed"

OneShot == INSTANCE OneShotTransaction WITH
    Changes   <- Proposals,
    Sizes     <- {Len(ops) : ops \in Plans},
    state     <- [p \in Proposals |-> TransactionState(p)],
    size      <- [p \in Proposals |-> Len(plan[p])],
    sent      <- [p \in Proposals |-> Len(written[p])],
    confirmed <- matched,
    claims    <- [p \in Proposals |-> audit[p] \cap Outcomes]

\* Over all the calls ever made for it, expiries, emergencies, rollbacks, late
\* and lost datagrams and changes by hand between, a proposal goes through one
\* transaction at most: no call brings a closed one back, none starts inside
\* another's transaction, and none but the transaction sends its operations,
\* confirms them or records an outcome for it.
TransactionSpec == OneShot!Spec

-----------------------------------------------------------------------------
(* The inductive invariant behind WritesOnceInOrder, VerifiedMeansReadBack, *)
(* EmergencyClosesWhatStood and TransactionSpec.                            *)

Untouched(p) ==
    written[p] = <<>> /\ matched[p] = {} /\ audit[p] \cap Outcomes = {}

CallIsStored == pc # "idle" => status[cur] # "absent"

\* An execution works on a pending proposal from its start to its end.
ExecutesPending ==
    pc \in {"conflicts", "policy", "write", "readback"} =>
        status[cur] = "PENDING_APPROVAL"

\* An open proposal that is not being written has not been written before.
OpenIsUntouched ==
    \A p \in Proposals :
        /\ status[p] \in {"absent", "PENDING_APPROVAL"}
        /\ ~InTransaction(p)
        => Untouched(p)

\* The policy is asked, and the writing started, from the first operation.
PolicyAtFirst == pc = "policy" => k = 1

\* How far the transaction has got.
TransactionProgress ==
    pc \in {"write", "readback"} =>
        /\ audit[cur] \cap Outcomes = {}
        /\ matched[cur] = 1..(k - 1)
        /\ Len(written[cur]) = IF pc = "write" THEN k - 1 ELSE k
        /\ Len(written[cur]) <= Len(plan[cur])

StoodIsClosed == \A p \in stood : status[p] \in Terminal

Safety ==
    /\ CallIsStored
    /\ ExecutesPending
    /\ OpenIsUntouched
    /\ PolicyAtFirst
    /\ TransactionProgress
    /\ StoodIsClosed
    /\ WritesOnceInOrder
    /\ VerifiedMeansReadBack

IInv == TypeOK /\ Safety

(* The part behind ManualChangeBlocksWrite. *)

\* The path was changed by hand after p's snapshot and before this call began,
\* or before its conflict read of the path.
Overtaken(p, path) ==
    manualRev[path] > base[p] /\ manualRev[path] <= readRev[path]

RevisionsOrdered ==
    /\ revision >= 1
    /\ \A path \in Paths :
           /\ readRev[path] <= revision
           /\ manualRev[path] <= revision
           /\ manualRev[path] > 0 => value[path] # NoValue

BasesTaken == \A p \in Proposals : Stored(p) => base[p] >= 1

\* What the conflict reads so far have seen of such changes.
OvertakenSeen ==
    /\ pc = "conflicts" /\ ~clash =>
           \A i \in DOMAIN plan[cur] :
               i < k => ~Overtaken(cur, plan[cur][i].path)
    /\ pc \in {"policy", "write", "readback"} =>
           \A i \in DOMAIN plan[cur] : ~Overtaken(cur, plan[cur][i].path)

ReadsInv == RevisionsOrdered /\ BasesTaken /\ OvertakenSeen

\* The part behind ExecutionAudited, for an audit file that never fails: what
\* has written and is not being written is recorded.
WritersRecorded ==
    \A p \in Proposals :
        written[p] # <<>> /\ ~InTransaction(p) => audit[p] \cap Outcomes # {}

-----------------------------------------------------------------------------
(* What the repository's documents say of this code and the code does not   *)
(* do, checked alone: TLC shows the behaviour that breaks it.               *)

\* spec.md FR-054: an emergency locks every write the assistant initiates.
\* The executor asks the mode its caller passes, never the controller.
NoWriteInEmergency ==
    [][controller.emergency_active => inflight' \subseteq inflight]_vars
=============================================================================
