---------------------- MODULE ProposalExecution_proofs ----------------------
(***************************************************************************)
(* Proofs about ProposalExecution, for any set of proposals, any console   *)
(* and any plans.                                                          *)
(***************************************************************************)
EXTENDS ProposalExecution, TLAPS

\* A record appended, or not, keeps the audit file's shape.
LEMMA RecordKeepsType ==
    ASSUME RecordTypeOK, NEW p \in Proposals, NEW r \in AuditResults,
           Record(p, r)
    PROVE  audit' \in [Proposals -> SUBSET AuditResults]
<1> PICK w \in DiskOutcomes :
        audit' = IF w THEN [audit EXCEPT ![p] = @ \cup {r}] ELSE audit
    BY DEF Record
<1> QED BY DEF RecordTypeOK

\* What get answers is a status.
LEMMA FetchedType ==
    ASSUME StoreTypeOK, NEW p \in Proposals
    PROVE  Fetched(p) \in Statuses
BY DEF StoreTypeOK, Fetched, Statuses

\* The current operation is one of the plan's.
LEMMA OpType ==
    ASSUME StoreTypeOK, CallTypeOK, pc # "idle", More
    PROVE  /\ cur \in Proposals
           /\ Op \in Operations
<1>1. cur \in Proposals
    BY DEF CallTypeOK
<1>2. plan[cur] \in Seq(Operations)
    BY <1>1 DEF StoreTypeOK
<1>3. k \in 1..Len(plan[cur])
    BY <1>2 DEF CallTypeOK, More
<1> QED BY <1>1, <1>2, <1>3 DEF Op

\* A call that returns leaves the call's variables at rest.
LEMMA ReturnKeepsType ==
    ASSUME CallTypeOK, Return
    PROVE  CallTypeOK'
<1>1. clash' \in BOOLEAN
    BY Zenon DEF Return
<1>2. (pc' # "idle" <=> cur' # Nobody) /\ cur' \in Proposals \cup {Nobody}
    BY DEF Return
<1>3. pc' \in PCs /\ mode' \in Modes
    BY DEF Return, PCs, Modes
<1>4. k' \in Nat \ {0} /\ restored' \subseteq Nat /\ readRev' \in [Paths -> Nat]
    BY DEF Return
<1>5. rollbacks' \in 0..MaxRollbacks
    BY DEF Return, CallTypeOK
<1> QED BY <1>1, <1>2, <1>3, <1>4, <1>5 DEF CallTypeOK

\* A denied execution keeps every variable in its set.
LEMMA DenyKeepsType ==
    ASSUME TypeOK, NEW p \in Proposals, NEW s \in Statuses, Deny(p, s)
    PROVE  TypeOK'
<1> USE DEF TypeOK, Deny
<1>1. ConsoleTypeOK'
    BY DEF ConsoleTypeOK, consoleVars
<1>2. StoreTypeOK'
    BY DEF StoreTypeOK
<1>3. CallTypeOK'
    BY ReturnKeepsType
<1>4. audit' \in [Proposals -> SUBSET AuditResults]
    BY RecordKeepsType DEF AuditResults
<1>5. RecordTypeOK'
    BY <1>4 DEF RecordTypeOK, traceVars
<1> QED BY <1>1, <1>2, <1>3, <1>5

\* A group of variables that does not change stays in its sets.
LEMMA UnchangedKeepsType ==
    ASSUME TypeOK
    PROVE  /\ UNCHANGED consoleVars => ConsoleTypeOK'
           /\ UNCHANGED storeVars => StoreTypeOK'
           /\ UNCHANGED callVars => CallTypeOK'
           /\ UNCHANGED <<traceVars, controller, audit>> => RecordTypeOK'
<1>1. UNCHANGED consoleVars => ConsoleTypeOK'
    BY DEF TypeOK, ConsoleTypeOK, consoleVars
<1>2. UNCHANGED storeVars => StoreTypeOK'
    BY DEF TypeOK, StoreTypeOK, storeVars
<1>3. UNCHANGED callVars => CallTypeOK'
    BY DEF TypeOK, CallTypeOK, callVars
<1>4. UNCHANGED <<traceVars, controller, audit>> => RecordTypeOK'
    BY DEF TypeOK, RecordTypeOK, traceVars
<1> QED BY <1>1, <1>2, <1>3, <1>4

\* A call that starts for p.
LEMMA EnterKeepsType ==
    ASSUME TypeOK, NEW step \in PCs \ {"idle"}, NEW p \in Proposals,
           NEW m \in Modes, Enter(step, p, m),
           rollbacks' \in 0..MaxRollbacks
    PROVE  CallTypeOK'
<1>1. clash' \in BOOLEAN /\ restored' \subseteq Nat
    BY DEF Enter, TypeOK, CallTypeOK
<1>2. (pc' # "idle" <=> cur' # Nobody) /\ cur' \in Proposals \cup {Nobody}
    BY ConstantsAssumption DEF Enter
<1>3. pc' \in PCs /\ mode' \in Modes /\ k' \in Nat \ {0}
    BY DEF Enter
<1>4. readRev' \in [Paths -> Nat]
    BY DEF Enter, TypeOK, ConsoleTypeOK
<1> QED BY <1>1, <1>2, <1>3, <1>4 DEF CallTypeOK

\* A call that goes on to another step of its own.
LEMMA StayKeepsType ==
    ASSUME TypeOK, Stay, pc # "idle", pc' \in PCs \ {"idle"},
           k' \in Nat \ {0}, clash' \in BOOLEAN
    PROVE  CallTypeOK'
BY DEF TypeOK, CallTypeOK, Stay

\* A datagram sent for the current operation is a datagram.
LEMMA SendKeepsType ==
    ASSUME TypeOK, pc # "idle", More, NEW origin \in {"execute", "rollback"},
           NEW level \in Values, Send(origin, level),
           UNCHANGED <<value, revision, manuals, manualRev>>
    PROVE  ConsoleTypeOK'
<1>1. cur \in Proposals /\ Op \in Operations
    BY OpType DEF TypeOK
<1>2. Op.path \in Paths
    BY <1>1 DEF Operations
<1>3. k \in Nat \ {0} /\ rollbacks \in Nat
    BY DEF TypeOK, CallTypeOK
<1> DEFINE d == [origin |-> origin, proposal |-> cur, index |-> k,
                 call |-> IF origin = "execute" THEN 0 ELSE rollbacks,
                 path |-> Op.path, value |-> level]
<1>4. d \in Datagrams
    BY <1>1, <1>2, <1>3 DEF Datagrams
<1>5. inflight' = inflight \cup {d}
    BY DEF Send
<1> QED BY <1>4, <1>5 DEF TypeOK, ConsoleTypeOK

LEMMA InitType == Init => TypeOK
<1> SUFFICES ASSUME Init PROVE TypeOK
    OBVIOUS
<1> USE ConstantsAssumption DEF Init
<1>1. ConsoleTypeOK
    BY DEF ConsoleTypeOK
<1>2. StoreTypeOK
    BY DEF StoreTypeOK, Statuses, NoBaseline
<1>3. CallTypeOK
    <2>1. clash \in BOOLEAN
        BY Zenon
    <2> QED BY <2>1 DEF CallTypeOK, PCs, Modes
<1>4. RecordTypeOK
    BY DEF RecordTypeOK, InitialController, Controllers, Modes
<1> QED BY <1>1, <1>2, <1>3, <1>4 DEF TypeOK

LEMMA CallKeepsType ==
    ASSUME TypeOK, Call
    PROVE  TypeOK'
<1> USE UnchangedKeepsType
<1>1. ASSUME NEW p \in Proposals, NEW m \in HostModes, NEW ops \in Plans,
             NEW b \in 1..revision, Propose(p, ops, m, b)
      PROVE  TypeOK'
    <2>1. ops \in Seq(Operations) /\ b \in Int
        BY ConstantsAssumption
    <2>2. StoreTypeOK'
        BY <1>1, <2>1 DEF Propose, TypeOK, StoreTypeOK, Statuses
    <2> QED BY <1>1, <2>2 DEF Propose, TypeOK
<1>2. ASSUME NEW p \in Proposals, NEW m \in HostModes, ExecuteStart(p, m)
      PROVE  TypeOK'
    <2>1. CallTypeOK'
        BY <1>2, EnterKeepsType, ConstantsAssumption
        DEF ExecuteStart, PCs, TypeOK, CallTypeOK
    <2> QED BY <1>2, <2>1 DEF ExecuteStart, TypeOK
<1>3. ASSUME NEW p \in Proposals, NEW m \in HostModes, RollbackStart(p, m)
      PROVE  TypeOK'
    <2>1. rollbacks' \in 0..MaxRollbacks
        BY <1>3, ConstantsAssumption DEF RollbackStart, TypeOK, CallTypeOK
    <2>2. CallTypeOK'
        BY <1>3, <2>1, EnterKeepsType, ConstantsAssumption
        DEF RollbackStart, PCs
    <2>3. StoreTypeOK'
        BY <1>3, FetchedType DEF RollbackStart, TypeOK, StoreTypeOK
    <2> QED BY <1>3, <2>2, <2>3 DEF RollbackStart, TypeOK
<1>4. ASSUME NEW p \in Proposals, Verify(p)
      PROVE  TypeOK'
    <2>1. StoreTypeOK'
        BY <1>4, FetchedType DEF Verify, TypeOK, StoreTypeOK
    <2> QED BY <1>4, <2>1 DEF Verify, TypeOK
<1>5. ASSUME NEW p \in Proposals, ExecuteDenied(p)
      PROVE  TypeOK'
    BY <1>5, FetchedType, DenyKeepsType DEF ExecuteDenied, TypeOK
<1>6. ASSUME NEW p \in Proposals, ExecuteInEmergencyMode(p)
      PROVE  TypeOK'
    <2>1. (IF Stored(p) THEN "CANCELLED_BY_EMERGENCY" ELSE status[p])
              \in Statuses
        BY DEF TypeOK, StoreTypeOK, Statuses
    <2> QED BY <1>6, <2>1, DenyKeepsType DEF ExecuteInEmergencyMode
<1>7. ASSUME NEW p \in Proposals, RollbackDenied(p)
      PROVE  TypeOK'
    <2>1. audit' \in [Proposals -> SUBSET AuditResults]
        BY <1>7, RecordKeepsType DEF RollbackDenied, TypeOK, AuditResults
    <2>2. RecordTypeOK'
        BY <1>7, <2>1 DEF RollbackDenied, TypeOK, RecordTypeOK, traceVars
    <2> QED BY <1>7, <2>2 DEF RollbackDenied, TypeOK
<1>8. CASE EnterEmergency
    <2>1. \A p \in Proposals : Cancelled(status[p]) \in Statuses
        BY DEF Cancelled, TypeOK, StoreTypeOK, Statuses
    <2>2. StoreTypeOK'
        BY <1>8, <2>1 DEF EnterEmergency, TypeOK, StoreTypeOK
    <2>3. RecordTypeOK'
        BY <1>8 DEF EnterEmergency, TypeOK, RecordTypeOK, InEmergency,
                    Controllers, Modes
    <2> QED BY <1>8, <2>2, <2>3 DEF EnterEmergency, TypeOK
<1>9. CASE ExitEmergencyToObserve
    <2>1. RecordTypeOK'
        BY <1>9 DEF ExitEmergencyToObserve, TypeOK, RecordTypeOK, traceVars,
                    BackInObserve, InitialController, Controllers, Modes
    <2> QED BY <1>9, <2>1 DEF ExitEmergencyToObserve, TypeOK
<1> QED BY <1>1, <1>2, <1>3, <1>4, <1>5, <1>6, <1>7, <1>8, <1>9 DEF Call

\* A step of a call that only moves the call on.
LEMMA MoveKeepsType ==
    ASSUME TypeOK, Stay, pc # "idle", pc' \in PCs \ {"idle"},
           k' \in Nat \ {0}, clash' \in BOOLEAN,
           UNCHANGED <<consoleVars, storeVars, traceVars, controller, audit>>
    PROVE  TypeOK'
<1>1. ConsoleTypeOK' /\ StoreTypeOK' /\ RecordTypeOK'
    BY UnchangedKeepsType
<1>2. CallTypeOK'
    BY StayKeepsType
<1> QED BY <1>1, <1>2 DEF TypeOK

\* The failing of a transaction.
LEMMA FailKeepsType ==
    ASSUME TypeOK, pc # "idle", FailTransaction
    PROVE  TypeOK'
<1>1. cur \in Proposals
    BY DEF TypeOK, CallTypeOK
<1>2. StoreTypeOK'
    BY <1>1 DEF FailTransaction, TypeOK, StoreTypeOK, Statuses
<1>3. audit' \in [Proposals -> SUBSET AuditResults]
    BY <1>1, RecordKeepsType DEF FailTransaction, TypeOK, AuditResults
<1>4. RecordTypeOK'
    BY <1>3 DEF FailTransaction, TypeOK, RecordTypeOK, traceVars
<1>5. ConsoleTypeOK' /\ CallTypeOK'
    BY UnchangedKeepsType, ReturnKeepsType DEF FailTransaction, TypeOK
<1> QED BY <1>2, <1>4, <1>5 DEF TypeOK

LEMMA ExecutionKeepsType ==
    ASSUME TypeOK, ExecutionStep
    PROVE  TypeOK'
<1>0. k + 1 \in Nat \ {0} /\ k \in Nat \ {0} /\ clash \in BOOLEAN
    BY DEF TypeOK, CallTypeOK
<1>1. CASE ReadForConflict
    <2>1. clash' \in BOOLEAN
        BY <1>1, Zenon DEF ReadForConflict, Moved
    <2>2. pc # "idle" /\ pc' \in PCs /\ pc' # "idle" /\ k' = k + 1
        BY <1>1 DEF ReadForConflict, PCs
    <2>3. readRev' \in [Paths -> Nat]
        BY <1>1 DEF ReadForConflict, TypeOK, ConsoleTypeOK, CallTypeOK
    <2>4. CallTypeOK'
        BY <1>0, <1>1, <2>1, <2>2, <2>3
        DEF ReadForConflict, TypeOK, CallTypeOK
    <2>5. ConsoleTypeOK' /\ StoreTypeOK' /\ RecordTypeOK'
        BY <1>1, UnchangedKeepsType DEF ReadForConflict
    <2> QED BY <2>4, <2>5 DEF TypeOK
<1>2. CASE ConflictReadFails
    BY <1>2, UnchangedKeepsType, ReturnKeepsType DEF ConflictReadFails, TypeOK
<1>3. CASE ConflictsFound
    <2>1. cur \in Proposals
        BY <1>3 DEF ConflictsFound, TypeOK, CallTypeOK
    <2> QED BY <1>3, <2>1, DenyKeepsType DEF ConflictsFound, Statuses
<1>4. CASE NoConflicts
    <2>1. pc # "idle" /\ pc' \in PCs \ {"idle"} /\ k' = 1 /\ clash' = clash
        BY <1>4 DEF NoConflicts, PCs
    <2> QED BY <1>0, <1>4, <2>1, MoveKeepsType DEF NoConflicts
<1>5. CASE PolicyDenies
    <2>1. cur \in Proposals
        BY <1>5 DEF PolicyDenies, TypeOK, CallTypeOK
    <2> QED BY <1>5, <2>1, DenyKeepsType DEF PolicyDenies, Statuses
<1>6. CASE PolicyPasses
    <2>1. pc # "idle" /\ pc' \in PCs \ {"idle"} /\ k' = k /\ clash' = clash
        BY <1>6 DEF PolicyPasses, PCs
    <2> QED BY <1>0, <1>6, <2>1, MoveKeepsType DEF PolicyPasses
<1>7. CASE WriteOperation
    <2>1. pc # "idle" /\ pc' \in PCs \ {"idle"} /\ k' = k /\ clash' = clash
        BY <1>7 DEF WriteOperation, PCs
    <2>2. cur \in Proposals /\ Op.requested \in Values
        BY <1>7, <2>1, OpType DEF WriteOperation, TypeOK, Operations
    <2>3. ConsoleTypeOK'
        BY <1>7, <2>1, <2>2, SendKeepsType DEF WriteOperation
    <2>4. CallTypeOK'
        BY <1>0, <1>7, <2>1, StayKeepsType DEF WriteOperation
    <2>5. Append(written[cur], k) \in Seq(Nat)
        BY <2>2 DEF TypeOK, CallTypeOK, RecordTypeOK
    <2>6. RecordTypeOK'
        BY <1>7, <2>5 DEF WriteOperation, TypeOK, RecordTypeOK
    <2>7. StoreTypeOK'
        BY <1>7, UnchangedKeepsType DEF WriteOperation
    <2> QED BY <2>3, <2>4, <2>6, <2>7 DEF TypeOK
<1>8. CASE ReadbackMatches
    <2>1. pc # "idle" /\ pc' \in PCs \ {"idle"} /\ k' = k + 1 /\ clash' = clash
        BY <1>8 DEF ReadbackMatches, PCs
    <2>2. CallTypeOK'
        BY <1>0, <1>8, <2>1, StayKeepsType DEF ReadbackMatches
    <2>3. RecordTypeOK'
        BY <1>8 DEF ReadbackMatches, TypeOK, CallTypeOK, RecordTypeOK
    <2>4. ConsoleTypeOK' /\ StoreTypeOK'
        BY <1>8, UnchangedKeepsType DEF ReadbackMatches
    <2> QED BY <2>2, <2>3, <2>4 DEF TypeOK
<1>9. CASE ReadbackDiffers
    BY <1>9, FailKeepsType DEF ReadbackDiffers
<1>10. CASE OperationRaises
    BY <1>10, FailKeepsType DEF OperationRaises
<1>11. CASE Finish
    <2>1. cur \in Proposals
        BY <1>11 DEF Finish, TypeOK, CallTypeOK
    <2>2. StoreTypeOK'
        BY <1>11, <2>1 DEF Finish, TypeOK, StoreTypeOK, Statuses
    <2>3. audit' \in [Proposals -> SUBSET AuditResults]
        BY <1>11, <2>1, RecordKeepsType DEF Finish, TypeOK, AuditResults
    <2>4. RecordTypeOK'
        BY <1>11, <2>3 DEF Finish, TypeOK, RecordTypeOK, traceVars
    <2>5. ConsoleTypeOK' /\ CallTypeOK'
        BY <1>11, UnchangedKeepsType, ReturnKeepsType DEF Finish, TypeOK
    <2> QED BY <2>2, <2>4, <2>5 DEF TypeOK
<1> QED BY <1>1, <1>2, <1>3, <1>4, <1>5, <1>6, <1>7, <1>8, <1>9, <1>10, <1>11
        DEF ExecutionStep

LEMMA RollbackKeepsType ==
    ASSUME TypeOK, RollbackStep
    PROVE  TypeOK'
<1>0. k + 1 \in Nat \ {0} /\ k \in Nat \ {0} /\ clash \in BOOLEAN
    BY DEF TypeOK, CallTypeOK
<1>1. CASE RollbackWrite
    <2>1. pc # "idle" /\ pc' \in PCs \ {"idle"} /\ k' = k /\ clash' = clash
        BY <1>1 DEF RollbackWrite, PCs
    <2>2. cur \in Proposals /\ Op.before \in Values
        BY <1>1, <2>1, OpType DEF RollbackWrite, TypeOK, Operations
    <2>3. ConsoleTypeOK'
        BY <1>1, <2>1, <2>2, SendKeepsType DEF RollbackWrite
    <2>4. CallTypeOK'
        BY <1>0, <1>1, <2>1, StayKeepsType DEF RollbackWrite
    <2>5. StoreTypeOK' /\ RecordTypeOK'
        BY <1>1, UnchangedKeepsType DEF RollbackWrite
    <2> QED BY <2>3, <2>4, <2>5 DEF TypeOK
<1>2. CASE RollbackReadback
    <2>1. pc # "idle" /\ pc' \in PCs \ {"idle"} /\ k' = k + 1 /\ clash' = clash
        BY <1>2 DEF RollbackReadback, PCs
    <2>2. restored' \subseteq Nat
        BY <1>2 DEF RollbackReadback, TypeOK, CallTypeOK
    <2>3. CallTypeOK'
        BY <1>0, <1>2, <2>1, <2>2 DEF RollbackReadback, TypeOK, CallTypeOK
    <2>4. ConsoleTypeOK' /\ StoreTypeOK' /\ RecordTypeOK'
        BY <1>2, UnchangedKeepsType DEF RollbackReadback
    <2> QED BY <2>3, <2>4 DEF TypeOK
<1>3. CASE RollbackRaises
    BY <1>3, UnchangedKeepsType, ReturnKeepsType DEF RollbackRaises, TypeOK
<1>4. CASE RollbackDone
    <2>1. cur \in Proposals
        BY <1>4 DEF RollbackDone, TypeOK, CallTypeOK
    <2>2. StoreTypeOK'
        BY <1>4, <2>1, FetchedType DEF RollbackDone, TypeOK, StoreTypeOK
    <2>3. audit' \in [Proposals -> SUBSET AuditResults]
        BY <1>4, <2>1, RecordKeepsType DEF RollbackDone, TypeOK, AuditResults
    <2>4. RecordTypeOK'
        BY <1>4, <2>3 DEF RollbackDone, TypeOK, RecordTypeOK, traceVars
    <2>5. ConsoleTypeOK' /\ CallTypeOK'
        BY <1>4, UnchangedKeepsType, ReturnKeepsType DEF RollbackDone, TypeOK
    <2> QED BY <2>2, <2>4, <2>5 DEF TypeOK
<1> QED BY <1>1, <1>2, <1>3, <1>4 DEF RollbackStep

LEMMA EnvironmentKeepsType ==
    ASSUME TypeOK, Environment
    PROVE  TypeOK'
<1> USE UnchangedKeepsType
<1>1. ASSUME NEW p \in Proposals, TimePasses(p)
      PROVE  TypeOK'
    <2>1. StoreTypeOK'
        BY <1>1 DEF TimePasses, TypeOK, StoreTypeOK
    <2> QED BY <1>1, <2>1 DEF TimePasses, TypeOK
<1>2. ASSUME NEW d \in inflight, Deliver(d)
      PROVE  TypeOK'
    <2>1. d.path \in Paths /\ d.value \in Values
        BY DEF TypeOK, ConsoleTypeOK, Datagrams
    <2>2. ConsoleTypeOK'
        BY <1>2, <2>1 DEF Deliver, TypeOK, ConsoleTypeOK
    <2> QED BY <1>2, <2>2 DEF Deliver, TypeOK
<1>3. ASSUME NEW d \in inflight, Lose(d)
      PROVE  TypeOK'
    <2>1. ConsoleTypeOK'
        BY <1>3 DEF Lose, TypeOK, ConsoleTypeOK
    <2> QED BY <1>3, <2>1 DEF Lose, TypeOK
<1>4. ASSUME NEW path \in Paths, NEW v \in Values, ManualChange(path, v)
      PROVE  TypeOK'
    <2>1. ConsoleTypeOK'
        BY <1>4, ConstantsAssumption
        DEF ManualChange, TypeOK, ConsoleTypeOK
    <2> QED BY <1>4, <2>1 DEF ManualChange, TypeOK
<1> QED BY <1>1, <1>2, <1>3, <1>4 DEF Environment

LEMMA StepKeepsType == TypeOK /\ [Next]_vars => TypeOK'
<1> SUFFICES ASSUME TypeOK, [Next]_vars PROVE TypeOK'
    OBVIOUS
<1>1. CASE UNCHANGED vars
    BY <1>1, UnchangedKeepsType DEF vars, TypeOK
<1> QED BY <1>1, CallKeepsType, ExecutionKeepsType, RollbackKeepsType,
           EnvironmentKeepsType DEF Next

\* Type correctness of the write path: whatever the order of tool calls,
\* manual changes, lost and late datagrams and expiries, every status is one
\* that the code knows and a call is on exactly while it has a proposal.
THEOREM TypeCorrect == Spec => []TypeOK
<1>1. Init => TypeOK
    BY InitType
<1>2. TypeOK /\ [Next]_vars => TypeOK'
    BY StepKeepsType
<1> QED BY <1>1, <1>2, PTL DEF Spec

-----------------------------------------------------------------------------
(* Safety.                                                                  *)

LEMMA InitSafety == Init => Safety
<1> SUFFICES ASSUME Init PROVE Safety
    OBVIOUS
<1> USE DEF Init
<1>1. CallIsStored /\ ExecutesPending /\ PolicyAtFirst /\ TransactionProgress
        /\ StoodIsClosed
    BY DEF CallIsStored, ExecutesPending, PolicyAtFirst, TransactionProgress,
           StoodIsClosed
<1>2. OpenIsUntouched
    BY DEF OpenIsUntouched, Untouched
<1>3. WritesOnceInOrder
    BY DEF WritesOnceInOrder
<1>4. VerifiedMeansReadBack
    BY DEF VerifiedMeansReadBack
<1> QED BY <1>1, <1>2, <1>3, <1>4 DEF Safety

\* The variables Safety speaks about.
safetyVars == <<status, plan, written, matched, audit, stood, pc, cur, k>>

LEMMA FrameKeepsSafety ==
    ASSUME Safety, UNCHANGED safetyVars
    PROVE  Safety'
<1> USE DEF Safety, safetyVars
<1>1. (CallIsStored /\ ExecutesPending /\ PolicyAtFirst
           /\ TransactionProgress /\ StoodIsClosed)'
    BY DEF CallIsStored, ExecutesPending, PolicyAtFirst, TransactionProgress,
           StoodIsClosed
<1>2. OpenIsUntouched'
    BY DEF OpenIsUntouched, Untouched, InTransaction
<1>3. WritesOnceInOrder'
    BY DEF WritesOnceInOrder
<1>4. VerifiedMeansReadBack'
    BY DEF VerifiedMeansReadBack
<1> QED BY <1>1, <1>2, <1>3, <1>4

\* What the record of a result adds to the audit file.
LEMMA RecordAdds ==
    ASSUME RecordTypeOK, NEW p \in Proposals, NEW r, Record(p, r)
    PROVE  /\ \A q \in Proposals \ {p} : audit'[q] = audit[q]
           /\ audit'[p] \in {audit[p], audit[p] \cup {r}}
<1> PICK w \in DiskOutcomes :
        audit' = IF w THEN [audit EXCEPT ![p] = @ \cup {r}] ELSE audit
    BY DEF Record
<1> QED BY DEF RecordTypeOK

\* get leaves a status alone or makes a stored proposal's EXPIRED.
LEMMA FetchedIs ==
    ASSUME NEW p
    PROVE  \/ Fetched(p) = status[p]
           \/ status[p] # "absent" /\ Fetched(p) = "EXPIRED"
BY DEF Fetched, Stored

\* Outside a transaction, a status that stays, or that closes a stored
\* proposal as anything but USED, keeps Safety; so does a record that is not
\* an outcome, and a call that comes to its end.
LEMMA ClosingKeepsSafety ==
    ASSUME IInv, NEW p \in Proposals, NEW s,
           ~(pc \in {"write", "readback"}),
           \/ s = status[p]
           \/ status[p] # "absent" /\ s \in Terminal \ {"USED"},
           status' = [status EXCEPT ![p] = s],
           \A q \in Proposals : audit'[q] \cap Outcomes = audit[q] \cap Outcomes,
           pc' = "idle",
           UNCHANGED <<plan, traceVars>>
    PROVE  Safety'
<1> USE DEF IInv, Safety, traceVars
<1>1. (CallIsStored /\ ExecutesPending /\ PolicyAtFirst
       /\ TransactionProgress)'
    BY DEF CallIsStored, ExecutesPending, PolicyAtFirst,
           TransactionProgress
<1>2. \A q \in Proposals : q # p => status'[q] = status[q]
    BY DEF TypeOK, StoreTypeOK
<1>3. status'[p] = s
    BY DEF TypeOK, StoreTypeOK
<1>4. StoodIsClosed'
    BY <1>2, <1>3 DEF StoodIsClosed, TypeOK, RecordTypeOK
<1>5. OpenIsUntouched'
    BY <1>2, <1>3 DEF OpenIsUntouched, Untouched, InTransaction, Terminal
<1>6. WritesOnceInOrder'
    BY DEF WritesOnceInOrder
<1>7. VerifiedMeansReadBack'
    <2> SUFFICES ASSUME NEW q \in Proposals,
                        status'[q] = "USED" \/ "verified" \in audit'[q]
                 PROVE  /\ matched[q] = 1..Len(plan[q])
                        /\ Len(written[q]) = Len(plan[q])
                        /\ "failed" \notin audit'[q]
        BY DEF VerifiedMeansReadBack
    <2>1. status[q] = "USED" \/ "verified" \in audit[q]
        BY <1>2, <1>3 DEF Outcomes
    <2> QED BY <2>1 DEF VerifiedMeansReadBack, Outcomes
<1> QED BY <1>1, <1>4, <1>5, <1>6, <1>7

\* A record other than an outcome leaves the outcomes alone.
LEMMA OtherRecord ==
    ASSUME TypeOK, NEW p \in Proposals, NEW r \in {"denied", "rolled_back"},
           Record(p, r)
    PROVE  \A q \in Proposals :
               audit'[q] \cap Outcomes = audit[q] \cap Outcomes
BY RecordAdds DEF TypeOK, Outcomes

LEMMA DenyKeepsSafety ==
    ASSUME IInv, NEW p \in Proposals, NEW s,
           ~(pc \in {"write", "readback"}),
           \/ s = status[p]
           \/ status[p] # "absent" /\ s \in Terminal \ {"USED"},
           Deny(p, s)
    PROVE  Safety'
<1>1. \A q \in Proposals : audit'[q] \cap Outcomes = audit[q] \cap Outcomes
    BY OtherRecord DEF Deny, IInv
<1> QED BY <1>1, ClosingKeepsSafety DEF Deny, Return

\* A call that starts changes no proposal beyond what get did to it.
LEMMA StartKeepsSafety ==
    ASSUME IInv, NEW p \in Proposals, Stored(p), pc = "idle",
           status' = [status EXCEPT ![p] = Fetched(p)],
           cur' = p, pc' \in {"conflicts", "rb_write"},
           pc' = "conflicts" => Fetched(p) \notin Terminal,
           UNCHANGED <<plan, traceVars, audit>>
    PROVE  Safety'
<1> USE DEF IInv, Safety, traceVars
<1>1. \A q \in Proposals : q # p => status'[q] = status[q]
    BY DEF TypeOK, StoreTypeOK
<1>2. /\ status'[p] = Fetched(p)
      /\ Fetched(p) \in {status[p], "EXPIRED"}
      /\ status[p] # "absent"
      /\ status[p] \in Statuses
    BY FetchedIs DEF TypeOK, StoreTypeOK, Stored
<1>3. StoodIsClosed'
    BY <1>1, <1>2 DEF StoodIsClosed, TypeOK, RecordTypeOK, Terminal
<1>4. CallIsStored' /\ PolicyAtFirst' /\ TransactionProgress'
    BY <1>2 DEF CallIsStored, PolicyAtFirst, TransactionProgress
<1>5. ExecutesPending'
    BY <1>2 DEF ExecutesPending, Terminal, Statuses
<1>6. OpenIsUntouched'
    BY <1>1, <1>2 DEF OpenIsUntouched, Untouched, InTransaction
<1>7. WritesOnceInOrder'
    BY DEF WritesOnceInOrder
<1>8. VerifiedMeansReadBack'
    BY <1>1, <1>2 DEF VerifiedMeansReadBack
<1> QED BY <1>3, <1>4, <1>5, <1>6, <1>7, <1>8

LEMMA CallKeepsSafety ==
    ASSUME IInv, Call
    PROVE  Safety'
<1>1. ASSUME NEW p \in Proposals, NEW m \in HostModes, NEW ops \in Plans,
             NEW b \in 1..revision, Propose(p, ops, m, b)
      PROVE  Safety'
    <2> USE <1>1 DEF Propose, IInv, Safety, traceVars, callVars, Stored
    <2>1. \A q \in Proposals :
              /\ q # p => status'[q] = status[q] /\ plan'[q] = plan[q]
              /\ q = p => status[q] = "absent"
                          /\ status'[q] = "PENDING_APPROVAL"
        BY DEF TypeOK, StoreTypeOK
    <2>2. Untouched(p)
        BY DEF OpenIsUntouched, InTransaction
    <2>3. (CallIsStored /\ ExecutesPending /\ PolicyAtFirst
           /\ TransactionProgress)'
        BY DEF CallIsStored, ExecutesPending, PolicyAtFirst,
               TransactionProgress
    <2>4. StoodIsClosed'
        BY <2>1 DEF StoodIsClosed, Terminal, TypeOK, RecordTypeOK
    <2>5. OpenIsUntouched'
        BY <2>1, <2>2 DEF OpenIsUntouched, Untouched, InTransaction
    <2>6. WritesOnceInOrder'
        <3> SUFFICES ASSUME NEW q \in Proposals
                     PROVE  /\ Len(written[q]) <= Len(plan'[q])
                            /\ \A i \in 1..Len(written[q]) :
                                   /\ written[q][i] = i
                                   /\ i < Len(written[q]) => i \in matched[q]
            BY DEF WritesOnceInOrder
        <3>1. CASE q # p
            BY <2>1, <3>1 DEF WritesOnceInOrder
        <3>2. CASE q = p
            <4>1. plan'[p] = ops /\ ops \in Seq(Operations)
                BY ConstantsAssumption DEF TypeOK, StoreTypeOK
            <4> QED BY <2>2, <3>2, <4>1 DEF Untouched
        <3> QED BY <3>1, <3>2
    <2>7. VerifiedMeansReadBack'
        BY <2>1, <2>2 DEF VerifiedMeansReadBack, Untouched, Outcomes
    <2> QED BY <2>3, <2>4, <2>5, <2>6, <2>7
<1>2. ASSUME NEW p \in Proposals, NEW m \in HostModes, ExecuteStart(p, m)
      PROVE  Safety'
    <2>1. Fetched(p) = status[p]
        BY <1>2, FetchedIs DEF ExecuteStart, Terminal
    <2>2. status' = [status EXCEPT ![p] = Fetched(p)]
        BY <1>2, <2>1
        DEF ExecuteStart, storeVars, IInv, TypeOK, StoreTypeOK
    <2> QED BY <1>2, <2>2, StartKeepsSafety DEF ExecuteStart, Enter, storeVars
<1>3. ASSUME NEW p \in Proposals, NEW m \in HostModes, RollbackStart(p, m)
      PROVE  Safety'
    BY <1>3, StartKeepsSafety DEF RollbackStart, Enter
<1>4. ASSUME NEW p \in Proposals, Verify(p)
      PROVE  Safety'
    <2>1. \/ Fetched(p) = status[p]
          \/ status[p] # "absent" /\ Fetched(p) \in Terminal \ {"USED"}
        BY FetchedIs DEF Terminal
    <2> QED BY <1>4, <2>1, ClosingKeepsSafety DEF Verify, callVars
<1>5. ASSUME NEW p \in Proposals, ExecuteDenied(p)
      PROVE  Safety'
    <2>1. \/ Fetched(p) = status[p]
          \/ status[p] # "absent" /\ Fetched(p) \in Terminal \ {"USED"}
        BY FetchedIs DEF Terminal
    <2> QED BY <1>5, <2>1, DenyKeepsSafety DEF ExecuteDenied
<1>6. ASSUME NEW p \in Proposals, ExecuteInEmergencyMode(p)
      PROVE  Safety'
    <2> DEFINE s == IF Stored(p) THEN "CANCELLED_BY_EMERGENCY" ELSE status[p]
    <2>1. \/ s = status[p]
          \/ status[p] # "absent" /\ s \in Terminal \ {"USED"}
        <3>1. CASE Stored(p)
            <4>1. s = "CANCELLED_BY_EMERGENCY"
                BY <3>1
            <4> QED BY <3>1, <4>1 DEF Stored, Terminal
        <3>2. CASE ~Stored(p)
            BY <3>2
        <3> QED BY <3>1, <3>2
    <2> QED BY <1>6, <2>1, DenyKeepsSafety DEF ExecuteInEmergencyMode
<1>7. ASSUME NEW p \in Proposals, RollbackDenied(p)
      PROVE  Safety'
    <2>1. \A q \in Proposals : audit'[q] \cap Outcomes = audit[q] \cap Outcomes
        BY <1>7, OtherRecord DEF RollbackDenied, IInv
    <2>2. status' = [status EXCEPT ![p] = status[p]]
        BY <1>7 DEF RollbackDenied, storeVars, IInv, TypeOK, StoreTypeOK
    <2> QED BY <1>7, <2>1, <2>2, ClosingKeepsSafety
            DEF RollbackDenied, storeVars, callVars
<1>8. CASE EnterEmergency
    <2> USE <1>8 DEF EnterEmergency, IInv, Safety, callVars
    <2>1. \A q \in Proposals :
              /\ status[q] \in Statuses
              /\ status'[q] = Cancelled(status[q])
        BY DEF TypeOK, StoreTypeOK
    <2>2. (CallIsStored /\ ExecutesPending /\ PolicyAtFirst
           /\ TransactionProgress)'
        BY DEF CallIsStored, ExecutesPending, PolicyAtFirst,
               TransactionProgress
    <2>3. StoodIsClosed'
        BY <2>1 DEF StoodIsClosed, Stored, Cancelled, Statuses, Terminal
    <2>4. OpenIsUntouched'
        BY <2>1 DEF OpenIsUntouched, Untouched, InTransaction, Cancelled
    <2>5. WritesOnceInOrder'
        BY DEF WritesOnceInOrder
    <2>6. VerifiedMeansReadBack'
        BY <2>1 DEF VerifiedMeansReadBack, Cancelled
    <2> QED BY <2>2, <2>3, <2>4, <2>5, <2>6
<1>9. CASE ExitEmergencyToObserve
    BY <1>9, FrameKeepsSafety
    DEF ExitEmergencyToObserve, IInv, safetyVars, storeVars, callVars, traceVars
<1> QED BY <1>1, <1>2, <1>3, <1>4, <1>5, <1>6, <1>7, <1>8, <1>9 DEF Call

\* A step of a call outside its transaction keeps Safety, whether the call goes
\* on or ends.
LEMMA OutsideKeepsSafety ==
    ASSUME IInv,
           ~(pc \in {"write", "readback"}), ~(pc' \in {"write", "readback"}),
           pc' \in {"conflicts", "policy"} =>
               pc \in {"conflicts", "policy"} /\ cur' = cur,
           pc' # "idle" => pc # "idle" /\ cur' = cur,
           pc' = "policy" => k' = 1,
           UNCHANGED <<status, plan, traceVars, audit>>
    PROVE  Safety'
<1> USE DEF IInv, Safety, traceVars
<1>1. (CallIsStored /\ ExecutesPending /\ PolicyAtFirst
           /\ TransactionProgress /\ StoodIsClosed)'
    BY DEF CallIsStored, ExecutesPending, PolicyAtFirst, TransactionProgress,
           StoodIsClosed
<1>2. OpenIsUntouched'
    BY DEF OpenIsUntouched, Untouched, InTransaction
<1>3. WritesOnceInOrder'
    BY DEF WritesOnceInOrder
<1>4. VerifiedMeansReadBack'
    BY DEF VerifiedMeansReadBack
<1> QED BY <1>1, <1>2, <1>3, <1>4

\* The end of a transaction: its proposal gets a terminal status and perhaps a
\* record of the outcome, "verified" and USED only when all is read back.
LEMMA EndKeepsSafety ==
    ASSUME IInv, pc \in {"write", "readback"},
           NEW r \in Outcomes, NEW s \in Terminal,
           r = "verified" \/ s = "USED" => r = "verified" /\ s = "USED"
                                            /\ pc = "write" /\ ~More,
           status' = [status EXCEPT ![cur] = s],
           Record(cur, r),
           pc' = "idle",
           UNCHANGED <<plan, traceVars>>
    PROVE  Safety'
<1> USE DEF IInv, Safety, traceVars
<1>1. cur \in Proposals
    BY DEF TypeOK, CallTypeOK
<1>2. \A q \in Proposals :
          q # cur => status'[q] = status[q] /\ audit'[q] = audit[q]
    BY <1>1, RecordAdds DEF TypeOK, StoreTypeOK
<1>3. status'[cur] = s /\ audit'[cur] \in {audit[cur], audit[cur] \cup {r}}
    BY <1>1, RecordAdds DEF TypeOK, StoreTypeOK
<1>4. (CallIsStored /\ ExecutesPending /\ PolicyAtFirst
       /\ TransactionProgress)'
    BY DEF CallIsStored, ExecutesPending, PolicyAtFirst,
           TransactionProgress
<1>5. StoodIsClosed'
    BY <1>2, <1>3 DEF StoodIsClosed, TypeOK, RecordTypeOK
<1>6. OpenIsUntouched'
    BY <1>2, <1>3 DEF OpenIsUntouched, Untouched, InTransaction, Terminal
<1>7. WritesOnceInOrder'
    BY DEF WritesOnceInOrder
<1>8. VerifiedMeansReadBack'
    <2> SUFFICES ASSUME NEW q \in Proposals,
                        status'[q] = "USED" \/ "verified" \in audit'[q]
                 PROVE  /\ matched[q] = 1..Len(plan[q])
                        /\ Len(written[q]) = Len(plan[q])
                        /\ "failed" \notin audit'[q]
        BY DEF VerifiedMeansReadBack
    <2>1. CASE q # cur
        BY <1>2, <2>1 DEF VerifiedMeansReadBack
    <2>2. CASE q = cur
        <3>1. audit[q] \cap Outcomes = {}
            BY <2>2 DEF TransactionProgress
        <3>2. r = "verified" /\ pc = "write" /\ ~More
            BY <1>3, <2>2, <3>1 DEF Outcomes
        <3>3. "failed" \notin audit'[q]
            BY <1>3, <2>2, <3>1, <3>2 DEF Outcomes
        <3>4. /\ matched[q] = 1..(k - 1)
              /\ Len(written[q]) = k - 1
              /\ k - 1 <= Len(plan[q])
            BY <2>2, <3>2 DEF TransactionProgress
        <3>5. k \in Nat /\ Len(plan[q]) \in Nat /\ ~(k <= Len(plan[q]))
            BY <1>1, <2>2, <3>2 DEF More, TypeOK, CallTypeOK, StoreTypeOK
        <3>6. k - 1 = Len(plan[q])
            BY <3>4, <3>5
        <3> QED BY <3>3, <3>4, <3>6
    <2> QED BY <2>1, <2>2
<1> QED BY <1>4, <1>5, <1>6, <1>7, <1>8

LEMMA ExecutionKeepsSafety ==
    ASSUME IInv, ExecutionStep
    PROVE  Safety'
<1>1. CASE ReadForConflict
    BY <1>1, OutsideKeepsSafety DEF ReadForConflict, Stay, storeVars
<1>2. CASE ConflictReadFails
    BY <1>2, OutsideKeepsSafety DEF ConflictReadFails, Return, storeVars
<1>3. CASE ConflictsFound
    <2>1. cur \in Proposals /\ status[cur] # "absent"
        BY <1>3 DEF ConflictsFound, IInv, TypeOK, CallTypeOK, Safety,
                    CallIsStored
    <2> QED BY <1>3, <2>1, DenyKeepsSafety DEF ConflictsFound, Terminal
<1>4. CASE NoConflicts
    BY <1>4, OutsideKeepsSafety DEF NoConflicts, Stay, storeVars
<1>5. CASE PolicyDenies
    <2>1. cur \in Proposals /\ status[cur] # "absent"
        BY <1>5 DEF PolicyDenies, IInv, TypeOK, CallTypeOK, Safety,
                    CallIsStored
    <2> QED BY <1>5, <2>1, DenyKeepsSafety DEF PolicyDenies, Terminal
<1>6. CASE PolicyPasses
    <2> USE <1>6 DEF PolicyPasses, Stay, storeVars, IInv, Safety, traceVars
    <2>1. cur \in Proposals /\ Untouched(cur)
        BY DEF TypeOK, CallTypeOK, ExecutesPending, OpenIsUntouched,
               InTransaction
    <2>2. TransactionProgress'
        <3>1. k' = 1 /\ pc' = "write" /\ cur' = cur
            BY DEF PolicyAtFirst
        <3>2. plan[cur] \in Seq(Operations)
            BY <2>1 DEF TypeOK, StoreTypeOK
        <3> QED BY <2>1, <3>1, <3>2 DEF TransactionProgress, Untouched
    <2>3. (CallIsStored /\ ExecutesPending /\ PolicyAtFirst
              /\ StoodIsClosed)'
        BY DEF CallIsStored, ExecutesPending, PolicyAtFirst, StoodIsClosed
    <2>4. OpenIsUntouched'
        BY DEF OpenIsUntouched, Untouched, InTransaction
    <2>5. WritesOnceInOrder' /\ VerifiedMeansReadBack'
        BY DEF WritesOnceInOrder, VerifiedMeansReadBack
    <2> QED BY <2>2, <2>3, <2>4, <2>5
<1>7. CASE WriteOperation
    <2> USE <1>7 DEF WriteOperation, Stay, storeVars, IInv, Safety
    <2>1. /\ cur \in Proposals
          /\ k \in Nat \ {0}
          /\ written[cur] \in Seq(Nat)
          /\ plan[cur] \in Seq(Operations)
          /\ k <= Len(plan[cur])
        BY DEF TypeOK, CallTypeOK, RecordTypeOK, StoreTypeOK, More
    <2>2. /\ \A q \in Proposals : q # cur => written'[q] = written[q]
          /\ written'[cur] = Append(written[cur], k)
        BY <2>1 DEF TypeOK, RecordTypeOK
    <2>3. /\ Len(written[cur]) = k - 1
          /\ matched[cur] = 1..(k - 1)
          /\ audit[cur] \cap Outcomes = {}
        BY DEF TransactionProgress
    <2>4. /\ Len(written'[cur]) = k
          /\ \A i \in 1..(k - 1) : written'[cur][i] = written[cur][i]
          /\ written'[cur][k] = k
        BY <2>1, <2>2, <2>3
    <2>5. TransactionProgress'
        BY <2>1, <2>3, <2>4 DEF TransactionProgress
    <2>6. (CallIsStored /\ ExecutesPending /\ PolicyAtFirst
              /\ StoodIsClosed)'
        BY DEF CallIsStored, ExecutesPending, PolicyAtFirst, StoodIsClosed
    <2>7. OpenIsUntouched'
        BY <2>2 DEF OpenIsUntouched, Untouched, InTransaction
    <2>8. WritesOnceInOrder'
        <3> SUFFICES ASSUME NEW q \in Proposals
                     PROVE  /\ Len(written'[q]) <= Len(plan[q])
                            /\ \A i \in 1..Len(written'[q]) :
                                   /\ written'[q][i] = i
                                   /\ i < Len(written'[q]) => i \in matched[q]
            BY DEF WritesOnceInOrder
        <3>1. CASE q # cur
            BY <2>2, <3>1 DEF WritesOnceInOrder
        <3>2. CASE q = cur
            <4>1. \A i \in 1..(k - 1) : written[cur][i] = i
                BY <2>1, <2>3 DEF WritesOnceInOrder
            <4>2. \A i \in 1..k : i \in 1..(k - 1) \/ i = k
                BY <2>1
            <4>3. \A i \in 1..k : written'[cur][i] = i
                BY <2>4, <4>1, <4>2
            <4>4. \A i \in 1..k : i < k => i \in matched[cur]
                BY <2>1, <2>3
            <4> QED BY <2>1, <2>4, <3>2, <4>3, <4>4
        <3> QED BY <3>1, <3>2
    <2>9. VerifiedMeansReadBack'
        <3>1. status[cur] # "USED" /\ "verified" \notin audit[cur]
            BY <2>3 DEF ExecutesPending, Outcomes
        <3> QED BY <2>2, <3>1 DEF VerifiedMeansReadBack
    <2> QED BY <2>5, <2>6, <2>7, <2>8, <2>9
<1>8. CASE ReadbackMatches
    <2> USE <1>8 DEF ReadbackMatches, Stay, storeVars, IInv, Safety
    <2>1. cur \in Proposals /\ k \in Nat \ {0}
        BY DEF TypeOK, CallTypeOK
    <2>2. /\ \A q \in Proposals : q # cur => matched'[q] = matched[q]
          /\ matched'[cur] = matched[cur] \cup {k}
        BY <2>1 DEF TypeOK, RecordTypeOK
    <2>3. /\ Len(written[cur]) = k
          /\ matched[cur] = 1..(k - 1)
          /\ audit[cur] \cap Outcomes = {}
          /\ k <= Len(plan[cur])
        BY DEF TransactionProgress
    <2>4. matched'[cur] = 1..k
        <3>1. 1..k = 1..(k - 1) \cup {k}
            BY <2>1
        <3> QED BY <2>2, <2>3, <3>1
    <2>5. TransactionProgress'
        <3>1. k' - 1 = k
            BY <2>1
        <3> QED BY <2>3, <2>4, <3>1 DEF TransactionProgress
    <2>6. (CallIsStored /\ ExecutesPending /\ PolicyAtFirst
              /\ StoodIsClosed)'
        BY DEF CallIsStored, ExecutesPending, PolicyAtFirst, StoodIsClosed
    <2>7. OpenIsUntouched'
        BY <2>2 DEF OpenIsUntouched, Untouched, InTransaction
    <2>8. WritesOnceInOrder'
        BY <2>2 DEF WritesOnceInOrder
    <2>9. VerifiedMeansReadBack'
        <3>1. status[cur] # "USED" /\ "verified" \notin audit[cur]
            BY <2>3 DEF ExecutesPending, Outcomes
        <3> QED BY <2>2, <3>1 DEF VerifiedMeansReadBack
    <2> QED BY <2>5, <2>6, <2>7, <2>8, <2>9
<1>9. CASE ReadbackDiffers
    BY <1>9, EndKeepsSafety
    DEF ReadbackDiffers, FailTransaction, Return, Terminal, Outcomes
<1>10. CASE OperationRaises
    BY <1>10, EndKeepsSafety
    DEF OperationRaises, FailTransaction, Return, Terminal, Outcomes
<1>11. CASE Finish
    BY <1>11, EndKeepsSafety DEF Finish, Return, Terminal, Outcomes
<1> QED BY <1>1, <1>2, <1>3, <1>4, <1>5, <1>6, <1>7, <1>8, <1>9, <1>10, <1>11
        DEF ExecutionStep

LEMMA RollbackKeepsSafety ==
    ASSUME IInv, RollbackStep
    PROVE  Safety'
<1>1. CASE RollbackWrite
    BY <1>1, OutsideKeepsSafety DEF RollbackWrite, Stay, storeVars
<1>2. CASE RollbackReadback
    BY <1>2, OutsideKeepsSafety DEF RollbackReadback, storeVars
<1>3. CASE RollbackRaises
    BY <1>3, OutsideKeepsSafety DEF RollbackRaises, Return, storeVars
<1>4. CASE RollbackDone
    <2>1. cur \in Proposals
        BY <1>4 DEF RollbackDone, IInv, TypeOK, CallTypeOK
    <2>2. \A q \in Proposals : audit'[q] \cap Outcomes = audit[q] \cap Outcomes
        BY <1>4, <2>1, OtherRecord DEF RollbackDone, IInv
    <2>3. \/ Fetched(cur) = status[cur]
          \/ status[cur] # "absent" /\ Fetched(cur) \in Terminal \ {"USED"}
        BY FetchedIs DEF Terminal
    <2> QED BY <1>4, <2>1, <2>2, <2>3, ClosingKeepsSafety
            DEF RollbackDone, Return
<1> QED BY <1>1, <1>2, <1>3, <1>4 DEF RollbackStep

LEMMA EnvironmentKeepsSafety ==
    ASSUME IInv, Environment
    PROVE  Safety'
<1>1. UNCHANGED safetyVars
    BY DEF Environment, TimePasses, Deliver, Lose, ManualChange, safetyVars,
           storeVars, callVars, traceVars
<1> QED BY <1>1, FrameKeepsSafety DEF IInv

LEMMA StepKeepsIInv == IInv /\ [Next]_vars => IInv'
<1> SUFFICES ASSUME IInv, [Next]_vars PROVE IInv'
    OBVIOUS
<1>1. TypeOK'
    BY StepKeepsType DEF IInv
<1>2. Safety'
    <2>1. CASE UNCHANGED vars
        BY <2>1, FrameKeepsSafety
        DEF vars, storeVars, callVars, traceVars, safetyVars, IInv
    <2> QED BY <2>1, CallKeepsSafety, ExecutionKeepsSafety,
               RollbackKeepsSafety, EnvironmentKeepsSafety DEF Next
<1> QED BY <1>1, <1>2 DEF IInv

LEMMA Inductive == Spec => []IInv
<1>1. Init => IInv
    BY InitType, InitSafety DEF IInv
<1> QED BY <1>1, StepKeepsIInv, PTL DEF Spec

\* One-shot execution: across all the calls ever made for it, a proposal's
\* operations are sent in order, none twice, and none after one whose readback
\* did not match.
THEOREM ExecutedOnce == Spec => []WritesOnceInOrder
<1>1. IInv => WritesOnceInOrder
    BY DEF IInv, Safety
<1> QED BY <1>1, Inductive, PTL

\* Honest reports: a "verified" record, or the status USED, stands only for a
\* transaction all of whose operations were sent and read back as requested.
THEOREM VerifiedIsReadBack == Spec => []VerifiedMeansReadBack
<1>1. IInv => VerifiedMeansReadBack
    BY DEF IInv, Safety
<1> QED BY <1>1, Inductive, PTL

\* No half-executed proposal is left open between calls, even when the audit
\* file cannot be appended to.
THEOREM WritersAreClosed == Spec => []WriterIsClosed
<1>1. IInv => WriterIsClosed
    BY DEF IInv, TypeOK, StoreTypeOK, Safety, OpenIsUntouched, InTransaction,
           Untouched, WriterIsClosed, Statuses, Terminal
<1> QED BY <1>1, Inductive, PTL

-----------------------------------------------------------------------------
(* What no step may do.                                                     *)

\* Only the transaction of a pending proposal sends its operations.
LEMMA WrittenBy ==
    ASSUME IInv, [Next]_vars, NEW p \in Proposals, written'[p] # written[p]
    PROVE  WriteOperation /\ cur = p
<1>1. CASE WriteOperation
    BY <1>1 DEF WriteOperation, IInv, TypeOK, RecordTypeOK
<1>2. CASE Call
    BY <1>2 DEF Call, Propose, ExecuteStart, RollbackStart, Verify,
                ExecuteDenied, ExecuteInEmergencyMode, RollbackDenied,
                EnterEmergency, ExitEmergencyToObserve, Deny, traceVars
<1>3. CASE ExecutionStep /\ ~WriteOperation
    BY <1>3 DEF ExecutionStep, ReadForConflict, ConflictReadFails,
                ConflictsFound, NoConflicts, PolicyDenies, PolicyPasses,
                ReadbackMatches, ReadbackDiffers, OperationRaises, Finish,
                FailTransaction, Deny, traceVars
<1>4. CASE RollbackStep
    BY <1>4 DEF RollbackStep, RollbackWrite, RollbackReadback, RollbackRaises,
                RollbackDone, traceVars
<1>5. CASE Environment
    BY <1>5 DEF Environment, TimePasses, Deliver, Lose, ManualChange, traceVars
<1>6. CASE UNCHANGED vars
    BY <1>6 DEF vars, traceVars
<1> QED BY <1>1, <1>2, <1>3, <1>4, <1>5, <1>6 DEF Next

\* A status that is given to one proposal: terminal if it was.
LEMMA GivenStatus ==
    ASSUME StoreTypeOK, NEW q \in Proposals, NEW s,
           s \in Terminal \/ s = status[q],
           status' = [status EXCEPT ![q] = s],
           NEW p \in Proposals, status[p] \in Terminal
    PROVE  status'[p] \in Terminal
BY DEF StoreTypeOK

\* No step opens a closed proposal again.
LEMMA StatusStaysTerminal ==
    ASSUME IInv, [Next]_vars, NEW p \in Proposals, status[p] \in Terminal
    PROVE  status'[p] \in Terminal
<1>0. StoreTypeOK /\ CallTypeOK
    BY DEF IInv, TypeOK
<1>a. \A q : Fetched(q) \in Terminal \/ Fetched(q) = status[q]
    BY FetchedIs DEF Terminal
<1>b. pc # "idle" => cur \in Proposals
    BY <1>0 DEF CallTypeOK
<1>1. CASE Call
    <2>1. ASSUME NEW q \in Proposals, NEW m \in HostModes, NEW ops \in Plans,
                 NEW b \in 1..revision, Propose(q, ops, m, b)
          PROVE  status'[p] \in Terminal
        BY <1>0, <2>1 DEF Propose, StoreTypeOK, Stored, Terminal
    <2>2. ASSUME NEW q \in Proposals, NEW m \in HostModes,
                 ExecuteStart(q, m) \/ RollbackStart(q, m)
          PROVE  status'[p] \in Terminal
        BY <1>0, <1>a, <2>2, GivenStatus
        DEF ExecuteStart, RollbackStart, storeVars
    <2>3. ASSUME NEW q \in Proposals, Verify(q) \/ ExecuteDenied(q)
          PROVE  status'[p] \in Terminal
        BY <1>0, <1>a, <2>3, GivenStatus DEF Verify, ExecuteDenied, Deny
    <2>4. ASSUME NEW q \in Proposals, ExecuteInEmergencyMode(q)
          PROVE  status'[p] \in Terminal
        <3> DEFINE s == IF Stored(q) THEN "CANCELLED_BY_EMERGENCY"
                        ELSE status[q]
        <3>1. s \in Terminal \/ s = status[q]
            BY DEF Terminal
        <3> QED BY <1>0, <2>4, <3>1, GivenStatus
                DEF ExecuteInEmergencyMode, Deny
    <2>5. ASSUME NEW q \in Proposals, RollbackDenied(q)
          PROVE  status'[p] \in Terminal
        BY <2>5 DEF RollbackDenied, storeVars
    <2>6. CASE EnterEmergency
        BY <2>6 DEF EnterEmergency, Cancelled, Terminal
    <2>7. CASE ExitEmergencyToObserve
        BY <2>7 DEF ExitEmergencyToObserve, storeVars
    <2> QED BY <1>1, <2>1, <2>2, <2>3, <2>4, <2>5, <2>6, <2>7 DEF Call
<1>2. CASE ExecutionStep
    <2>1. CASE ConflictsFound \/ PolicyDenies
        BY <1>0, <1>b, <2>1, GivenStatus
        DEF ConflictsFound, PolicyDenies, Deny, Terminal
    <2>2. CASE ReadbackDiffers \/ OperationRaises
        BY <1>0, <1>b, <2>2, GivenStatus
        DEF ReadbackDiffers, OperationRaises, FailTransaction, Terminal
    <2>3. CASE Finish
        BY <1>0, <1>b, <2>3, GivenStatus DEF Finish, Terminal
    <2>4. CASE \/ ReadForConflict \/ ConflictReadFails \/ NoConflicts
               \/ PolicyPasses \/ WriteOperation \/ ReadbackMatches
        BY <2>4 DEF ReadForConflict, ConflictReadFails, NoConflicts,
                    PolicyPasses, WriteOperation, ReadbackMatches, storeVars
    <2> QED BY <1>2, <2>1, <2>2, <2>3, <2>4 DEF ExecutionStep
<1>3. CASE RollbackStep
    <2>1. CASE RollbackDone
        BY <1>0, <1>a, <1>b, <2>1, GivenStatus DEF RollbackDone
    <2>2. CASE RollbackWrite \/ RollbackReadback \/ RollbackRaises
        BY <2>2 DEF RollbackWrite, RollbackReadback, RollbackRaises, storeVars
    <2> QED BY <1>3, <2>1, <2>2 DEF RollbackStep
<1>4. CASE Environment
    BY <1>4 DEF Environment, TimePasses, Deliver, Lose, ManualChange, storeVars
<1>5. CASE UNCHANGED vars
    BY <1>5 DEF vars, storeVars
<1> QED BY <1>1, <1>2, <1>3, <1>4, <1>5 DEF Next

LEMMA ClosedKeepsQuiet ==
    ASSUME IInv, [Next]_vars, NEW p \in Proposals, status[p] \in Terminal
    PROVE  status'[p] \in Terminal /\ written'[p] = written[p]
<1>1. status'[p] \in Terminal
    BY StatusStaysTerminal
<1>2. ASSUME written'[p] # written[p] PROVE FALSE
    <2>1. WriteOperation /\ cur = p
        BY <1>2, WrittenBy
    <2>2. status[cur] = "PENDING_APPROVAL"
        BY <2>1 DEF WriteOperation, IInv, Safety, ExecutesPending
    <2> QED BY <2>1, <2>2 DEF Terminal
<1> QED BY <1>1, <1>2

\* A proposal whose status is terminal is closed for good: whatever is called
\* afterwards, it never gets back to a status from which it can be executed,
\* and its execution sends nothing more.
ClosedStaysClosed ==
    [][\A p \in Proposals :
          status[p] \in Terminal =>
              /\ status'[p] \in Terminal
              /\ written'[p] = written[p]]_vars

\* Closed for good: a proposal in a terminal status is never pending again,
\* and its execution sends nothing more, whatever is called and whatever
\* arrives late.
THEOREM ClosedForGood == Spec => ClosedStaysClosed
<1>1. IInv /\ [Next]_vars =>
          [\A p \in Proposals :
               status[p] \in Terminal =>
                   /\ status'[p] \in Terminal
                   /\ written'[p] = written[p]]_vars
    BY ClosedKeepsQuiet
<1> QED BY <1>1, Inductive, PTL DEF Spec, ClosedStaysClosed

\* An emergency ends what stood: no proposal stored when one was entered is
\* ever executed after it.
THEOREM EmergencyEndsWhatStood == Spec => EmergencyClosesWhatStood
<1>1. IInv /\ [Next]_vars =>
          [\A p \in stood : written'[p] = written[p]]_vars
    <2> SUFFICES ASSUME IInv, [Next]_vars, NEW p \in stood
                 PROVE  written'[p] = written[p]
        OBVIOUS
    <2>1. p \in Proposals /\ status[p] \in Terminal
        BY DEF IInv, TypeOK, RecordTypeOK, Safety, StoodIsClosed
    <2> QED BY <2>1, ClosedKeepsQuiet
<1> QED BY <1>1, Inductive, PTL DEF Spec, EmergencyClosesWhatStood

-----------------------------------------------------------------------------
(* Changes made by hand before the conflict reads.                          *)

LEMMA InitReads == Init => ReadsInv
<1> SUFFICES ASSUME Init PROVE ReadsInv
    OBVIOUS
<1> USE DEF Init
<1>1. RevisionsOrdered
    BY DEF RevisionsOrdered
<1>2. BasesTaken /\ OvertakenSeen
    BY DEF BasesTaken, OvertakenSeen, Stored
<1> QED BY <1>1, <1>2 DEF ReadsInv

\* A step of the bridge leaves the console's own state alone, and the revision
\* a path was seen at is kept, reset, or the one the console is at.
LEMMA BridgeStep ==
    ASSUME CallTypeOK, Call \/ ExecutionStep \/ RollbackStep
    PROVE  /\ UNCHANGED <<value, revision, manualRev>>
           /\ \A q \in Paths : readRev'[q] \in {readRev[q], 0, revision}
<1>1. CASE Call
    <2> USE DEF consoleVars, callVars
    <2>1. ASSUME NEW p \in Proposals, NEW m \in HostModes,
                 \/ \E ops \in Plans, b \in 1..revision : Propose(p, ops, m, b)
                 \/ ExecuteStart(p, m)
                 \/ RollbackStart(p, m)
          PROVE  /\ UNCHANGED <<value, revision, manualRev>>
                 /\ \A q \in Paths : readRev'[q] \in {readRev[q], 0, revision}
        BY <2>1 DEF Propose, ExecuteStart, RollbackStart, Enter
    <2>2. ASSUME NEW p \in Proposals,
                 Verify(p) \/ ExecuteDenied(p) \/ ExecuteInEmergencyMode(p)
                     \/ RollbackDenied(p)
          PROVE  /\ UNCHANGED <<value, revision, manualRev>>
                 /\ \A q \in Paths : readRev'[q] \in {readRev[q], 0, revision}
        BY <2>2 DEF Verify, ExecuteDenied, ExecuteInEmergencyMode,
                    RollbackDenied, Deny, Return
    <2>3. CASE EnterEmergency \/ ExitEmergencyToObserve
        BY <2>3 DEF EnterEmergency, ExitEmergencyToObserve
    <2> QED BY <1>1, <2>1, <2>2, <2>3 DEF Call
<1>2. CASE ExecutionStep
    <2>1. CASE ReadForConflict
        BY <2>1 DEF ReadForConflict, CallTypeOK, consoleVars
    <2> QED BY <1>2, <2>1
            DEF ExecutionStep, ConflictReadFails, ConflictsFound, NoConflicts,
                PolicyDenies, PolicyPasses, WriteOperation, ReadbackMatches,
                ReadbackDiffers, OperationRaises, Finish, FailTransaction, Deny,
                Return, Stay, consoleVars
<1>3. CASE RollbackStep
    BY <1>3 DEF RollbackStep, RollbackWrite, RollbackReadback, RollbackRaises,
                RollbackDone, Return, Stay, consoleVars
<1> QED BY <1>1, <1>2, <1>3

LEMMA StepKeepsOrder ==
    ASSUME TypeOK, RevisionsOrdered, [Next]_vars
    PROVE  RevisionsOrdered'
<1> USE DEF RevisionsOrdered, TypeOK, ConsoleTypeOK, CallTypeOK
<1>1. CASE Call \/ ExecutionStep \/ RollbackStep
    <2>1. /\ UNCHANGED <<value, revision, manualRev>>
          /\ \A q \in Paths : readRev'[q] \in {readRev[q], 0, revision}
        BY <1>1, BridgeStep
    <2>2. 0 <= revision /\ revision <= revision
        OBVIOUS
    <2>3. \A q \in Paths : readRev'[q] <= revision
        BY <2>1, <2>2
    <2> QED BY <2>1, <2>3
<1>2. ASSUME NEW d \in inflight, Deliver(d)
      PROVE  RevisionsOrdered'
    <2>1. d.value # NoValue /\ d.path \in Paths
        BY ConstantsAssumption DEF Datagrams
    <2>2. revision' \in {revision, revision + 1}
        BY <1>2 DEF Deliver
    <2>3. readRev' = readRev /\ manualRev' = manualRev
        BY <1>2 DEF Deliver, callVars
    <2>4. ASSUME NEW path \in Paths, manualRev[path] > 0
          PROVE  value'[path] # NoValue
        BY <1>2, <2>1, <2>4 DEF Deliver
    <2> QED BY <2>2, <2>3, <2>4
<1>3. ASSUME NEW path \in Paths, NEW v \in Values, ManualChange(path, v)
      PROVE  RevisionsOrdered'
    BY <1>3, ConstantsAssumption DEF ManualChange, callVars
<1>4. CASE \/ UNCHANGED vars
           \/ \E p \in Proposals : TimePasses(p)
           \/ \E d \in inflight : Lose(d)
    BY <1>4 DEF vars, TimePasses, Lose, consoleVars, callVars
<1> QED BY <1>1, <1>2, <1>3, <1>4 DEF Next, Environment

LEMMA StepKeepsBases ==
    ASSUME IInv, BasesTaken, [Next]_vars
    PROVE  BasesTaken'
<1>0. StoreTypeOK /\ CallTypeOK
    BY DEF IInv, TypeOK
<1>1. ASSUME NEW p \in Proposals, NEW m \in HostModes, NEW ops \in Plans,
             NEW b \in 1..revision, Propose(p, ops, m, b)
      PROVE  BasesTaken'
    BY <1>0, <1>1 DEF Propose, BasesTaken, Stored, StoreTypeOK
<1>2. ASSUME base' = base, NEW q, NEW s,
             q \in Proposals => status[q] # "absent" \/ s = "absent",
             status' = [status EXCEPT ![q] = s]
      PROVE  BasesTaken'
    BY <1>0, <1>2 DEF BasesTaken, Stored, StoreTypeOK
<1>3. \A q : status[q] = "absent" => Fetched(q) = "absent"
    BY DEF Fetched, Stored
<1>4. pc # "idle" => status[cur] # "absent"
    BY DEF IInv, Safety, CallIsStored
<1>5. CASE UNCHANGED <<status, base>>
    BY <1>5 DEF BasesTaken, Stored
<1>6. ASSUME NEW p \in Proposals, NEW m \in HostModes,
             ExecuteStart(p, m) \/ RollbackStart(p, m)
      PROVE  BasesTaken'
    BY <1>2, <1>3, <1>5, <1>6 DEF ExecuteStart, RollbackStart, storeVars
<1>7. ASSUME NEW p \in Proposals, Verify(p) \/ ExecuteDenied(p)
      PROVE  BasesTaken'
    BY <1>2, <1>3, <1>7 DEF Verify, ExecuteDenied, Deny
<1>8. ASSUME NEW p \in Proposals, ExecuteInEmergencyMode(p)
      PROVE  BasesTaken'
    BY <1>2, <1>8 DEF ExecuteInEmergencyMode, Deny, Stored
<1>9. CASE EnterEmergency
    BY <1>0, <1>9 DEF EnterEmergency, BasesTaken, Stored, Cancelled, StoreTypeOK
<1>10. CASE ConflictsFound \/ PolicyDenies
    BY <1>2, <1>4, <1>10 DEF ConflictsFound, PolicyDenies, Deny
<1>11. CASE ReadbackDiffers \/ OperationRaises \/ Finish
    BY <1>2, <1>4, <1>11
    DEF ReadbackDiffers, OperationRaises, FailTransaction, Finish
<1>12. CASE RollbackDone
    BY <1>2, <1>4, <1>12 DEF RollbackDone
<1>13. CASE \/ ExitEmergencyToObserve
            \/ \E p \in Proposals : RollbackDenied(p)
    BY <1>5, <1>13 DEF ExitEmergencyToObserve, RollbackDenied, storeVars
<1>14. CASE \/ ReadForConflict \/ ConflictReadFails \/ NoConflicts
            \/ PolicyPasses \/ WriteOperation \/ ReadbackMatches
            \/ RollbackWrite \/ RollbackReadback \/ RollbackRaises
    BY <1>5, <1>14
    DEF ReadForConflict, ConflictReadFails, NoConflicts, PolicyPasses,
        WriteOperation, ReadbackMatches, RollbackWrite, RollbackReadback,
        RollbackRaises, storeVars
<1>15. CASE Environment \/ UNCHANGED vars
    BY <1>5, <1>15 DEF Environment, TimePasses, Deliver, Lose, ManualChange,
                       vars, storeVars
<1> QED BY <1>1, <1>6, <1>7, <1>8, <1>9, <1>10, <1>11, <1>12, <1>13, <1>14,
           <1>15 DEF Next, Call, ExecutionStep, RollbackStep

LEMMA PlanPaths ==
    ASSUME StoreTypeOK, NEW p \in Proposals, NEW i \in DOMAIN plan[p]
    PROVE  plan[p][i].path \in Paths
<1>1. plan[p] \in Seq(Operations)
    BY DEF StoreTypeOK
<1>2. plan[p][i] \in Operations
    BY <1>1
<1> QED BY <1>2 DEF Operations

\* A read of a path that was changed by hand after p's snapshot finds it.
LEMMA OvertakenMoves ==
    ASSUME TypeOK, RevisionsOrdered, NEW p \in Proposals, base[p] >= 1,
           NEW path \in Paths, manualRev[path] > base[p]
    PROVE  Moved(path, base[p])
<1>1. /\ manualRev[path] \in Nat /\ revision \in Nat /\ base[p] \in Int
      /\ manualRev[path] <= revision
      /\ manualRev[path] > 0 => value[path] # NoValue
    BY DEF TypeOK, ConsoleTypeOK, StoreTypeOK, RevisionsOrdered
<1> QED BY <1>1 DEF Moved

LEMMA CallKeepsSeen ==
    ASSUME IInv, ReadsInv, Call
    PROVE  OvertakenSeen'
<1>1. CASE pc' = "idle" \/ pc' = "rb_write"
    BY <1>1 DEF OvertakenSeen
<1>2. ASSUME NEW p \in Proposals, NEW m \in HostModes, ExecuteStart(p, m)
      PROVE  OvertakenSeen'
    <2>1. pc' = "conflicts" /\ k' = 1 /\ cur' = p /\ plan' = plan
        BY <1>2 DEF ExecuteStart, Enter, storeVars
    <2>2. \A i \in DOMAIN plan[p] : ~(i < 1)
        BY DEF IInv, TypeOK, StoreTypeOK
    <2> QED BY <2>1, <2>2 DEF OvertakenSeen
<1>3. ASSUME ~(\E p \in Proposals, m \in HostModes : ExecuteStart(p, m))
      PROVE  pc' = "idle" \/ pc' = "rb_write"
    BY <1>3 DEF Call, Propose, RollbackStart, Enter, Verify, ExecuteDenied,
                ExecuteInEmergencyMode, RollbackDenied, Deny, Return,
                EnterEmergency, ExitEmergencyToObserve, callVars
<1> QED BY <1>1, <1>2, <1>3

LEMMA ExecutionKeepsSeen ==
    ASSUME IInv, ReadsInv, ExecutionStep
    PROVE  OvertakenSeen'
<1> USE DEF storeVars, consoleVars, Stay
<1>1. CASE pc' = "idle"
    BY <1>1 DEF OvertakenSeen
<1>2. CASE ReadForConflict
    <2>1. cur \in Proposals /\ Op \in Operations
        BY <1>2, OpType DEF ReadForConflict, IInv, TypeOK
    <2>2. base[cur] >= 1
        BY <1>2, <2>1 DEF ReadForConflict, IInv, Safety, CallIsStored,
                          ReadsInv, BasesTaken, Stored
    <2>3. /\ clash' = (clash \/ Moved(Op.path, base[cur])) /\ k' = k + 1
          /\ readRev' = [readRev EXCEPT ![Op.path] = revision]
          /\ UNCHANGED <<plan, base, cur, manualRev, revision>>
        BY <1>2 DEF ReadForConflict
    <2>4. Op.path \in Paths
        BY <2>1 DEF Operations
    <2>5. manualRev[Op.path] > base[cur] => clash'
        BY <2>1, <2>2, <2>3, <2>4, OvertakenMoves DEF IInv, ReadsInv
    <2>6. ASSUME ~clash', NEW i \in DOMAIN plan[cur], i < k + 1
          PROVE  ~Overtaken(cur, plan[cur][i].path)'
        <3>1. i \in Nat /\ k \in Nat
            BY <2>1 DEF IInv, TypeOK, StoreTypeOK, CallTypeOK
        <3>2. CASE plan[cur][i].path = Op.path
            <4>1. ~(manualRev'[plan'[cur'][i].path] > base'[cur'])
                BY <2>3, <2>5, <2>6, <3>2
            <4> QED BY <4>1 DEF Overtaken
        <3>3. CASE plan[cur][i].path # Op.path
            <4>1. i # k
                BY <3>3 DEF Op
            <4>2. i < k
                BY <2>6, <3>1, <4>1
            <4>3. ~clash /\ pc = "conflicts"
                BY <1>2, <2>3, <2>6
                DEF ReadForConflict, IInv, TypeOK, CallTypeOK
            <4>4. ~Overtaken(cur, plan[cur][i].path)
                BY <2>6, <4>2, <4>3 DEF ReadsInv, OvertakenSeen
            <4>5. plan[cur][i].path \in Paths
                BY <2>1, PlanPaths DEF IInv, TypeOK
            <4>6. readRev'[plan[cur][i].path] = readRev[plan[cur][i].path]
                BY <2>3, <3>3, <4>5 DEF IInv, TypeOK, CallTypeOK
            <4> QED BY <2>3, <4>4, <4>6 DEF Overtaken
        <3> QED BY <3>2, <3>3
    <2>7. pc' = "conflicts"
        BY <1>2 DEF ReadForConflict
    <2> QED BY <2>3, <2>6, <2>7 DEF OvertakenSeen, Overtaken
<1>3. CASE NoConflicts
    <2>1. \A i \in DOMAIN plan[cur] : i < k
        BY <1>3 DEF NoConflicts, More, IInv, TypeOK, StoreTypeOK, CallTypeOK
    <2>2. \A i \in DOMAIN plan[cur] : ~Overtaken(cur, plan[cur][i].path)
        BY <1>3, <2>1 DEF NoConflicts, ReadsInv, OvertakenSeen
    <2> QED BY <1>3, <2>2 DEF NoConflicts, OvertakenSeen, Overtaken
<1>4. CASE PolicyPasses \/ WriteOperation \/ ReadbackMatches
    <2>1. \A i \in DOMAIN plan[cur] : ~Overtaken(cur, plan[cur][i].path)
        BY <1>4 DEF PolicyPasses, WriteOperation, ReadbackMatches, ReadsInv,
                    OvertakenSeen
    <2> QED BY <1>4, <2>1 DEF PolicyPasses, WriteOperation, ReadbackMatches,
                              OvertakenSeen, Overtaken
<1>5. CASE \/ ConflictReadFails \/ ConflictsFound \/ PolicyDenies
           \/ ReadbackDiffers \/ OperationRaises \/ Finish
    BY <1>1, <1>5
    DEF ConflictReadFails, ConflictsFound, PolicyDenies, ReadbackDiffers,
        OperationRaises, Finish, FailTransaction, Deny, Return
<1> QED BY <1>2, <1>3, <1>4, <1>5 DEF ExecutionStep

\* A change made by hand during a call is later than what the call has seen.
LEMMA EnvironmentKeepsSeen ==
    ASSUME IInv, ReadsInv, Environment
    PROVE  OvertakenSeen'
<1>0. UNCHANGED <<plan, base, callVars>>
    BY DEF Environment, TimePasses, Deliver, Lose, ManualChange, storeVars,
           callVars
<1>1. ASSUME NEW p, NEW path, Overtaken(p, path)', pc # "idle",
             p \in Proposals, path \in Paths
      PROVE  Overtaken(p, path)
    <2>1. CASE manualRev' = manualRev
        BY <1>0, <1>1, <2>1 DEF Overtaken, callVars
    <2>2. ASSUME NEW at \in Paths, NEW v \in Values, ManualChange(at, v)
          PROVE  Overtaken(p, path)
        <3>1. CASE path = at
            BY <1>0, <1>1, <2>2, <3>1
            DEF ManualChange, Overtaken, callVars, ReadsInv, RevisionsOrdered,
                IInv, TypeOK, ConsoleTypeOK, CallTypeOK
        <3>2. CASE path # at
            BY <1>0, <1>1, <2>2, <3>2
            DEF ManualChange, Overtaken, callVars, IInv, TypeOK, ConsoleTypeOK
        <3> QED BY <3>1, <3>2
    <2> QED BY <2>1, <2>2 DEF Environment, TimePasses, Deliver, Lose,
                              consoleVars
<1>2. pc # "idle" =>
          /\ cur \in Proposals
          /\ \A i \in DOMAIN plan[cur] : plan[cur][i].path \in Paths
    BY PlanPaths DEF IInv, TypeOK, CallTypeOK
<1> QED BY <1>0, <1>1, <1>2 DEF OvertakenSeen, callVars, ReadsInv

LEMMA StepKeepsReads == IInv /\ ReadsInv /\ [Next]_vars => ReadsInv'
<1> SUFFICES ASSUME IInv, ReadsInv, [Next]_vars PROVE ReadsInv'
    OBVIOUS
<1>1. RevisionsOrdered' /\ BasesTaken'
    BY StepKeepsOrder, StepKeepsBases DEF IInv, ReadsInv
<1>2. OvertakenSeen'
    <2>1. CASE RollbackStep
        BY <2>1 DEF RollbackStep, RollbackWrite, RollbackReadback,
                    RollbackRaises, RollbackDone, Return, OvertakenSeen
    <2>2. CASE UNCHANGED vars
        BY <2>2 DEF vars, consoleVars, storeVars, callVars, ReadsInv,
                    OvertakenSeen, Overtaken
    <2> QED BY <2>1, <2>2, CallKeepsSeen, ExecutionKeepsSeen,
               EnvironmentKeepsSeen DEF Next
<1> QED BY <1>1, <1>2 DEF ReadsInv

LEMMA ReadsInductive == Spec => []ReadsInv
BY InitReads, StepKeepsReads, Inductive, PTL DEF Spec

\* A change made by hand after a proposal's snapshot, before the call that
\* executes it or in that call before it reads the path, keeps the call from
\* writing: the conflict read sees it, however many datagrams are delivered.
THEOREM ManualChangeBlocks == Spec => ManualChangeBlocksWrite
<1>1. IInv /\ ReadsInv /\ [Next]_vars =>
          [\A p \in Proposals :
               written'[p] # written[p] =>
                   \A i \in DOMAIN plan[p] :
                       \/ manualRev[plan[p][i].path] <= base[p]
                       \/ manualRev[plan[p][i].path] > readRev[plan[p][i].path]]_vars
    <2> SUFFICES ASSUME IInv, ReadsInv, [Next]_vars, NEW p \in Proposals,
                        written'[p] # written[p], NEW i \in DOMAIN plan[p]
                 PROVE  \/ manualRev[plan[p][i].path] <= base[p]
                        \/ manualRev[plan[p][i].path] > readRev[plan[p][i].path]
        OBVIOUS
    <2>1. WriteOperation /\ cur = p
        BY WrittenBy
    <2>2. ~Overtaken(p, plan[p][i].path)
        BY <2>1 DEF WriteOperation, ReadsInv, OvertakenSeen
    <2>3. plan[p][i].path \in Paths
        BY PlanPaths DEF IInv, TypeOK
    <2> QED BY <2>2, <2>3
            DEF Overtaken, IInv, TypeOK, ConsoleTypeOK, StoreTypeOK, CallTypeOK
<1> QED BY <1>1, Inductive, ReadsInductive, PTL
        DEF Spec, ManualChangeBlocksWrite

-----------------------------------------------------------------------------
(* With an audit file that never fails.                                     *)

\* A record is then written, and none is ever taken away.
LEMMA RecordIsWritten ==
    ASSUME DiskOutcomes = {TRUE}, RecordTypeOK, NEW p \in Proposals,
           NEW r \in AuditResults, Record(p, r)
    PROVE  /\ r \in audit'[p]
           /\ \A q \in Proposals : audit[q] \subseteq audit'[q]
<1> PICK w \in DiskOutcomes :
        audit' = IF w THEN [audit EXCEPT ![p] = @ \cup {r}] ELSE audit
    BY DEF Record
<1>1. audit' = [audit EXCEPT ![p] = @ \cup {r}]
    OBVIOUS
<1> QED BY <1>1 DEF RecordTypeOK

\* A step that sends nothing, ends no transaction and takes no record away.
LEMMA KeepsRecorded ==
    ASSUME WritersRecorded, written' = written,
           \A q \in Proposals : audit[q] \subseteq audit'[q],
           \A q \in Proposals : InTransaction(q) => InTransaction(q)'
    PROVE  WritersRecorded'
BY DEF WritersRecorded, Outcomes

\* The step that ends the transaction of cur records how it ended.
LEMMA EndsRecorded ==
    ASSUME WritersRecorded, DiskOutcomes = {TRUE}, IInv,
           pc \in {"write", "readback"}, written' = written,
           NEW r \in Outcomes, Record(cur, r)
    PROVE  WritersRecorded'
<1>1. cur \in Proposals /\ r \in AuditResults
    BY DEF IInv, TypeOK, CallTypeOK, Outcomes, AuditResults
<1>2. /\ r \in audit'[cur]
      /\ \A q \in Proposals : audit[q] \subseteq audit'[q]
    BY <1>1, RecordIsWritten DEF IInv, TypeOK
<1>3. ASSUME NEW p \in Proposals, written[p] # <<>>
      PROVE  audit'[p] \cap Outcomes # {}  \/ InTransaction(p)'
    <2>1. CASE p = cur
        BY <1>2, <2>1
    <2>2. CASE p # cur
        BY <1>2, <1>3, <2>2 DEF WritersRecorded, InTransaction
    <2> QED BY <2>1, <2>2
<1> QED BY <1>3 DEF WritersRecorded, Outcomes

LEMMA DenyKeepsRecorded ==
    ASSUME WritersRecorded, DiskOutcomes = {TRUE}, IInv,
           NEW p \in Proposals, NEW s, Deny(p, s),
           pc \notin {"write", "readback"}
    PROVE  WritersRecorded'
<1>1. \A q \in Proposals : audit[q] \subseteq audit'[q]
    BY RecordIsWritten DEF Deny, IInv, TypeOK, AuditResults
<1> QED BY <1>1, KeepsRecorded DEF Deny, traceVars, InTransaction

LEMMA CallKeepsRecorded ==
    ASSUME WritersRecorded, DiskOutcomes = {TRUE}, IInv, Call
    PROVE  WritersRecorded'
<1> USE DEF InTransaction
<1>1. ASSUME NEW p \in Proposals, NEW m \in HostModes,
             \/ \E ops \in Plans, b \in 1..revision : Propose(p, ops, m, b)
             \/ ExecuteStart(p, m)
             \/ RollbackStart(p, m)
      PROVE  WritersRecorded'
    <2>1. UNCHANGED <<written, audit>> /\ pc = "idle"
        BY <1>1 DEF Propose, ExecuteStart, RollbackStart, traceVars
    <2> QED BY <2>1, KeepsRecorded
<1>2. ASSUME NEW p \in Proposals, Verify(p)
      PROVE  WritersRecorded'
    BY <1>2, KeepsRecorded DEF Verify, traceVars
<1>3. ASSUME NEW p \in Proposals,
             ExecuteDenied(p) \/ ExecuteInEmergencyMode(p)
      PROVE  WritersRecorded'
    <2>1. PICK s : Deny(p, s)
        BY <1>3 DEF ExecuteDenied, ExecuteInEmergencyMode
    <2>2. pc = "idle"
        BY <1>3 DEF ExecuteDenied, ExecuteInEmergencyMode
    <2> QED BY <2>1, <2>2, DenyKeepsRecorded
<1>4. ASSUME NEW p \in Proposals, RollbackDenied(p)
      PROVE  WritersRecorded'
    <2>1. \A q \in Proposals : audit[q] \subseteq audit'[q]
        BY <1>4, RecordIsWritten DEF RollbackDenied, IInv, TypeOK, AuditResults
    <2> QED BY <1>4, <2>1, KeepsRecorded
            DEF RollbackDenied, traceVars, callVars
<1>5. CASE EnterEmergency \/ ExitEmergencyToObserve
    BY <1>5, KeepsRecorded
       DEF EnterEmergency, ExitEmergencyToObserve, callVars, traceVars
<1> QED BY <1>1, <1>2, <1>3, <1>4, <1>5 DEF Call

LEMMA ExecutionKeepsRecorded ==
    ASSUME WritersRecorded, DiskOutcomes = {TRUE}, IInv, ExecutionStep
    PROVE  WritersRecorded'
<1>0. pc # "idle" => cur \in Proposals
    BY DEF IInv, TypeOK, CallTypeOK
<1>1. CASE \/ ReadForConflict \/ ConflictReadFails \/ NoConflicts
           \/ PolicyPasses \/ ReadbackMatches
    <2>1. UNCHANGED <<written, audit>>
        BY <1>1 DEF ReadForConflict, ConflictReadFails, NoConflicts,
                    PolicyPasses, ReadbackMatches, traceVars
    <2>2. \A q \in Proposals : InTransaction(q) => InTransaction(q)'
        BY <1>1 DEF ReadForConflict, ConflictReadFails, NoConflicts,
                    PolicyPasses, ReadbackMatches, InTransaction, Stay
    <2> QED BY <2>1, <2>2, KeepsRecorded
<1>2. CASE ConflictsFound \/ PolicyDenies
    <2>1. PICK s : Deny(cur, s)
        BY <1>2 DEF ConflictsFound, PolicyDenies
    <2>2. pc \in {"conflicts", "policy"}
        BY <1>2 DEF ConflictsFound, PolicyDenies
    <2> QED BY <1>0, <2>1, <2>2, DenyKeepsRecorded
<1>3. CASE WriteOperation
    <2>1. ASSUME NEW p \in Proposals, written'[p] # <<>>, ~InTransaction(p)'
          PROVE  audit'[p] \cap Outcomes # {}
        <3>1. p # cur /\ ~InTransaction(p)
            BY <1>3, <2>1 DEF WriteOperation, Stay, InTransaction
        <3>2. written'[p] = written[p] /\ audit' = audit
            BY <1>3, <3>1 DEF WriteOperation, IInv, TypeOK, RecordTypeOK
        <3> QED BY <2>1, <3>1, <3>2 DEF WritersRecorded
    <2> QED BY <2>1 DEF WritersRecorded, Outcomes
<1>4. CASE ReadbackDiffers \/ OperationRaises
    <2>1. pc \in {"write", "readback"} /\ FailTransaction
        BY <1>4 DEF ReadbackDiffers, OperationRaises
    <2>2. written' = written /\ Record(cur, "failed")
        BY <2>1 DEF FailTransaction, traceVars
    <2> QED BY <2>1, <2>2, EndsRecorded DEF Outcomes
<1>5. CASE Finish
    BY <1>5, EndsRecorded DEF Finish, traceVars, Outcomes
<1> QED BY <1>1, <1>2, <1>3, <1>4, <1>5 DEF ExecutionStep

LEMMA RestKeepsRecorded ==
    ASSUME WritersRecorded, DiskOutcomes = {TRUE}, IInv,
           RollbackStep \/ Environment \/ UNCHANGED vars
    PROVE  WritersRecorded'
<1>1. CASE RollbackWrite \/ RollbackReadback \/ RollbackRaises
    BY <1>1, KeepsRecorded
       DEF RollbackWrite, RollbackReadback, RollbackRaises, InTransaction,
           traceVars
<1>2. CASE RollbackDone
    <2>1. cur \in Proposals
        BY <1>2 DEF RollbackDone, IInv, TypeOK, CallTypeOK
    <2>2. \A q \in Proposals : audit[q] \subseteq audit'[q]
        BY <1>2, <2>1, RecordIsWritten
           DEF RollbackDone, IInv, TypeOK, AuditResults
    <2> QED BY <1>2, <2>2, KeepsRecorded
            DEF RollbackDone, InTransaction, traceVars
<1>3. CASE Environment
    BY <1>3, KeepsRecorded
       DEF Environment, TimePasses, Deliver, Lose, ManualChange, InTransaction,
           traceVars, callVars
<1>4. CASE UNCHANGED vars
    BY <1>4, KeepsRecorded DEF vars, traceVars, callVars, InTransaction
<1> QED BY <1>1, <1>2, <1>3, <1>4 DEF RollbackStep

\* Between calls, every proposal whose execution has sent anything has a
\* record of how the transaction ended, when no append to the file fails.
THEOREM WritersAreRecorded ==
    ASSUME DiskOutcomes = {TRUE}
    PROVE  Spec => []ExecutionAudited
<1>1. Init => WritersRecorded
    BY DEF Init, WritersRecorded
<1>2. IInv /\ WritersRecorded /\ [Next]_vars => WritersRecorded'
    BY CallKeepsRecorded, ExecutionKeepsRecorded, RestKeepsRecorded DEF Next
<1>3. WritersRecorded => ExecutionAudited
    BY DEF WritersRecorded, ExecutionAudited, InTransaction, Outcomes
<1> QED BY <1>1, <1>2, <1>3, Inductive, PTL DEF Spec
-----------------------------------------------------------------------------
(* The transaction implements the one-shot promise.                         *)

oneShotVars == <<status, plan, written, matched, audit, pc, cur>>

\* A proposal that is in its transaction is pending, and no other is.
LEMMA RunningIs ==
    ASSUME IInv, NEW p \in Proposals, InTransaction(p)
    PROVE  /\ TransactionState(p) = "running"
           /\ \A q \in Proposals : q # p => TransactionState(q) # "running"
BY DEF IInv, Safety, ExecutesPending, InTransaction, TransactionState

\* What a proposal is seen as when no transaction is under way.
LEMMA QuietIs ==
    ASSUME TypeOK, pc \notin {"write", "readback"}, NEW p \in Proposals
    PROVE  /\ status[p] = "absent" <=> TransactionState(p) = "absent"
           /\ status[p] = "PENDING_APPROVAL" <=> TransactionState(p) = "open"
           /\ status[p] \in Terminal <=> TransactionState(p) = "closed"
BY DEF TypeOK, StoreTypeOK, Statuses, Terminal, TransactionState, InTransaction

\* A step that moves nothing of the transaction is a stutter.
LEMMA OneShotStutters ==
    ASSUME UNCHANGED oneShotVars
    PROVE  UNCHANGED OneShot!txVars
<1>1. \A p \in Proposals : TransactionState(p)' = TransactionState(p)
    BY DEF oneShotVars, TransactionState, InTransaction
<1> QED BY <1>1 DEF oneShotVars, OneShot!txVars, InTransaction, TransactionState

\* Outside a transaction, closing any pending proposals drops them.
LEMMA ClosingDrops ==
    ASSUME IInv, TypeOK',
           pc \notin {"write", "readback"}, pc' \notin {"write", "readback"},
           \A p \in Proposals :
               \/ status'[p] = status[p]
               \/ status[p] # "absent" /\ status'[p] \in Terminal,
           \A p \in Proposals : audit'[p] \cap Outcomes = audit[p] \cap Outcomes,
           UNCHANGED <<plan, written, matched>>
    PROVE  OneShot!Next
<1> DEFINE some == {p \in Proposals : /\ TransactionState(p) = "open"
                                      /\ TransactionState(p)' = "closed"}
<1>1. ASSUME NEW p \in Proposals
      PROVE  TransactionState(p)' =
                 IF p \in some THEN "closed" ELSE TransactionState(p)
    <2>1. /\ TransactionState(p)' \in {"absent", "open", "closed"}
          /\ TransactionState(p) \in {"absent", "open", "closed"}
        BY DEF TransactionState, InTransaction
    <2>2. /\ status'[p] = "absent" <=> TransactionState(p)' = "absent"
          /\ status'[p] = "PENDING_APPROVAL" <=> TransactionState(p)' = "open"
          /\ status'[p] \in Terminal <=> TransactionState(p)' = "closed"
        BY DEF TypeOK, StoreTypeOK, Statuses, Terminal, TransactionState,
               InTransaction
    <2>3. /\ status[p] = "absent" <=> TransactionState(p) = "absent"
          /\ status[p] = "PENDING_APPROVAL" <=> TransactionState(p) = "open"
          /\ status[p] \in Terminal <=> TransactionState(p) = "closed"
        BY QuietIs DEF IInv
    <2>4. CASE status'[p] = status[p]
        <3>1. TransactionState(p)' = TransactionState(p)
            BY <2>1, <2>2, <2>3, <2>4
        <3>2. p \notin some
            BY <3>1
        <3> QED BY <3>1, <3>2
    <2>5. CASE status[p] # "absent" /\ status'[p] \in Terminal
        <3>1. /\ TransactionState(p)' = "closed"
              /\ TransactionState(p) \in {"open", "closed"}
            BY <2>1, <2>2, <2>3, <2>5
        <3> QED BY <3>1
    <2> QED BY <2>4, <2>5
<1>2. OneShot!Drop(some)
    BY <1>1 DEF OneShot!Drop
<1> QED BY <1>2 DEF OneShot!Next

\* A status given to one proposal, with a record that is no outcome: the calls
\* and the steps that close a proposal without executing it.
LEMMA GivenDrops ==
    ASSUME IInv, TypeOK', NEW p \in Proposals, NEW s,
           pc \notin {"write", "readback"}, pc' \notin {"write", "readback"},
           \/ s = status[p]
           \/ status[p] # "absent" /\ s \in Terminal,
           status' = [status EXCEPT ![p] = s],
           \A q \in Proposals : audit'[q] \cap Outcomes = audit[q] \cap Outcomes,
           UNCHANGED <<plan, traceVars>>
    PROVE  OneShot!Next
<1>1. \A q \in Proposals :
          \/ status'[q] = status[q]
          \/ status[q] # "absent" /\ status'[q] \in Terminal
    BY DEF IInv, TypeOK, StoreTypeOK
<1> QED BY <1>1, ClosingDrops DEF traceVars

LEMMA DenyDrops ==
    ASSUME IInv, TypeOK', NEW p \in Proposals, NEW s,
           pc \notin {"write", "readback"},
           \/ s = status[p]
           \/ status[p] # "absent" /\ s \in Terminal,
           Deny(p, s)
    PROVE  OneShot!Next
<1>1. \A q \in Proposals : audit'[q] \cap Outcomes = audit[q] \cap Outcomes
    BY OtherRecord DEF Deny, IInv
<1> QED BY <1>1, GivenDrops DEF Deny, Return

\* A step outside a transaction that changes no status and no outcome.
LEMMA OutsideDrops ==
    ASSUME IInv, TypeOK',
           pc \notin {"write", "readback"}, pc' \notin {"write", "readback"},
           UNCHANGED <<status, plan, traceVars, audit>>
    PROVE  OneShot!Next
BY ClosingDrops DEF traceVars

LEMMA ProposeOffers ==
    ASSUME IInv, NEW p \in Proposals, NEW m \in HostModes, NEW ops \in Plans,
           NEW b \in 1..revision, Propose(p, ops, m, b)
    PROVE  OneShot!Next
<1> DEFINE n == Len(ops)
<1>1. n \in {Len(o) : o \in Plans}
    OBVIOUS
<1>2. /\ status[p] = "absent"
      /\ status' = [status EXCEPT ![p] = "PENDING_APPROVAL"]
      /\ plan' = [plan EXCEPT ![p] = ops]
      /\ pc = "idle" /\ pc' = pc /\ cur' = cur
      /\ UNCHANGED <<written, matched, audit>>
    BY DEF Propose, Stored, callVars, traceVars
<1>3. \A q \in Proposals :
          TransactionState(q)' = IF q = p THEN "open" ELSE TransactionState(q)
    BY <1>2 DEF IInv, TypeOK, StoreTypeOK, TransactionState, InTransaction
<1>4. TransactionState(p) = "absent"
    BY <1>2 DEF TransactionState
<1>5. \A q \in Proposals :
          Len(plan'[q]) = IF q = p THEN n ELSE Len(plan[q])
    BY <1>2 DEF IInv, TypeOK, StoreTypeOK
<1>6. OneShot!Offer(p, n)
    BY <1>2, <1>3, <1>4, <1>5 DEF OneShot!Offer
<1> QED BY <1>1, <1>6 DEF OneShot!Next

LEMMA CallDrops ==
    ASSUME IInv, TypeOK', Call
    PROVE  [OneShot!Next]_(OneShot!txVars)
<1>1. ASSUME NEW p \in Proposals, NEW m \in HostModes, NEW ops \in Plans,
             NEW b \in 1..revision, Propose(p, ops, m, b)
      PROVE  OneShot!Next
    BY <1>1, ProposeOffers
<1>2. ASSUME NEW p \in Proposals, NEW m \in HostModes, ExecuteStart(p, m)
      PROVE  OneShot!Next
    BY <1>2, OutsideDrops DEF ExecuteStart, Enter, storeVars
<1>a. \A q : \/ Fetched(q) = status[q]
             \/ status[q] # "absent" /\ Fetched(q) \in Terminal
    BY FetchedIs DEF Terminal
<1>3. ASSUME NEW p \in Proposals, NEW m \in HostModes, RollbackStart(p, m)
      PROVE  OneShot!Next
    BY <1>3, <1>a, GivenDrops DEF RollbackStart, Enter
<1>4. ASSUME NEW p \in Proposals, Verify(p)
      PROVE  OneShot!Next
    BY <1>4, <1>a, GivenDrops DEF Verify, callVars
<1>5. ASSUME NEW p \in Proposals, ExecuteDenied(p)
      PROVE  OneShot!Next
    BY <1>5, <1>a, DenyDrops DEF ExecuteDenied
<1>6. ASSUME NEW p \in Proposals, ExecuteInEmergencyMode(p)
      PROVE  OneShot!Next
    <2> DEFINE s == IF Stored(p) THEN "CANCELLED_BY_EMERGENCY" ELSE status[p]
    <2>1. \/ s = status[p]
          \/ status[p] # "absent" /\ s \in Terminal
        <3>1. CASE Stored(p)
            <4>1. s = "CANCELLED_BY_EMERGENCY"
                BY <3>1
            <4>2. s \in Terminal
                BY <4>1 DEF Terminal
            <4> QED BY <3>1, <4>2 DEF Stored
        <3>2. CASE ~Stored(p)
            BY <3>2
        <3> QED BY <3>1, <3>2
    <2>2. pc \notin {"write", "readback"} /\ Deny(p, s)
        BY <1>6 DEF ExecuteInEmergencyMode
    <2> HIDE DEF s
    <2> QED BY <2>1, <2>2, DenyDrops
<1>7. ASSUME NEW p \in Proposals, RollbackDenied(p)
      PROVE  OneShot!Next
    <2>1. \A q \in Proposals : audit'[q] \cap Outcomes = audit[q] \cap Outcomes
        BY <1>7, OtherRecord DEF RollbackDenied, IInv
    <2>2. pc = "idle" /\ pc' = pc /\ UNCHANGED <<status, plan, traceVars>>
        BY <1>7 DEF RollbackDenied, storeVars, callVars
    <2> QED BY <2>1, <2>2, ClosingDrops DEF traceVars
<1>8. CASE EnterEmergency
    <2>1. \A p \in Proposals :
              \/ status'[p] = status[p]
              \/ status[p] # "absent" /\ status'[p] \in Terminal
        BY <1>8 DEF EnterEmergency, Cancelled, Terminal
    <2> QED BY <1>8, <2>1, ClosingDrops DEF EnterEmergency, callVars
<1>9. CASE ExitEmergencyToObserve
    BY <1>9, OutsideDrops DEF ExitEmergencyToObserve, storeVars, callVars
<1> QED BY <1>1, <1>2, <1>3, <1>4, <1>5, <1>6, <1>7, <1>8, <1>9 DEF Call

LEMMA PolicyPassesBegins ==
    ASSUME IInv, PolicyPasses
    PROVE  OneShot!Next
<1>1. /\ cur \in Proposals
      /\ status[cur] = "PENDING_APPROVAL"
      /\ pc = "policy" /\ pc' = "write" /\ cur' = cur
      /\ UNCHANGED <<status, plan, written, matched, audit>>
    BY DEF PolicyPasses, Stay, storeVars, traceVars, IInv, TypeOK, CallTypeOK,
           Safety, ExecutesPending
<1>2. TransactionState(cur) = "open"
    BY <1>1 DEF TransactionState, InTransaction
<1>3. \A q \in Proposals : TransactionState(q) # "running"
    BY <1>1 DEF TransactionState, InTransaction
<1>4. \A q \in Proposals :
          TransactionState(q)' =
              IF q = cur THEN "running" ELSE TransactionState(q)
    BY <1>1 DEF TransactionState, InTransaction
<1>5. OneShot!Begin(cur)
    BY <1>1, <1>2, <1>3, <1>4 DEF OneShot!Begin
<1> QED BY <1>1, <1>5 DEF OneShot!Next

LEMMA WriteOperationSends ==
    ASSUME IInv, WriteOperation
    PROVE  OneShot!Next
<1>1. /\ cur \in Proposals /\ k \in Nat \ {0}
      /\ written[cur] \in Seq(Nat) /\ plan[cur] \in Seq(Operations)
      /\ pc = "write" /\ pc' = "readback" /\ cur' = cur
      /\ k <= Len(plan[cur])
      /\ written' = [written EXCEPT ![cur] = Append(@, k)]
      /\ UNCHANGED <<status, plan, matched, audit>>
    BY DEF WriteOperation, More, Stay, storeVars, IInv, TypeOK, CallTypeOK,
           StoreTypeOK, RecordTypeOK
<1>2. matched[cur] = 1..Len(written[cur]) /\ Len(written[cur]) = k - 1
    BY <1>1 DEF IInv, Safety, TransactionProgress
<1>3. TransactionState(cur) = "running"
    BY <1>1, RunningIs DEF InTransaction
<1>4. \A q \in Proposals : TransactionState(q)' = TransactionState(q)
    BY <1>1 DEF TransactionState, InTransaction
<1>5. \A q \in Proposals :
          Len(written'[q]) =
              IF q = cur THEN Len(written[cur]) + 1 ELSE Len(written[q])
    BY <1>1 DEF IInv, TypeOK, RecordTypeOK
<1>6. Len(written[cur]) < Len(plan[cur])
    BY <1>1, <1>2
<1>7. PICK p \in Proposals : p = cur
    BY <1>1
<1>8. OneShot!Send(p)
    <2> DEFINE sent == [q \in Proposals |-> Len(written[q])]
    <2>1. sent' = [sent EXCEPT ![p] = @ + 1]
        BY <1>1, <1>5, <1>7
    <2>2. /\ [q \in Proposals |-> TransactionState(q)]'
                 = [q \in Proposals |-> TransactionState(q)]
          /\ [q \in Proposals |-> Len(plan[q])]'
                 = [q \in Proposals |-> Len(plan[q])]
          /\ [q \in Proposals |-> audit[q] \cap Outcomes]'
                 = [q \in Proposals |-> audit[q] \cap Outcomes]
        BY <1>1, <1>4
    <2> QED BY <1>1, <1>2, <1>3, <1>6, <1>7, <2>1, <2>2 DEF OneShot!Send
<1> QED BY <1>8 DEF OneShot!Next

LEMMA ReadbackMatchesConfirms ==
    ASSUME IInv, ReadbackMatches
    PROVE  OneShot!Next
<1>1. /\ cur \in Proposals /\ k \in Nat \ {0}
      /\ pc = "readback" /\ pc' = "write" /\ cur' = cur
      /\ matched' = [matched EXCEPT ![cur] = @ \cup {k}]
      /\ UNCHANGED <<status, plan, written, audit>>
    BY DEF ReadbackMatches, Stay, storeVars, IInv, TypeOK, CallTypeOK
<1>2. matched[cur] = 1..(k - 1) /\ Len(written[cur]) = k
    BY <1>1 DEF IInv, Safety, TransactionProgress
<1>3. k \notin matched[cur]
    BY <1>1, <1>2
<1>4. TransactionState(cur) = "running"
    BY <1>1, RunningIs DEF InTransaction
<1>5. \A q \in Proposals : TransactionState(q)' = TransactionState(q)
    BY <1>1 DEF TransactionState, InTransaction
<1>6. OneShot!Confirm(cur)
    BY <1>1, <1>2, <1>3, <1>4, <1>5 DEF OneShot!Confirm
<1> QED BY <1>1, <1>6 DEF OneShot!Next

\* The end of a transaction, with the claim it makes for the record.
LEMMA TransactionEnds ==
    ASSUME IInv, pc \in {"write", "readback"}, NEW r \in Outcomes,
           NEW s \in Terminal,
           r = "verified" => pc = "write" /\ ~More,
           status' = [status EXCEPT ![cur] = s],
           Record(cur, r),
           pc' = "idle",
           UNCHANGED <<plan, traceVars>>
    PROVE  OneShot!Next
<1>1. /\ cur \in Proposals
      /\ status[cur] = "PENDING_APPROVAL"
      /\ InTransaction(cur)
    BY DEF IInv, TypeOK, CallTypeOK, Safety, ExecutesPending, InTransaction
<1>2. TransactionState(cur) = "running"
    BY <1>1, RunningIs
<1>3. \A q \in Proposals :
          TransactionState(q)' =
              IF q = cur THEN "closed" ELSE TransactionState(q)
    BY <1>1 DEF TransactionState, InTransaction, Terminal, IInv, TypeOK,
                StoreTypeOK
<1>4. /\ \A q \in Proposals : q # cur => audit'[q] = audit[q]
      /\ audit'[cur] \in {audit[cur], audit[cur] \cup {r}}
    BY <1>1, RecordAdds DEF IInv, TypeOK
<1> DEFINE claims == [p \in Proposals |-> audit[p] \cap Outcomes]
<1>5. claims' \in {claims, [claims EXCEPT ![cur] = @ \cup {r}]}
    <2>1. CASE audit'[cur] = audit[cur]
        <3>1. claims' = claims
            BY <1>4, <2>1
        <3> QED BY <3>1
    <2>2. CASE audit'[cur] = audit[cur] \cup {r}
        <3>1. audit'[cur] \cap Outcomes = (audit[cur] \cap Outcomes) \cup {r}
            BY <2>2
        <3>2. claims' = [p \in Proposals |->
                             IF p = cur THEN claims[p] \cup {r} ELSE claims[p]]
            BY <1>1, <1>4, <3>1
        <3>3. claims' = [claims EXCEPT ![cur] = @ \cup {r}]
            BY <1>1, <3>2
        <3> QED BY <3>3
    <2> QED BY <1>4, <2>1, <2>2
<1>6. r = "verified" =>
          /\ Len(written[cur]) = Len(plan[cur])
          /\ matched[cur] = 1..Len(plan[cur])
    <2> SUFFICES ASSUME r = "verified"
                 PROVE  /\ Len(written[cur]) = Len(plan[cur])
                        /\ matched[cur] = 1..Len(plan[cur])
        OBVIOUS
    <2>1. /\ k \in Nat /\ Len(plan[cur]) \in Nat
          /\ ~(k <= Len(plan[cur]))
        BY <1>1 DEF More, IInv, TypeOK, CallTypeOK, StoreTypeOK
    <2>2. /\ matched[cur] = 1..(k - 1)
          /\ Len(written[cur]) = k - 1
          /\ k - 1 <= Len(plan[cur])
        BY DEF IInv, Safety, TransactionProgress
    <2>3. k - 1 = Len(plan[cur])
        BY <2>1, <2>2
    <2> QED BY <2>2, <2>3
<1>7. OneShot!End(cur, r)
    BY <1>1, <1>2, <1>3, <1>5, <1>6 DEF OneShot!End, traceVars
<1> QED BY <1>1, <1>7 DEF OneShot!Next, Outcomes

LEMMA ExecutionImplements ==
    ASSUME IInv, TypeOK', ExecutionStep
    PROVE  OneShot!Next
<1>1. CASE ReadForConflict \/ ConflictReadFails \/ NoConflicts
    BY <1>1, OutsideDrops DEF ReadForConflict, ConflictReadFails, NoConflicts,
                              Return, storeVars
<1>2. CASE ConflictsFound \/ PolicyDenies
    <2>1. cur \in Proposals /\ status[cur] # "absent"
        BY <1>2 DEF ConflictsFound, PolicyDenies, IInv, TypeOK, CallTypeOK,
                    Safety, CallIsStored
    <2> QED BY <1>2, <2>1, DenyDrops DEF ConflictsFound, PolicyDenies, Terminal
<1>3. CASE PolicyPasses
    BY <1>3, PolicyPassesBegins
<1>4. CASE WriteOperation
    BY <1>4, WriteOperationSends
<1>5. CASE ReadbackMatches
    BY <1>5, ReadbackMatchesConfirms
<1>6. CASE ReadbackDiffers \/ OperationRaises
    BY <1>6, TransactionEnds
    DEF ReadbackDiffers, OperationRaises, FailTransaction, Return, Terminal,
        Outcomes
<1>7. CASE Finish
    BY <1>7, TransactionEnds DEF Finish, Return, Terminal, Outcomes
<1> QED BY <1>1, <1>2, <1>3, <1>4, <1>5, <1>6, <1>7 DEF ExecutionStep

LEMMA RollbackImplements ==
    ASSUME IInv, TypeOK', RollbackStep
    PROVE  OneShot!Next
<1>1. CASE RollbackWrite \/ RollbackReadback \/ RollbackRaises
    BY <1>1, OutsideDrops DEF RollbackWrite, RollbackReadback, RollbackRaises,
                              Return, storeVars
<1>2. CASE RollbackDone
    <2>1. cur \in Proposals
        BY <1>2 DEF RollbackDone, IInv, TypeOK, CallTypeOK
    <2>2. \A q \in Proposals : audit'[q] \cap Outcomes = audit[q] \cap Outcomes
        BY <1>2, <2>1, OtherRecord DEF RollbackDone, IInv
    <2>3. \/ Fetched(cur) = status[cur]
          \/ status[cur] # "absent" /\ Fetched(cur) \in Terminal
        BY FetchedIs DEF Terminal
    <2> QED BY <1>2, <2>1, <2>2, <2>3, GivenDrops DEF RollbackDone, Return
<1> QED BY <1>1, <1>2 DEF RollbackStep

LEMMA InitImplements == Init => OneShot!Init
<1> SUFFICES ASSUME Init PROVE OneShot!Init
    OBVIOUS
<1>1. \A p \in Proposals : TransactionState(p) = "absent"
    BY DEF Init, TransactionState
<1> QED BY <1>1 DEF Init, OneShot!Init

\* The write path implements the one-shot promise: whatever the calls, the
\* expiries, the emergencies, the rollbacks and the network do, every step of
\* it is a step of OneShotTransaction or leaves what that specification sees
\* unchanged.
THEOREM ImplementsOneShot == Spec => TransactionSpec
<1>1. IInv /\ TypeOK' /\ [Next]_vars => [OneShot!Next]_(OneShot!txVars)
    <2> SUFFICES ASSUME IInv, TypeOK', [Next]_vars
                 PROVE  [OneShot!Next]_(OneShot!txVars)
        OBVIOUS
    <2>1. CASE Environment \/ UNCHANGED vars
        <3>1. UNCHANGED oneShotVars
            BY <2>1 DEF Environment, TimePasses, Deliver, Lose, ManualChange,
                        vars, storeVars, callVars, traceVars, oneShotVars
        <3> QED BY <3>1, OneShotStutters
    <2> QED BY <2>1, CallDrops, ExecutionImplements, RollbackImplements
            DEF Next
<1>2. IInv => TypeOK
    BY DEF IInv
<1> QED BY <1>1, <1>2, InitImplements, Inductive, PTL
        DEF Spec, TransactionSpec, OneShot!Spec

-----------------------------------------------------------------------------
(* What is sent is what was proposed and allowed.                           *)

\* A stored proposal's operations and baseline are the ones it was stored with.
PlansStay ==
    [][\A p \in Proposals :
          Stored(p) => plan'[p] = plan[p] /\ base'[p] = base[p]]_vars

\* Only Propose gives a proposal its operations.
LEMMA PlanByPropose ==
    ASSUME [Next]_vars
    PROVE  \/ UNCHANGED <<plan, base>>
           \/ \E p \in Proposals, m \in HostModes, ops \in Plans, b \in 1..revision :
                  Propose(p, ops, m, b)
<1>1. CASE Call
    <2>1. ASSUME NEW p \in Proposals, NEW m \in HostModes,
                 ExecuteStart(p, m) \/ RollbackStart(p, m)
          PROVE  UNCHANGED <<plan, base>>
        BY <2>1 DEF ExecuteStart, RollbackStart, storeVars
    <2>2. ASSUME NEW p \in Proposals,
                 Verify(p) \/ ExecuteDenied(p) \/ ExecuteInEmergencyMode(p)
                     \/ RollbackDenied(p)
          PROVE  UNCHANGED <<plan, base>>
        BY <2>2 DEF Verify, ExecuteDenied, ExecuteInEmergencyMode,
                    RollbackDenied, Deny, storeVars
    <2>3. CASE EnterEmergency \/ ExitEmergencyToObserve
        BY <2>3 DEF EnterEmergency, ExitEmergencyToObserve, storeVars
    <2> QED BY <1>1, <2>1, <2>2, <2>3 DEF Call
<1>2. CASE ExecutionStep
    BY <1>2 DEF ExecutionStep, ReadForConflict, ConflictReadFails,
                ConflictsFound, NoConflicts, PolicyDenies, PolicyPasses,
                WriteOperation, ReadbackMatches, ReadbackDiffers,
                OperationRaises, Finish, FailTransaction, Deny, storeVars
<1>3. CASE RollbackStep
    BY <1>3 DEF RollbackStep, RollbackWrite, RollbackReadback, RollbackRaises,
                RollbackDone, storeVars
<1>4. CASE Environment \/ UNCHANGED vars
    BY <1>4 DEF Environment, TimePasses, Deliver, Lose, ManualChange, vars,
                storeVars
<1> QED BY <1>1, <1>2, <1>3, <1>4 DEF Next

\* Nothing edits a stored proposal: what is executed, read back and rolled
\* back is what the host had stored, against the baseline it gave then.
THEOREM PlansAreKept == Spec => PlansStay
<1>1. IInv /\ [Next]_vars =>
          [\A p \in Proposals :
              Stored(p) => plan'[p] = plan[p] /\ base'[p] = base[p]]_vars
    <2> SUFFICES ASSUME IInv, [Next]_vars, NEW p \in Proposals, Stored(p)
                 PROVE  plan'[p] = plan[p] /\ base'[p] = base[p]
        OBVIOUS
    <2>1. ASSUME NEW q \in Proposals, NEW m \in HostModes, NEW ops \in Plans,
                 NEW b \in 1..revision, Propose(q, ops, m, b)
          PROVE  plan'[p] = plan[p] /\ base'[p] = base[p]
        <3>1. p # q
            BY <2>1 DEF Propose
        <3> QED BY <2>1, <3>1 DEF Propose, IInv, TypeOK, StoreTypeOK
    <2> QED BY <2>1, PlanByPropose
<1> QED BY <1>1, Inductive, PTL DEF Spec, PlansStay

\* A transaction has its plan allowed in the mode of the call that runs it.
PolicyHeld ==
    pc \in {"write", "readback"} => PlanAllowed(plan[cur], mode)

LEMMA StepKeepsPolicy ==
    ASSUME IInv, PolicyHeld, [Next]_vars
    PROVE  PolicyHeld'
<1>1. CASE pc' \notin {"write", "readback"}
    BY <1>1 DEF PolicyHeld
<1>2. CASE UNCHANGED <<pc, cur, mode, plan>>
    BY <1>2 DEF PolicyHeld, PlanAllowed
<1>3. CASE PolicyPasses
    BY <1>3 DEF PolicyPasses, Stay, storeVars, PolicyHeld, PlanAllowed
<1>4. CASE WriteOperation \/ ReadbackMatches
    BY <1>4 DEF WriteOperation, ReadbackMatches, Stay, storeVars, PolicyHeld,
                PlanAllowed
<1>5. CASE Call
    <2>1. pc' \in {"idle", "conflicts", "rb_write"}
        BY <1>5 DEF Call, Propose, ExecuteStart, RollbackStart, Verify,
                    ExecuteDenied, ExecuteInEmergencyMode, RollbackDenied,
                    Deny, Return, Enter, EnterEmergency,
                    ExitEmergencyToObserve, callVars
    <2> QED BY <1>1, <2>1
<1>6. CASE \/ ReadForConflict \/ ConflictReadFails \/ ConflictsFound
           \/ NoConflicts \/ PolicyDenies \/ ReadbackDiffers
           \/ OperationRaises \/ Finish \/ RollbackStep
    BY <1>1, <1>6
    DEF ReadForConflict, ConflictReadFails, ConflictsFound, NoConflicts,
        PolicyDenies, ReadbackDiffers, OperationRaises, Finish, RollbackStep,
        RollbackWrite, RollbackReadback, RollbackRaises, RollbackDone,
        FailTransaction, Deny, Return
<1>7. CASE Environment \/ UNCHANGED vars
    BY <1>2, <1>7 DEF Environment, TimePasses, Deliver, Lose, ManualChange,
                      vars, storeVars, callVars
<1> QED BY <1>3, <1>4, <1>5, <1>6, <1>7 DEF Next, ExecutionStep

\* What a datagram may be when it is sent.
Planned(d) ==
    /\ d.proposal = cur
    /\ d.index \in DOMAIN plan[cur]
    /\ LET op == plan[cur][d.index] IN
       /\ d.path = op.path
       /\ IF d.origin = "execute"
          THEN /\ d.value = op.requested
               /\ OperationAllowed(ActionOf[op.path], op.before, op.requested,
                                   mode)
          ELSE d.value = op.before

\* Every write the bridge sends is an operation of the proposal the call is
\* for: an execution's with the requested value, allowed by the policy in the
\* mode of this very call; a rollback's with the value from before.
SendsAsPlanned == [][\A d \in inflight' \ inflight : Planned(d)]_vars

\* Two kinds of step send, each one datagram.
LEMMA SentBy ==
    ASSUME [Next]_vars, NEW d \in inflight' \ inflight
    PROVE  \/ WriteOperation /\ Send("execute", Op.requested)
           \/ RollbackWrite /\ Send("rollback", Op.before)
<1>1. CASE WriteOperation \/ RollbackWrite
    BY <1>1 DEF WriteOperation, RollbackWrite
<1>2. CASE Call
    <2>1. UNCHANGED inflight
        BY <1>2 DEF Call, Propose, ExecuteStart, RollbackStart, Verify,
                    ExecuteDenied, ExecuteInEmergencyMode, RollbackDenied,
                    Deny, EnterEmergency, ExitEmergencyToObserve, consoleVars
    <2> QED BY <2>1
<1>3. CASE (ExecutionStep /\ ~WriteOperation) \/ (RollbackStep /\ ~RollbackWrite)
    <2>1. UNCHANGED inflight
        BY <1>3 DEF ExecutionStep, ReadForConflict, ConflictReadFails,
                    ConflictsFound, NoConflicts, PolicyDenies, PolicyPasses,
                    ReadbackMatches, ReadbackDiffers, OperationRaises, Finish,
                    FailTransaction, Deny, RollbackStep, RollbackReadback,
                    RollbackRaises, RollbackDone, consoleVars
    <2> QED BY <2>1
<1>4. CASE Environment \/ UNCHANGED vars
    <2>1. inflight' \subseteq inflight
        BY <1>4 DEF Environment, TimePasses, Deliver, Lose, ManualChange, vars,
                    consoleVars
    <2> QED BY <2>1
<1> QED BY <1>1, <1>2, <1>3, <1>4 DEF Next

\* No write leaves the bridge but a stored operation's, and no execution's
\* that the policy does not allow in the mode its caller passed.
THEOREM OnlyPlannedWrites == Spec => SendsAsPlanned
<1>1. Init => PolicyHeld
    BY DEF Init, PolicyHeld
<1>2. IInv /\ PolicyHeld /\ [Next]_vars => PolicyHeld'
    BY StepKeepsPolicy
<1>3. IInv /\ PolicyHeld /\ [Next]_vars =>
          [\A d \in inflight' \ inflight : Planned(d)]_vars
    <2> SUFFICES ASSUME IInv, PolicyHeld, [Next]_vars,
                        NEW d \in inflight' \ inflight
                 PROVE  Planned(d)
        OBVIOUS
    <2>1. \/ WriteOperation /\ Send("execute", Op.requested)
          \/ RollbackWrite /\ Send("rollback", Op.before)
        BY SentBy
    <2>2. pc # "idle" /\ More
        BY <2>1 DEF WriteOperation, RollbackWrite
    <2>3. cur \in Proposals /\ k \in DOMAIN plan[cur]
        BY <2>2 DEF More, IInv, TypeOK, CallTypeOK, StoreTypeOK
    <2>4. CASE WriteOperation /\ Send("execute", Op.requested)
        <3>1. d = [origin |-> "execute", proposal |-> cur, index |-> k,
                   call |-> 0, path |-> Op.path, value |-> Op.requested]
            BY <2>4 DEF Send
        <3>2. OperationAllowed(ActionOf[Op.path], Op.before, Op.requested, mode)
            BY <2>3, <2>4 DEF WriteOperation, PolicyHeld, PlanAllowed, Op
        <3> QED BY <2>3, <3>1, <3>2 DEF Planned, Op
    <2>5. CASE RollbackWrite /\ Send("rollback", Op.before)
        <3>1. d = [origin |-> "rollback", proposal |-> cur, index |-> k,
                   call |-> rollbacks, path |-> Op.path, value |-> Op.before]
            BY <2>5 DEF Send
        <3> QED BY <2>3, <3>1 DEF Planned, Op
    <2> QED BY <2>1, <2>4, <2>5
<1> QED BY <1>1, <1>2, <1>3, Inductive, PTL DEF Spec, SendsAsPlanned

-----------------------------------------------------------------------------
(* How long a call can go on.                                               *)

\* Steps of its own the call in progress may still take: it reads every path
\* once, asks the policy, and sends and reads back every operation once.
Remaining ==
    LET ops == Len(plan[cur]) IN
    IF pc = "idle" THEN 0
    ELSE IF pc = "conflicts" THEN 3 * ops + 4 - k
    ELSE IF pc = "policy" THEN 2 * ops + 2
    ELSE IF pc \in {"write", "rb_write"} THEN 2 * (ops - k) + 3
    ELSE 2 * (ops - k) + 2

\* A call is at one of its operations, or just past the last of them.
InPlan ==
    pc # "idle" =>
        /\ k <= Len(plan[cur]) + 1
        /\ pc \in {"readback", "rb_readback"} => More

\* Every step of a call brings it nearer to its return, and nothing that
\* happens meanwhile outside it, at the console or on the network, puts the
\* return off: no call is held up by what it finds.
CallsShrink ==
    [][/\ ExecutionStep \/ RollbackStep => Remaining' < Remaining
       /\ Environment => Remaining' = Remaining]_vars

\* A new call has the whole of its plan ahead of it, and no more.
CallsBounded ==
    [][Call => Remaining' = 0 \/ Remaining' <= 3 * Len(plan'[cur']) + 3]_vars

LEMMA LengthOfPlan ==
    ASSUME TypeOK, pc # "idle"
    PROVE  Len(plan[cur]) \in Nat /\ k \in Nat /\ k >= 1
BY DEF TypeOK, StoreTypeOK, CallTypeOK

\* What each step of a call does to its place in the plan.
LEMMA CallStepIs ==
    ASSUME ExecutionStep \/ RollbackStep
    PROVE  /\ plan' = plan
           /\ pc # "idle"
           /\ \/ pc' = "idle"
              \/ /\ cur' = cur
                 /\ \/ pc = "conflicts" /\ pc' = "conflicts" /\ More
                       /\ k' = k + 1
                    \/ pc = "conflicts" /\ pc' = "policy" /\ ~More /\ k' = 1
                    \/ pc = "policy" /\ pc' = "write" /\ k' = k
                    \/ pc = "write" /\ pc' = "readback" /\ More /\ k' = k
                    \/ pc = "readback" /\ pc' = "write" /\ k' = k + 1
                    \/ pc = "rb_write" /\ pc' = "rb_readback" /\ More /\ k' = k
                    \/ pc = "rb_readback" /\ pc' = "rb_write" /\ k' = k + 1
<1>1. CASE ReadForConflict \/ ConflictReadFails \/ ConflictsFound \/ NoConflicts
    BY <1>1 DEF ReadForConflict, ConflictReadFails, ConflictsFound,
                NoConflicts, Deny, Return, Stay, storeVars
<1>2. CASE PolicyDenies \/ PolicyPasses \/ Finish
    BY <1>2 DEF PolicyDenies, PolicyPasses, Finish, Deny, Return, Stay,
                storeVars
<1>3. CASE WriteOperation \/ ReadbackMatches
    BY <1>3 DEF WriteOperation, ReadbackMatches, Stay, storeVars
<1>4. CASE ReadbackDiffers \/ OperationRaises
    BY <1>4 DEF ReadbackDiffers, OperationRaises, FailTransaction, Return
<1>5. CASE RollbackStep
    BY <1>5 DEF RollbackStep, RollbackWrite, RollbackReadback, RollbackRaises,
                RollbackDone, Return, Stay, storeVars
<1> QED BY <1>1, <1>2, <1>3, <1>4, <1>5 DEF ExecutionStep

\* A call either ends where it began or enters at the first operation.
LEMMA CallEnters ==
    ASSUME Call
    PROVE  /\ pc = "idle"
           /\ \/ pc' = "idle"
              \/ /\ pc' \in {"conflicts", "rb_write"}
                 /\ k' = 1
                 /\ UNCHANGED plan
<1>1. ASSUME NEW p \in Proposals, NEW m \in HostModes,
             \/ \E ops \in Plans, b \in 1..revision : Propose(p, ops, m, b)
             \/ ExecuteStart(p, m)
             \/ RollbackStart(p, m)
      PROVE  /\ pc = "idle"
             /\ \/ pc' = "idle"
                \/ /\ pc' \in {"conflicts", "rb_write"}
                   /\ k' = 1
                   /\ UNCHANGED plan
    BY <1>1 DEF Propose, ExecuteStart, RollbackStart, Enter, callVars,
                storeVars
<1>2. ASSUME NEW p \in Proposals,
             Verify(p) \/ ExecuteDenied(p) \/ ExecuteInEmergencyMode(p)
                 \/ RollbackDenied(p)
      PROVE  pc = "idle" /\ pc' = "idle"
    BY <1>2 DEF Verify, ExecuteDenied, ExecuteInEmergencyMode, RollbackDenied,
                Deny, Return, callVars
<1>3. CASE EnterEmergency \/ ExitEmergencyToObserve
    BY <1>3 DEF EnterEmergency, ExitEmergencyToObserve, callVars
<1> QED BY <1>1, <1>2, <1>3 DEF Call

LEMMA EnvironmentLeavesCalls ==
    ASSUME Environment \/ UNCHANGED vars
    PROVE  UNCHANGED <<plan, pc, cur, k>>
BY DEF Environment, TimePasses, Deliver, Lose, ManualChange, vars, storeVars,
       callVars

LEMMA StepKeepsInPlan ==
    ASSUME IInv, TypeOK', InPlan, [Next]_vars
    PROVE  InPlan'
<1>1. CASE pc' = "idle"
    BY <1>1 DEF InPlan
<1>2. CASE Call /\ pc' # "idle"
    <2>1. k' = 1 /\ pc' \in {"conflicts", "rb_write"}
        BY <1>2, CallEnters
    <2>2. Len(plan'[cur']) \in Nat
        BY <1>2 DEF TypeOK, StoreTypeOK, CallTypeOK
    <2> QED BY <2>1, <2>2 DEF InPlan
<1>3. CASE (ExecutionStep \/ RollbackStep) /\ pc' # "idle"
    <2>1. Len(plan[cur]) \in Nat /\ k \in Nat /\ k >= 1
        BY <1>3, CallStepIs, LengthOfPlan DEF IInv
    <2> QED BY <1>3, <2>1, CallStepIs DEF InPlan, More, IInv, Safety, PolicyAtFirst
<1>4. CASE Environment \/ UNCHANGED vars
    BY <1>4, EnvironmentLeavesCalls DEF InPlan, More
<1> QED BY <1>1, <1>2, <1>3, <1>4 DEF Next

\* The number of steps left is a number: it cannot fall for ever.
THEOREM CallsAreBounded == Spec => [](Remaining \in Nat) /\ CallsBounded
<1>1. Init => InPlan
    BY DEF Init, InPlan
<1>2. IInv /\ TypeOK' /\ InPlan /\ [Next]_vars => InPlan'
    BY StepKeepsInPlan
<1>3. IInv => TypeOK
    BY DEF IInv
<1>4. TypeOK /\ InPlan => Remaining \in Nat
    <2> SUFFICES ASSUME TypeOK, InPlan PROVE Remaining \in Nat
        OBVIOUS
    <2>1. CASE pc = "idle"
        BY <2>1 DEF Remaining
    <2>2. CASE pc # "idle"
        <3>1. pc \in PCs
            BY DEF TypeOK, CallTypeOK
        <3>2. Len(plan[cur]) \in Nat /\ k \in Nat /\ k >= 1
            BY <2>2, LengthOfPlan
        <3>3. /\ k <= Len(plan[cur]) + 1
              /\ pc \in {"readback", "rb_readback"} => k <= Len(plan[cur])
            BY <2>2 DEF InPlan, More
        <3>4. CASE pc \in {"conflicts", "policy"}
            BY <3>2, <3>3, <3>4 DEF Remaining
        <3>5. CASE pc \in {"write", "rb_write"}
            BY <3>2, <3>3, <3>5 DEF Remaining
        <3>6. CASE pc \in {"readback", "rb_readback"}
            BY <3>2, <3>3, <3>6 DEF Remaining
        <3> QED BY <2>2, <3>1, <3>4, <3>5, <3>6 DEF PCs
    <2> QED BY <2>1, <2>2
<1>5. TypeOK' /\ [Next]_vars =>
          [Call => Remaining' = 0 \/ Remaining' <= 3 * Len(plan'[cur']) + 3]_vars
    <2> SUFFICES ASSUME TypeOK', Call
                 PROVE  Remaining' = 0 \/ Remaining' <= 3 * Len(plan'[cur']) + 3
        OBVIOUS
    <2>1. CASE pc' = "idle"
        BY <2>1 DEF Remaining
    <2>2. CASE pc' # "idle"
        <3>1. k' = 1 /\ pc' \in {"conflicts", "rb_write"}
            BY <2>2, CallEnters
        <3>2. Len(plan'[cur']) \in Nat
            BY <2>2 DEF TypeOK, StoreTypeOK, CallTypeOK
        <3> QED BY <3>1, <3>2 DEF Remaining
    <2> QED BY <2>1, <2>2
<1> QED BY <1>1, <1>2, <1>3, <1>4, <1>5, Inductive, PTL
        DEF Spec, CallsBounded

\* The measure behind CallsReturn and WrittenSettles: whatever the console,
\* its operator and the network do, a call that goes on comes to its end, for
\* a plan of any length.
THEOREM EveryStepShrinksTheCall == Spec => CallsShrink
<1>1. Init => InPlan
    BY DEF Init, InPlan
<1>2. IInv /\ TypeOK' /\ InPlan /\ [Next]_vars => InPlan'
    BY StepKeepsInPlan
<1>3. IInv => TypeOK
    BY DEF IInv
<1>4. TypeOK /\ InPlan /\ [Next]_vars =>
          [/\ ExecutionStep \/ RollbackStep => Remaining' < Remaining
           /\ Environment => Remaining' = Remaining]_vars
    <2>1. ASSUME TypeOK, InPlan, ExecutionStep \/ RollbackStep
          PROVE  Remaining' < Remaining
        <3>1. Len(plan[cur]) \in Nat /\ k \in Nat /\ k >= 1
            BY <2>1, CallStepIs, LengthOfPlan
        <3>2. k <= Len(plan[cur]) + 1
            BY <2>1, CallStepIs DEF InPlan
        <3>3. pc \in PCs /\ pc # "idle"
            BY <2>1, CallStepIs DEF TypeOK, CallTypeOK
        <3>4. pc \in {"readback", "rb_readback"} => More
            BY <2>1, <3>3 DEF InPlan
        <3>5. Remaining > 0
            BY <3>1, <3>2, <3>3, <3>4 DEF Remaining, PCs, More
        <3>6. CASE pc' = "idle"
            BY <3>5, <3>6 DEF Remaining
        <3>7. CASE pc' # "idle"
            <4>1. plan' = plan /\ cur' = cur
                BY <2>1, <3>7, CallStepIs
            <4>2. Len(plan'[cur']) = Len(plan[cur])
                BY <4>1
            <4>3. CASE pc = "conflicts"
                <5>1. \/ pc' = "conflicts" /\ More /\ k' = k + 1
                      \/ pc' = "policy" /\ ~More /\ k' = 1
                    BY <2>1, <3>7, <4>3, CallStepIs
                <5>2. CASE pc' = "conflicts" /\ k' = k + 1
                    BY <3>1, <4>2, <4>3, <5>2 DEF Remaining
                <5>3. CASE pc' = "policy"
                    BY <3>1, <3>2, <4>2, <4>3, <5>3 DEF Remaining
                <5> QED BY <5>1, <5>2, <5>3
            <4>6. CASE pc = "policy"
                <5>1. pc' = "write" /\ k' = k
                    BY <2>1, <3>7, <4>6, CallStepIs
                <5> QED BY <3>1, <4>2, <4>6, <5>1 DEF Remaining
            <4>4. CASE pc \in {"write", "readback"}
                BY <2>1, <3>1, <3>7, <4>2, <4>4, CallStepIs
                DEF Remaining, More
            <4>5. CASE pc \in {"rb_write", "rb_readback"}
                BY <2>1, <3>1, <3>7, <4>2, <4>5, CallStepIs
                DEF Remaining, More
            <4> QED BY <3>3, <4>3, <4>4, <4>5, <4>6 DEF PCs
        <3> QED BY <3>6, <3>7
    <2>2. ASSUME Environment
          PROVE  Remaining' = Remaining
        BY <2>2, EnvironmentLeavesCalls DEF Remaining
    <2> QED BY <2>1, <2>2
<1> QED BY <1>1, <1>2, <1>3, <1>4, Inductive, PTL DEF Spec, CallsShrink

-----------------------------------------------------------------------------
(* What reaches the console.                                                *)

\* A datagram on its way, however late: an operation of a stored proposal, as
\* it was stored; an execution's within the range of its action.
FromPlan(d) ==
    /\ Stored(d.proposal)
    /\ d.index \in DOMAIN plan[d.proposal]
    /\ LET op == plan[d.proposal][d.index] IN
       /\ d.path = op.path
       /\ d.origin = "rollback" => d.value = op.before
       /\ d.origin = "execute" =>
              /\ d.value = op.requested
              /\ WithinBounds(ActionOf[op.path], op.before, d.value,
                              "SOUNDCHECK")

FlightsFromPlans == \A d \in inflight : FromPlan(d)

\* The console's values change by hand, or to what a stored proposal says of
\* that path: nothing else that the bridge does, and no datagram delivered
\* after its call or its proposal is over, moves anything.
MovedByPlanOrHand ==
    [][\A path \in Paths :
          value'[path] # value[path] =>
              \/ manuals' = manuals + 1
              \/ \E d \in inflight :
                     FromPlan(d) /\ d.path = path /\ value'[path] = d.value]_vars

\* Whatever its status has become, a stored proposal was allowed.
PlansAllowed == \A p \in Proposals : PlanAllowed(plan[p], "SOUNDCHECK")

\* The second look at the policy denies nothing that the first one let through,
\* but in a call that is not made in SOUNDCHECK.
DeniedOutsideSoundcheck ==
    [][\A p \in Proposals :
          status'[p] = "POLICY_DENIED" /\ status[p] # "POLICY_DENIED" =>
              cur = p /\ mode \in {"OBSERVE", "LIVE"}]_vars

\* What is allowed in any mode is allowed in SOUNDCHECK.
LEMMA SoundcheckAllowsMost ==
    ASSUME NEW a, NEW b, NEW r, NEW m, OperationAllowed(a, b, r, m)
    PROVE  OperationAllowed(a, b, r, "SOUNDCHECK")
BY DEF OperationAllowed, WithinBounds, PolicyAllows

\* What a step may make of one proposal's status.
LEMMA StatusMoves ==
    ASSUME IInv, [Next]_vars, NEW p \in Proposals
    PROVE  \/ status'[p] = status[p]
           \/ status[p] = "absent" /\ status'[p] = "PENDING_APPROVAL"
           \/ /\ status[p] # "absent" /\ status'[p] \in Terminal
              /\ status'[p] = "POLICY_DENIED" => PolicyDenies /\ cur = p
<1> DEFINE Moves(old, new) ==
        \/ new = old
        \/ old = "absent" /\ new = "PENDING_APPROVAL"
        \/ old # "absent" /\ new \in Terminal \ {"POLICY_DENIED"}
<1>0. StoreTypeOK /\ CallTypeOK
    BY DEF IInv, TypeOK
<1>1. ASSUME NEW q \in Proposals, NEW s, Moves(status[q], s),
             status' = [status EXCEPT ![q] = s]
      PROVE  Moves(status[p], status'[p])
    BY <1>0, <1>1 DEF StoreTypeOK
<1>2. CASE UNCHANGED status
    BY <1>2
<1>3. \A q \in Proposals : Moves(status[q], Fetched(q))
    BY FetchedIs DEF Terminal
<1>4. pc # "idle" => cur \in Proposals /\ status[cur] # "absent"
    BY <1>0 DEF CallTypeOK, IInv, Safety, CallIsStored
<1>5. ASSUME NEW q \in Proposals, NEW m \in HostModes, NEW ops \in Plans,
             NEW b \in 1..revision, Propose(q, ops, m, b)
      PROVE  Moves(status[p], status'[p])
    <2>1. Moves(status[q], "PENDING_APPROVAL")
        BY <1>5 DEF Propose, Stored
    <2> QED BY <1>1, <1>5, <2>1 DEF Propose
<1>6. ASSUME NEW q \in Proposals, NEW m \in HostModes,
             ExecuteStart(q, m) \/ RollbackStart(q, m)
      PROVE  Moves(status[p], status'[p])
    BY <1>1, <1>2, <1>3, <1>6 DEF ExecuteStart, RollbackStart, storeVars
<1>7. ASSUME NEW q \in Proposals, Verify(q) \/ ExecuteDenied(q)
      PROVE  Moves(status[p], status'[p])
    BY <1>1, <1>3, <1>7 DEF Verify, ExecuteDenied, Deny
<1>8. ASSUME NEW q \in Proposals, ExecuteInEmergencyMode(q)
      PROVE  Moves(status[p], status'[p])
    <2> DEFINE s == IF Stored(q) THEN "CANCELLED_BY_EMERGENCY" ELSE status[q]
    <2>1. Moves(status[q], s)
        BY DEF Stored, Terminal
    <2>2. status' = [status EXCEPT ![q] = s]
        BY <1>8 DEF ExecuteInEmergencyMode, Deny
    <2> HIDE DEF s
    <2> QED BY <1>1, <2>1, <2>2
<1>9. CASE EnterEmergency
    BY <1>9 DEF EnterEmergency, Cancelled, Terminal
<1>10. CASE ConflictsFound \/ ReadbackDiffers \/ OperationRaises \/ Finish
    <2>1. cur \in Proposals /\ status[cur] # "absent"
        BY <1>4, <1>10 DEF ConflictsFound, ReadbackDiffers, OperationRaises,
                           Finish
    <2>2. \A s \in {"CONFLICTED", "READBACK_FAILED", "USED"} :
              Moves(status[cur], s)
        BY <2>1 DEF Terminal
    <2>3. \E s \in {"CONFLICTED", "READBACK_FAILED", "USED"} :
              status' = [status EXCEPT ![cur] = s]
        BY <1>10 DEF ConflictsFound, ReadbackDiffers, OperationRaises,
                     FailTransaction, Finish, Deny
    <2> QED BY <1>1, <2>1, <2>2, <2>3
<1>11. CASE RollbackDone
    <2>1. cur \in Proposals
        BY <1>4, <1>11 DEF RollbackDone
    <2> QED BY <1>1, <1>3, <1>11, <2>1 DEF RollbackDone
<1>12. CASE \/ ExitEmergencyToObserve
            \/ \E q \in Proposals : RollbackDenied(q)
            \/ ReadForConflict \/ ConflictReadFails \/ NoConflicts
            \/ PolicyPasses \/ WriteOperation \/ ReadbackMatches
            \/ RollbackWrite \/ RollbackReadback \/ RollbackRaises
            \/ Environment \/ UNCHANGED vars
    BY <1>12
    DEF ExitEmergencyToObserve, RollbackDenied, ReadForConflict,
        ConflictReadFails, NoConflicts, PolicyPasses, WriteOperation,
        ReadbackMatches, RollbackWrite, RollbackReadback, RollbackRaises,
        Environment, TimePasses, Deliver, Lose, ManualChange, vars, storeVars
<1>13. CASE PolicyDenies
    <2>1. cur \in Proposals /\ status[cur] # "absent"
        BY <1>4, <1>13 DEF PolicyDenies
    <2>2. status' = [status EXCEPT ![cur] = "POLICY_DENIED"]
        BY <1>13 DEF PolicyDenies, Deny
    <2>3. CASE p = cur
        BY <1>0, <1>13, <2>1, <2>2, <2>3 DEF StoreTypeOK, Terminal
    <2>4. CASE p # cur
        BY <1>0, <2>2, <2>4 DEF StoreTypeOK
    <2> QED BY <2>3, <2>4
<1>14. CASE Moves(status[p], status'[p])
    BY <1>14
<1> HIDE DEF Moves
<1>15. CASE Call
    BY <1>5, <1>6, <1>7, <1>8, <1>9, <1>12, <1>14, <1>15 DEF Call
<1>16. CASE ExecutionStep
    BY <1>10, <1>12, <1>13, <1>16 DEF ExecutionStep
<1>17. CASE RollbackStep
    BY <1>11, <1>12, <1>17 DEF RollbackStep
<1> QED BY <1>12, <1>15, <1>16, <1>17 DEF Next

\* A plan is only given to a proposal, and only when it is allowed.
LEMMA StepKeepsAllowed ==
    ASSUME IInv, PlansAllowed, [Next]_vars
    PROVE  PlansAllowed'
<1>1. CASE UNCHANGED plan
    BY <1>1 DEF PlansAllowed, PlanAllowed
<1>2. ASSUME NEW q \in Proposals, NEW m \in HostModes, NEW ops \in Plans,
             NEW b \in 1..revision, Propose(q, ops, m, b)
      PROVE  PlansAllowed'
    <2>1. PlanAllowed(ops, "SOUNDCHECK")
        BY <1>2, SoundcheckAllowsMost DEF Propose, PlanAllowed
    <2>2. plan' = [plan EXCEPT ![q] = ops] /\ plan \in [Proposals -> Seq(Operations)]
        BY <1>2 DEF Propose, IInv, TypeOK, StoreTypeOK
    <2>3. \A p \in Proposals : plan'[p] = IF p = q THEN ops ELSE plan[p]
        BY <2>2
    <2>4. \A p \in Proposals : PlanAllowed(plan'[p], "SOUNDCHECK")
        BY <2>1, <2>3 DEF PlansAllowed
    <2> QED BY <2>4 DEF PlansAllowed, PlanAllowed
<1> QED BY <1>1, <1>2, PlanByPropose

\* A stored proposal's datagrams stay its own.
LEMMA StepKeepsFlights ==
    ASSUME IInv, PolicyHeld, FlightsFromPlans, [Next]_vars
    PROVE  FlightsFromPlans'
<1>0. inflight \subseteq Datagrams
    BY DEF IInv, TypeOK, ConsoleTypeOK
<1>1. ASSUME NEW p \in Proposals, Stored(p)
      PROVE  status'[p] # "absent" /\ plan'[p] = plan[p]
    <2>1. status'[p] # "absent"
        BY <1>1, StatusMoves DEF Stored, Terminal
    <2>2. CASE UNCHANGED plan
        BY <2>1, <2>2
    <2>3. ASSUME NEW q \in Proposals, NEW m \in HostModes, NEW ops \in Plans,
                 NEW b \in 1..revision, Propose(q, ops, m, b)
          PROVE  plan'[p] = plan[p]
        BY <1>1, <2>3 DEF Propose, IInv, TypeOK, StoreTypeOK
    <2> QED BY <2>1, <2>2, <2>3, PlanByPropose
<1>2. ASSUME NEW d \in inflight
      PROVE  FromPlan(d)'
    <2>1. d.proposal \in Proposals
        BY <1>0 DEF Datagrams
    <2>2. FromPlan(d)
        BY DEF FlightsFromPlans
    <2>3. status'[d.proposal] # "absent" /\ plan'[d.proposal] = plan[d.proposal]
        BY <1>1, <2>1, <2>2 DEF FromPlan
    <2> QED BY <2>2, <2>3 DEF FromPlan, Stored
<1>3. ASSUME NEW d \in inflight' \ inflight
      PROVE  FromPlan(d)'
    <2>1. \/ WriteOperation /\ Send("execute", Op.requested)
          \/ RollbackWrite /\ Send("rollback", Op.before)
        BY SentBy
    <2>2. pc # "idle" /\ More
        BY <2>1 DEF WriteOperation, RollbackWrite
    <2>3. cur \in Proposals /\ k \in DOMAIN plan[cur] /\ Stored(cur)
        BY <2>2 DEF More, IInv, TypeOK, CallTypeOK, StoreTypeOK, Safety,
                    CallIsStored, Stored
    <2>4. /\ d.proposal = cur /\ d.index = k /\ d.path = Op.path
          /\ \/ d.origin = "execute" /\ WriteOperation /\ d.value = Op.requested
             \/ d.origin = "rollback" /\ d.value = Op.before
        BY <2>1 DEF Send
    <2>5. d.origin = "execute" =>
              WithinBounds(ActionOf[Op.path], Op.before, d.value, "SOUNDCHECK")
        <3> SUFFICES ASSUME WriteOperation, d.value = Op.requested
                     PROVE  WithinBounds(ActionOf[Op.path], Op.before,
                                         Op.requested, "SOUNDCHECK")
            BY <2>4
        <3>1. OperationAllowed(ActionOf[Op.path], Op.before, Op.requested, mode)
            BY <2>3 DEF WriteOperation, PolicyHeld, PlanAllowed, Op
        <3> QED BY <3>1, SoundcheckAllowsMost DEF OperationAllowed
    <2>6. status'[cur] # "absent" /\ plan'[cur] = plan[cur]
        BY <1>1, <2>3
    <2> QED BY <2>3, <2>4, <2>5, <2>6 DEF FromPlan, Stored, Op
<1> QED BY <1>2, <1>3 DEF FlightsFromPlans

\* Whatever is in flight, however late and whatever has become of its proposal
\* and its call, is what was proposed, and an execution's is in range.
THEOREM FlightsArePlanned == Spec => []FlightsFromPlans
<1>1. Init => PolicyHeld /\ FlightsFromPlans
    BY DEF Init, PolicyHeld, FlightsFromPlans
<1>2. IInv /\ PolicyHeld /\ FlightsFromPlans /\ [Next]_vars =>
          PolicyHeld' /\ FlightsFromPlans'
    BY StepKeepsPolicy, StepKeepsFlights
<1> QED BY <1>1, <1>2, Inductive, PTL DEF Spec

\* The console moves by hand or by what was proposed, and by nothing else.
THEOREM MovesAreAccounted == Spec => MovedByPlanOrHand
<1>1. IInv /\ FlightsFromPlans /\ [Next]_vars =>
          [\A path \in Paths :
              value'[path] # value[path] =>
                  \/ manuals' = manuals + 1
                  \/ \E d \in inflight :
                         FromPlan(d) /\ d.path = path /\ value'[path] = d.value]_vars
    <2> SUFFICES ASSUME IInv, FlightsFromPlans, [Next]_vars,
                        NEW path \in Paths, value'[path] # value[path],
                        manuals' # manuals + 1
                 PROVE  \E d \in inflight :
                            /\ FromPlan(d) /\ d.path = path
                            /\ value'[path] = d.value
        OBVIOUS
    <2>1. Environment
        BY BridgeStep DEF Next, vars, consoleVars, IInv, TypeOK
    <2>2. PICK d \in inflight : Deliver(d)
        BY <2>1 DEF Environment, TimePasses, Lose, ManualChange, consoleVars
    <2>3. d.path = path /\ value'[path] = d.value
        BY <2>2 DEF Deliver, IInv, TypeOK, ConsoleTypeOK
    <2> QED BY <2>3 DEF FlightsFromPlans
<1> QED BY <1>1, Inductive, FlightsArePlanned, PTL DEF Spec, MovedByPlanOrHand

\* No call that has started is one in EMERGENCY mode.
StartedOutsideEmergency == pc # "idle" => mode # "EMERGENCY"

LEMMA StepKeepsMode ==
    ASSUME StartedOutsideEmergency, [Next]_vars
    PROVE  StartedOutsideEmergency'
<1>1. CASE UNCHANGED <<pc, mode>>
    BY <1>1 DEF StartedOutsideEmergency
<1>2. CASE pc' = "idle"
    BY <1>2 DEF StartedOutsideEmergency
<1>3. CASE mode' = mode /\ pc # "idle"
    BY <1>3 DEF StartedOutsideEmergency
<1>4. CASE Call
    <2>1. ASSUME NEW p \in Proposals, NEW m \in HostModes,
                 ExecuteStart(p, m) \/ RollbackStart(p, m)
          PROVE  mode' # "EMERGENCY"
        BY <2>1 DEF ExecuteStart, RollbackStart, Enter
    <2>2. \/ \E p \in Proposals, m \in HostModes :
                 ExecuteStart(p, m) \/ RollbackStart(p, m)
          \/ pc' = "idle"
          \/ UNCHANGED <<pc, mode>>
        BY <1>4 DEF Call, Propose, Verify, ExecuteDenied,
                    ExecuteInEmergencyMode, RollbackDenied, Deny, Return,
                    EnterEmergency, ExitEmergencyToObserve, callVars
    <2> QED BY <1>1, <1>2, <2>1, <2>2 DEF StartedOutsideEmergency
<1>5. CASE ExecutionStep
    BY <1>2, <1>3, <1>5
    DEF ExecutionStep, ReadForConflict, ConflictReadFails, ConflictsFound,
        NoConflicts, PolicyDenies, PolicyPasses, WriteOperation,
        ReadbackMatches, ReadbackDiffers, OperationRaises, Finish,
        FailTransaction, Deny, Return, Stay
<1>6. CASE RollbackStep
    BY <1>2, <1>3, <1>6
    DEF RollbackStep, RollbackWrite, RollbackReadback, RollbackRaises,
        RollbackDone, Return, Stay
<1>7. CASE Environment \/ UNCHANGED vars
    BY <1>1, <1>7 DEF Environment, TimePasses, Deliver, Lose, ManualChange,
                      vars, callVars
<1> QED BY <1>4, <1>5, <1>6, <1>7 DEF Next

\* A proposal that could be stored is denied by the policy only when the host
\* executes it in another mode than SOUNDCHECK.
THEOREM DenialNeedsAnotherMode == Spec => DeniedOutsideSoundcheck
<1>1. Init => PlansAllowed /\ StartedOutsideEmergency
    <2>1. Init => \A p \in Proposals : plan[p] = <<>>
        BY DEF Init
    <2> QED BY <2>1 DEF Init, PlansAllowed, PlanAllowed, StartedOutsideEmergency
<1>2. IInv /\ PlansAllowed /\ StartedOutsideEmergency /\ [Next]_vars =>
          PlansAllowed' /\ StartedOutsideEmergency'
    BY StepKeepsAllowed, StepKeepsMode
<1>3. IInv /\ PlansAllowed /\ StartedOutsideEmergency /\ [Next]_vars =>
          [\A p \in Proposals :
              status'[p] = "POLICY_DENIED" /\ status[p] # "POLICY_DENIED" =>
                  cur = p /\ mode \in {"OBSERVE", "LIVE"}]_vars
    <2> SUFFICES ASSUME IInv, PlansAllowed, StartedOutsideEmergency,
                        [Next]_vars, NEW p \in Proposals,
                        status'[p] = "POLICY_DENIED",
                        status[p] # "POLICY_DENIED"
                 PROVE  cur = p /\ mode \in {"OBSERVE", "LIVE"}
        OBVIOUS
    <2>1. PolicyDenies /\ cur = p
        BY StatusMoves
    <2>2. mode \in Modes /\ mode # "EMERGENCY"
        BY <2>1 DEF PolicyDenies, StartedOutsideEmergency, IInv, TypeOK,
                    CallTypeOK
    <2>3. mode # "SOUNDCHECK"
        BY <2>1 DEF PolicyDenies, PlansAllowed
    <2> QED BY <2>1, <2>2, <2>3 DEF Modes
<1> QED BY <1>1, <1>2, <1>3, Inductive, PTL DEF Spec, DeniedOutsideSoundcheck
=============================================================================
