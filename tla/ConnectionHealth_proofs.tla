----------------------- MODULE ConnectionHealth_proofs -----------------------
(***************************************************************************)
(* Proofs about ConnectionHealth, for any items asked about and any        *)
(* parameters of the reconnection: the flags agree, and the connection     *)
(* implements WriteGate.                                                   *)
(***************************************************************************)
EXTENDS ConnectionHealth, TLAPS

LEMMA ItemsFacts ==
    /\ Len(Items) \in Nat \ {0}
    /\ \A i \in 1..Len(Items) : Items[i] \in Asked
    /\ Asked = {Items[i] : i \in 1..Len(Items)}
<1>1. Items \in Seq(STRING) /\ Items # <<>>
    BY ConnectionAssumption
<1>2. DOMAIN Items = 1..Len(Items) /\ Len(Items) \in Nat
    BY <1>1
<1>3. Len(Items) # 0
    BY <1>1
<1> QED BY <1>2, <1>3 DEF Asked

LEMMA AttemptsFacts == Attempts \in Nat \ {0}
BY ConnectionAssumption DEF Attempts

\* A call that ends leaves its variables at rest.
LEMMA ReturnKeepsType ==
    ASSUME Return
    PROVE  /\ pc' = "idle"
           /\ n' \in 1..(Len(Items) + 1)
           /\ retrying' \in BOOLEAN
           /\ attempt' \in 1..Attempts
           /\ delay' \in Nat
           /\ slept' \in Seq(Nat)
<1>1. retrying' \in BOOLEAN
    BY Zenon DEF Return
<1> QED BY <1>1, ItemsFacts, AttemptsFacts, ConnectionAssumption DEF Return

\* What the flags can become.
LEMMA LockedType ==
    ASSUME NEW c \in BOOLEAN, NEW s \in BOOLEAN
    PROVE  Locked(c, s) \in Health
BY DEF Locked, Health

\* Every method of the emergency controller leaves it a controller.
LEMMA ControllerType ==
    ASSUME controller \in Controllers, NEW mode
    PROVE  /\ Unlocked(mode) \in Controllers
           /\ InEmergency \in Controllers
           /\ BackInObserve \in Controllers
           /\ [controller EXCEPT !.write_locked = TRUE] \in Controllers
<1>1. Allowed \in BOOLEAN
    BY Zenon DEF Allowed
<1>2. Unlocked(mode) \in Controllers
    BY <1>1, Zenon DEF Unlocked, Controllers
<1>3. InEmergency \in Controllers /\ BackInObserve \in Controllers
    BY DEF InEmergency, BackInObserve, InitialController, Controllers, Modes
<1>4. [controller EXCEPT !.write_locked = TRUE] \in Controllers
    BY DEF Controllers
<1> QED BY <1>2, <1>3, <1>4

LEMMA InitInv == Init => CInv
<1> SUFFICES ASSUME Init PROVE CInv
    OBVIOUS
<1>1. TypeOK
    <2>1. retrying \in BOOLEAN /\ settled \in BOOLEAN
        BY Zenon DEF Init
    <2>2. health \in Health /\ controller \in Controllers
        BY DEF Init, Health, InitialController, Controllers, Modes
    <2> QED BY <2>1, <2>2, ItemsFacts, AttemptsFacts, ConnectionAssumption
            DEF Init, TypeOK
<1>2. /\ UnlockedMeansReconciled /\ UnlockedOutsideEmergency /\ AnswersCounted
      /\ ObserveIsCalm
    BY DEF Init, UnlockedMeansReconciled, UnlockedOutsideEmergency,
           AnswersCounted, ObserveIsCalm, InitialController
<1>3. SleepsCounted /\ BackoffBounded
    BY AttemptsFacts DEF Init, SleepsCounted, BackoffBounded
<1> QED BY <1>1, <1>2, <1>3 DEF CInv

\* Only BackoffOver sleeps.
LEMMA SleepsKept ==
    ASSUME SleepsCounted, BackoffBounded,
           \/ Return
           \/ UNCHANGED <<attempt, delay, slept>>,
           pc' = "backoff" => attempt' < Attempts
    PROVE  SleepsCounted' /\ BackoffBounded'
<1>1. CASE Return
    BY <1>1, AttemptsFacts DEF Return, SleepsCounted, BackoffBounded
<1>2. CASE UNCHANGED <<attempt, delay, slept>>
    BY <1>2 DEF SleepsCounted, BackoffBounded
<1> QED BY <1>1, <1>2

LEMMA BackoffKeepsInv ==
    ASSUME CInv, BackoffOver
    PROVE  CInv'
<1> USE DEF CInv, BackoffOver
<1> DEFINE m == Len(slept)
<1>1. /\ attempt \in Nat /\ attempt < Attempts /\ Attempts \in Nat
      /\ delay \in Nat /\ slept \in Seq(Nat) /\ MaxBackoff \in Nat
      /\ m \in Nat /\ m = attempt - 1
    BY AttemptsFacts, ConnectionAssumption DEF SleepsCounted, TypeOK
<1>2. /\ slept' \in Seq(Nat) /\ Len(slept') = m + 1
      /\ slept'[m + 1] = delay
      /\ \A i \in 1..m : slept'[i] = slept[i]
    BY <1>1
<1>3. delay' \in Nat
    BY <1>1
<1>4. \/ delay' = MaxBackoff
      \/ delay' <= MaxBackoff /\ delay' = 2 * delay
    BY <1>1
<1>5. TypeOK'
    <2>1. n' \in 1..(Len(Items) + 1) /\ attempt' \in 1..Attempts
        BY <1>1, ItemsFacts
    <2> QED BY <1>2, <1>3, <2>1 DEF TypeOK
<1>6. UnlockedMeansReconciled' /\ UnlockedOutsideEmergency' /\ ObserveIsCalm'
    BY DEF UnlockedMeansReconciled, UnlockedOutsideEmergency, ObserveIsCalm
<1>7. AnswersCounted'
    <2>1. answered = {}
        BY DEF AnswersCounted
    <2>2. pc' = "reconcile" /\ n' - 1 = 0 /\ answered' = {}
        BY <2>1
    <2>3. {Items[i] : i \in 1..0} = {}
        OBVIOUS
    <2> QED BY <2>2, <2>3 DEF AnswersCounted
<1>8. SleepsCounted'
    BY <1>1, <1>2, <1>4 DEF SleepsCounted
<1>9. BackoffBounded'
    <2>1. ASSUME NEW i \in 1..(m + 1)
          PROVE  slept'[i] <= MaxBackoff \/ i = 1
        <3>1. CASE i \in 1..m
            BY <1>1, <1>2, <3>1 DEF BackoffBounded
        <3>2. CASE i = m + 1 /\ m > 0
            BY <1>1, <1>2, <3>2 DEF SleepsCounted
        <3>3. CASE i = m + 1 /\ m = 0
            BY <3>3
        <3> QED BY <1>1, <3>1, <3>2, <3>3
    <2>2. ASSUME NEW i \in 2..(m + 1)
          PROVE  slept'[i] = MaxBackoff \/ slept'[i] = 2 * slept'[i - 1]
        <3>1. CASE i \in 2..m
            BY <1>1, <1>2, <3>1 DEF BackoffBounded
        <3>2. CASE i = m + 1
            BY <1>1, <1>2, <3>2 DEF SleepsCounted
        <3> QED BY <1>1, <3>1, <3>2
    <2>3. DOMAIN slept' = 1..(m + 1)
        BY <1>2
    <2>4. Len(slept') < Attempts
        BY <1>1, <1>2
    <2> QED BY <1>2, <2>1, <2>2, <2>3, <2>4 DEF BackoffBounded
<1> QED BY <1>5, <1>6, <1>7, <1>8, <1>9

LEMMA RunningKeepsParts ==
    ASSUME CInv, Running
    PROVE  TypeOK' /\ UnlockedMeansReconciled' /\ AnswersCounted'
<1> USE DEF CInv
<1>0. health \in Health
    BY DEF TypeOK
<1>1. CASE HeartbeatAnswered
    <2>1. (~health.reconciled) \in BOOLEAN
        BY Zenon DEF TypeOK, Health
    <2>2. health' \in Health
        BY <1>0, <1>1, <2>1 DEF HeartbeatAnswered, Health
    <2>3. TypeOK'
        BY <1>1, <2>2, ReturnKeepsType DEF HeartbeatAnswered, TypeOK
    <2>4. UnlockedMeansReconciled'
        BY <1>0, <1>1 DEF HeartbeatAnswered, UnlockedMeansReconciled, Health
    <2>5. AnswersCounted'
        BY <1>0, <1>1 DEF HeartbeatAnswered, UnlockedMeansReconciled, Health,
                          AnswersCounted, Return
    <2> QED BY <2>3, <2>4, <2>5
<1>2. CASE HeartbeatMissed
    <2>1. TypeOK'
        BY <1>2, LockedType, ReturnKeepsType DEF HeartbeatMissed, TypeOK
    <2>2. UnlockedMeansReconciled' /\ AnswersCounted'
        BY <1>2 DEF HeartbeatMissed, Locked, UnlockedMeansReconciled,
                    AnswersCounted, Return
    <2> QED BY <2>1, <2>2
<1>3. CASE ItemAnswered
    <2>1. n \in 1..Len(Items) /\ n + 1 \in 1..(Len(Items) + 1)
        BY <1>3, ItemsFacts DEF ItemAnswered, TypeOK
    <2>2. TypeOK'
        BY <1>3, <2>1, ItemsFacts DEF ItemAnswered, TypeOK
    <2>3. answered' = {Items[i] : i \in 1..n}
        <3>1. 1..n = 1..(n - 1) \cup {n}
            BY <2>1
        <3>2. answered' = {Items[i] : i \in 1..(n - 1)} \cup {Items[n]}
            BY <1>3 DEF ItemAnswered, AnswersCounted
        <3> QED BY <3>1, <3>2
    <2>4. AnswersCounted'
        <3>1. n' - 1 = n /\ pc' = "reconcile"
            BY <1>3, <2>1 DEF ItemAnswered
        <3> QED BY <2>3, <3>1 DEF AnswersCounted
    <2>5. UnlockedMeansReconciled'
        BY <1>3 DEF ItemAnswered, UnlockedMeansReconciled
    <2> QED BY <2>2, <2>4, <2>5
<1>4. ASSUME pc = "reconcile", n > Len(Items)
      PROVE  answered = Asked
    <2>1. n - 1 = Len(Items)
        BY <1>4, ItemsFacts DEF TypeOK
    <2> QED BY <1>4, <2>1, ItemsFacts DEF AnswersCounted
<1>5. CASE Reconciled
    <2>1. settled' \in BOOLEAN
        BY <1>5, Zenon DEF Reconciled
    <2>2. health' \in Health
        BY <1>5 DEF Reconciled, Health
    <2>3. TypeOK'
        BY <1>5, <2>1, <2>2, ReturnKeepsType DEF Reconciled, TypeOK
    <2>4. UnlockedMeansReconciled' /\ AnswersCounted'
        BY <1>4, <1>5 DEF Reconciled, UnlockedMeansReconciled, AnswersCounted,
                          Return
    <2> QED BY <2>3, <2>4
<1>6. CASE IdentityRaises
    <2>1. TypeOK'
        BY <1>6, ReturnKeepsType DEF IdentityRaises, TypeOK
    <2>2. UnlockedMeansReconciled' /\ AnswersCounted'
        BY <1>4, <1>6 DEF IdentityRaises, UnlockedMeansReconciled,
                          AnswersCounted, Return
    <2> QED BY <2>1, <2>2
<1>7. CASE ItemMissed
    <2>1. TypeOK'
        BY <1>7, LockedType, ReturnKeepsType DEF ItemMissed, TypeOK
    <2>2. health'.write_locked /\ ~health'.reconciled /\ answered' = {}
        BY <1>7 DEF ItemMissed, Locked
    <2>3. pc' # "reconcile"
        BY <1>7 DEF ItemMissed, Return
    <2> QED BY <2>1, <2>2, <2>3 DEF UnlockedMeansReconciled, AnswersCounted
<1>8. CASE BackoffOver
    BY <1>8, BackoffKeepsInv
<1> QED BY <1>1, <1>2, <1>3, <1>5, <1>6, <1>7, <1>8 DEF Running

LEMMA RunningKeepsInv ==
    ASSUME CInv, Running
    PROVE  CInv'
<1>1. CASE BackoffOver
    BY <1>1, BackoffKeepsInv
<1>2. CASE ~BackoffOver
    <2>1. TypeOK' /\ UnlockedMeansReconciled' /\ AnswersCounted'
        BY RunningKeepsParts
    <2>2. controller' = controller
        BY <1>2 DEF Running, HeartbeatAnswered, HeartbeatMissed, ItemAnswered,
                    Reconciled, IdentityRaises, ItemMissed
    <2>3. /\ Return \/ UNCHANGED <<attempt, delay, slept>>
          /\ pc' = "backoff" => attempt' < Attempts
        BY <1>2 DEF Running, HeartbeatAnswered, HeartbeatMissed, ItemAnswered,
                    Reconciled, IdentityRaises, ItemMissed, Return
    <2>4. SleepsCounted' /\ BackoffBounded'
        BY <2>3, SleepsKept DEF CInv
    <2>5. UnlockedOutsideEmergency' /\ ObserveIsCalm'
        BY <2>2 DEF CInv, UnlockedOutsideEmergency, ObserveIsCalm
    <2> QED BY <2>1, <2>4, <2>5 DEF CInv
<1> QED BY <1>1, <1>2

\* The calls that end at once, and the start of the others.
LEMMA CallKeepsInv ==
    ASSUME CInv, Call
    PROVE  CInv'
<1> USE DEF CInv
<1>1. UNCHANGED <<attempt, delay, slept>> /\ pc' \in {"idle", "heartbeat", "reconcile"}
    BY DEF Call, HealthIsStale, Heartbeat, Reconcile, RequestUnlock,
           GuardedWrite, LockWrites, UnlockWrites, EnterEmergency,
           ExitEmergencyToObserve, callVars
<1>2. SleepsCounted' /\ BackoffBounded'
    BY <1>1, SleepsKept
<1>a. controller' = controller => ObserveIsCalm'
    BY DEF ObserveIsCalm
<1>3. CASE HealthIsStale
    <2>1. TypeOK'
        BY <1>3, LockedType DEF HealthIsStale, TypeOK, callVars
    <2>2. UnlockedMeansReconciled' /\ UnlockedOutsideEmergency'
              /\ AnswersCounted'
        BY <1>3 DEF HealthIsStale, Locked, UnlockedMeansReconciled,
                    UnlockedOutsideEmergency, AnswersCounted, callVars
    <2> QED BY <1>2, <1>3, <1>a, <2>1, <2>2 DEF HealthIsStale
<1>4. CASE Heartbeat
    BY <1>2, <1>4, <1>a DEF Heartbeat, TypeOK, UnlockedMeansReconciled,
                      UnlockedOutsideEmergency, AnswersCounted
<1>5. ASSUME NEW retry \in BOOLEAN, Reconcile(retry)
      PROVE  CInv'
    <2>1. retrying' \in BOOLEAN
        BY <1>5, Zenon DEF Reconcile
    <2>2. TypeOK'
        BY <1>5, <2>1, ItemsFacts DEF Reconcile, TypeOK
    <2>3. UnlockedMeansReconciled' /\ UnlockedOutsideEmergency'
        BY <1>5 DEF Reconcile, UnlockedMeansReconciled,
                    UnlockedOutsideEmergency
    <2>4. AnswersCounted'
        BY <1>5 DEF Reconcile, AnswersCounted
    <2> QED BY <1>2, <1>5, <1>a, <2>2, <2>3, <2>4 DEF Reconcile
<1>6. CASE RequestUnlock
    <2>1. (~Allowed) \in BOOLEAN
        BY Zenon
    <2>2. TypeOK'
        BY <1>6, <2>1 DEF RequestUnlock, TypeOK, Health, callVars
    <2>3. UnlockedMeansReconciled' /\ UnlockedOutsideEmergency'
        BY <1>6 DEF RequestUnlock, TypeOK, Health, UnlockedMeansReconciled,
                    UnlockedOutsideEmergency, Allowed
    <2>4. AnswersCounted'
        BY <1>6 DEF RequestUnlock, TypeOK, Health, AnswersCounted, Allowed,
                    callVars
    <2> QED BY <1>2, <1>6, <1>a, <2>2, <2>3, <2>4 DEF RequestUnlock
<1>7. CASE GuardedWrite
    <2>1. TypeOK'
        BY <1>7, ConnectionAssumption DEF GuardedWrite, TypeOK, callVars
    <2> QED BY <1>2, <1>7, <1>a, <2>1
            DEF GuardedWrite, UnlockedMeansReconciled,
                UnlockedOutsideEmergency, AnswersCounted, callVars
<1>8. ASSUME controller' \in Controllers, UnlockedOutsideEmergency',
             ObserveIsCalm', settled' \in BOOLEAN,
             UNCHANGED <<health, age, callVars, answered, writes>>
      PROVE  CInv'
    <2>1. TypeOK'
        BY <1>8 DEF TypeOK, callVars
    <2> QED BY <1>2, <1>8, <2>1
            DEF UnlockedMeansReconciled, AnswersCounted, callVars
<1>9. controller \in Controllers /\ settled \in BOOLEAN
    BY DEF TypeOK
<1>10. CASE LockWrites
    <2>1. /\ controller' \in Controllers
          /\ UnlockedOutsideEmergency' /\ ObserveIsCalm'
        BY <1>9, <1>10 DEF LockWrites, UnlockedOutsideEmergency, ObserveIsCalm,
                           Controllers
    <2> QED BY <1>8, <1>9, <1>10, <2>1 DEF LockWrites
<1>11. ASSUME NEW mode \in CallerModes, UnlockWrites(mode)
       PROVE  CInv'
    <2>1. controller' \in Controllers
        BY <1>9, <1>11, ControllerType DEF UnlockWrites
    <2>2. UnlockedOutsideEmergency'
        BY <1>9, <1>11 DEF UnlockWrites, Unlocked, UnlockedOutsideEmergency,
                           ObserveIsCalm, Controllers
    <2>3. ObserveIsCalm'
        BY <1>9, <1>11 DEF UnlockWrites, Unlocked, ObserveIsCalm, Controllers
    <2> QED BY <1>8, <1>9, <1>11, <2>1, <2>2, <2>3 DEF UnlockWrites
<1>12. CASE EnterEmergency
    <2>1. settled' \in BOOLEAN
        BY <1>12, Zenon DEF EnterEmergency
    <2>2. controller' \in Controllers
        BY <1>9, <1>12, ControllerType DEF EnterEmergency
    <2>3. UnlockedOutsideEmergency' /\ ObserveIsCalm'
        BY <1>12 DEF EnterEmergency, InEmergency, UnlockedOutsideEmergency,
                     ObserveIsCalm
    <2> QED BY <1>8, <1>12, <2>1, <2>2, <2>3 DEF EnterEmergency
<1>13. CASE ExitEmergencyToObserve
    <2>1. controller' \in Controllers
        BY <1>9, <1>13, ControllerType DEF ExitEmergencyToObserve
    <2>2. UnlockedOutsideEmergency' /\ ObserveIsCalm'
        BY <1>13 DEF ExitEmergencyToObserve, BackInObserve, InitialController,
                     UnlockedOutsideEmergency, ObserveIsCalm
    <2> QED BY <1>8, <1>9, <1>13, <2>1, <2>2 DEF ExitEmergencyToObserve
<1> QED BY <1>3, <1>4, <1>5, <1>6, <1>7, <1>10, <1>11, <1>12, <1>13 DEF Call

LEMMA StepKeepsInv == CInv /\ [Next]_vars => CInv'
<1> SUFFICES ASSUME CInv, [Next]_vars PROVE CInv'
    OBVIOUS
<1>1. CASE GrowOld \/ UNCHANGED vars
    <2>1. /\ age' \in {age, "old"} /\ (age' = "never" => age = "never")
          /\ UNCHANGED <<health, callVars, controller, answered, writes, settled>>
        BY <1>1 DEF GrowOld, vars
    <2>2. TypeOK'
        BY <2>1 DEF CInv, TypeOK, callVars
    <2>3. UnlockedMeansReconciled' /\ UnlockedOutsideEmergency'
              /\ ObserveIsCalm' /\ AnswersCounted'
        BY <2>1 DEF CInv, UnlockedMeansReconciled, UnlockedOutsideEmergency,
                    ObserveIsCalm, AnswersCounted, callVars
    <2>4. SleepsCounted' /\ BackoffBounded'
        BY <2>1 DEF CInv, SleepsCounted, BackoffBounded, callVars
    <2> QED BY <2>2, <2>3, <2>4 DEF CInv
<1> QED BY <1>1, RunningKeepsInv, CallKeepsInv DEF Next

LEMMA Inductive == Spec => []CInv
BY InitInv, StepKeepsInv, PTL DEF Spec

\* Type correctness: no order of checks, attempts and unlock requests takes a
\* flag, an attempt number or a delay out of its set.
THEOREM TypeCorrect == Spec => []TypeOK
<1>1. CInv => TypeOK
    BY DEF CInv
<1> QED BY <1>1, Inductive, PTL

\* The flags agree: an unlocked connection is a reconciled, connected one that
\* is not known to be stale, and the reverse.
THEOREM FlagsAgree == Spec => []UnlockedMeansReconciled
<1>1. CInv => UnlockedMeansReconciled
    BY DEF CInv
<1> QED BY <1>1, Inductive, PTL

\* The emergency lock and the mode go together.
THEOREM LockGoesWithMode == Spec => []UnlockedOutsideEmergency
<1>1. CInv => UnlockedOutsideEmergency
    BY DEF CInv
<1> QED BY <1>1, Inductive, PTL

\* Reconnecting is bounded in number and in length of its sleeps, for every
\* max_attempts and every pair of delays.
THEOREM ReconnectIsBounded == Spec => []BackoffBounded
<1>1. CInv => BackoffBounded
    BY DEF CInv
<1> QED BY <1>1, Inductive, PTL

\* At rest, what require_reconciled_for_writes allows has been answered for.
LEMMA AllowedIsAnswered ==
    ASSUME CInv, pc = "idle", Allowed
    PROVE  answered = Asked
BY DEF CInv, AnswersCounted, Allowed

\* The emergency lock comes off only over a connection whose every item has
\* been answered for, with nothing missed since.
THEOREM UnlockNeedsAnswers == Spec => UnlocksAfterAnswers
<1>1. CInv /\ [Next]_vars =>
          [controller.write_locked /\ ~controller'.write_locked =>
               answered = Asked]_vars
    <2> SUFFICES ASSUME CInv, [Next]_vars, controller.write_locked,
                        ~controller'.write_locked
                 PROVE  answered = Asked
        OBVIOUS
    <2>1. controller \in Controllers
        BY DEF CInv, TypeOK
    <2>2. controller' # controller
        OBVIOUS
    <2>3. ~Running /\ ~GrowOld /\ ~UNCHANGED vars
        BY <2>2 DEF Running, HeartbeatAnswered, HeartbeatMissed, ItemAnswered,
                    Reconciled, IdentityRaises, ItemMissed, BackoffOver,
                    GrowOld, vars
    <2>4. ~LockWrites /\ ~EnterEmergency /\ ~ExitEmergencyToObserve
        BY <2>1 DEF LockWrites, EnterEmergency, InEmergency, BackInObserve,
                    ExitEmergencyToObserve, InitialController, Controllers
    <2>5. PICK mode \in CallerModes : UnlockWrites(mode)
        BY <2>2, <2>3, <2>4
        DEF Next, Call, HealthIsStale, Heartbeat, Reconcile, RequestUnlock,
            GuardedWrite
    <2>6. pc = "idle" /\ Allowed
        BY <2>1, <2>5 DEF UnlockWrites, Unlocked, Controllers
    <2> QED BY <2>6, AllowedIsAnswered
<1> QED BY <1>1, Inductive, PTL DEF Spec, UnlocksAfterAnswers

\* Under the flags' agreement, being allowed to write is being unlocked.
LEMMA AllowedIsUnlocked ==
    ASSUME UnlockedMeansReconciled
    PROVE  Allowed <=> ~health.write_locked
BY DEF UnlockedMeansReconciled, Allowed

\* A step of the connection is a step of the gate, or leaves the gate alone.
LEMMA StepIsGateStep ==
    ASSUME CInv, CInv', [Next]_vars
    PROVE  [Gate!Next]_(Gate!gateVars)
<1> USE DEF Gate!Next, Gate!gateVars
<1>1. /\ Allowed = ~health.write_locked
      /\ Allowed' = ~health'.write_locked
    <2>1. Allowed \in BOOLEAN /\ Allowed' \in BOOLEAN
        BY Zenon DEF Allowed
    <2>2. health.write_locked \in BOOLEAN /\ health'.write_locked \in BOOLEAN
        BY DEF CInv, TypeOK, Health
    <2>3. /\ Allowed <=> ~health.write_locked
          /\ Allowed' <=> ~health'.write_locked
        BY DEF CInv, UnlockedMeansReconciled, Allowed
    <2> QED BY <2>1, <2>2, <2>3
<1>2. ASSUME UNCHANGED <<health, answered, writes>>
      PROVE  UNCHANGED <<Allowed, answered, writes>>
    BY <1>1, <1>2
<1>3. ASSUME health'.write_locked = TRUE, answered' = {}, writes' = writes
      PROVE  Gate!Next
    BY <1>1, <1>3 DEF Gate!Miss
<1>4. CASE HealthIsStale \/ HeartbeatMissed \/ ItemMissed
    <2>1. answered' = {} /\ writes' = writes
        BY <1>4 DEF HealthIsStale, HeartbeatMissed, ItemMissed
    <2>2. health'.write_locked = TRUE
        BY <1>4 DEF HealthIsStale, HeartbeatMissed, ItemMissed, Locked
    <2> QED BY <1>3, <2>1, <2>2
<1>5. ASSUME NEW retry \in BOOLEAN, Reconcile(retry)
      PROVE  Gate!Next
    BY <1>1, <1>5 DEF Reconcile, Gate!NewRound
<1>6. CASE ItemAnswered
    <2>1. Items[n] \in Asked
        BY <1>6, ItemsFacts DEF ItemAnswered, CInv, TypeOK
    <2> QED BY <1>1, <1>6, <2>1 DEF ItemAnswered, Gate!Answer
<1>7. CASE Reconciled
    <2>1. answered = Asked
        BY <1>7 DEF Reconciled, Return, CInv, AnswersCounted
    <2> QED BY <1>1, <1>7, <2>1 DEF Reconciled, Gate!Open
<1>8. CASE GuardedWrite
    BY <1>1, <1>8 DEF GuardedWrite, Gate!Write
<1>9. CASE HeartbeatAnswered \/ RequestUnlock
    <2>0. /\ health \in Health
          /\ health.write_locked = ~health.reconciled
        <3>1. ~health.write_locked <=> health.reconciled
            BY DEF CInv, UnlockedMeansReconciled
        <3>2. health \in Health
            BY DEF CInv, TypeOK
        <3>3. health.write_locked \in BOOLEAN /\ health.reconciled \in BOOLEAN
            BY <3>2 DEF Health
        <3> QED BY <3>1, <3>2, <3>3
    <2>1. health'.write_locked = health.write_locked
        <3>1. CASE HeartbeatAnswered
            BY <2>0, <3>1 DEF HeartbeatAnswered, Health
        <3>2. CASE RequestUnlock
            <4>1. health'.write_locked = ~Allowed
                BY <2>0, <3>2 DEF RequestUnlock, Health
            <4> QED BY <1>1, <2>0, <4>1 DEF Health
        <3> QED BY <1>9, <3>1, <3>2
    <2> QED BY <1>1, <1>9, <2>1 DEF HeartbeatAnswered, RequestUnlock
<1>10. CASE \/ IdentityRaises \/ BackoffOver \/ Heartbeat \/ LockWrites
            \/ (\E mode \in CallerModes : UnlockWrites(mode))
            \/ EnterEmergency \/ ExitEmergencyToObserve \/ GrowOld
            \/ UNCHANGED vars
    BY <1>2, <1>10 DEF IdentityRaises, BackoffOver, Heartbeat, LockWrites,
                       UnlockWrites, EnterEmergency, ExitEmergencyToObserve,
                       GrowOld, vars
<1> QED BY <1>4, <1>5, <1>6, <1>7, <1>8, <1>9, <1>10
        DEF Next, Running, Call

\* The connection implements the write gate: a write goes through only after
\* the console answered for every item of one reconciliation, and none after a
\* missed request, or a check that found the state stale, until the next one.
THEOREM ImplementsGate == Spec => GateSpec
<1>1. Init => Gate!Init
    BY DEF Init, Gate!Init, Allowed
<1>2. CInv /\ CInv' /\ [Next]_vars => [Gate!Next]_(Gate!gateVars)
    BY StepIsGateStep
<1> QED BY <1>1, <1>2, Inductive, PTL DEF Spec, GateSpec, Gate!Spec

-----------------------------------------------------------------------------
(* How long a call can go on.                                               *)

\* Steps the call in progress may still take: a reconciliation asks once for
\* each item and ends, and a pause comes before each further attempt.
Remaining ==
    LET round == Len(Items) + 2 IN
    IF pc = "idle" THEN 0
    ELSE IF pc = "heartbeat" THEN 1
    ELSE IF pc = "reconcile" THEN (Attempts - attempt) * round + (round - n)
    ELSE (Attempts - attempt) * round

\* Every answer, silence and pause brings a call nearer to its return, growing
\* old does not put it off, and no call begins with more before it than one
\* round of requests for each attempt.
CallsShrink ==
    [][/\ Running => Remaining' < Remaining
       /\ GrowOld => Remaining' = Remaining
       /\ Call => Remaining' < Attempts * (Len(Items) + 2)]_vars

\* The arithmetic of rounds.
LEMMA Rounds ==
    ASSUME NEW a \in Int, NEW b \in Int, NEW r \in Nat
    PROVE  /\ (a - b) * r \in Int
           /\ (a - (b + 1)) * r = (a - b) * r - r
           /\ b <= a => (a - b) * r >= 0
           /\ b < a => (a - b) * r >= r
           /\ b >= 1 => (a - b) * r <= a * r - r
<1>1. (a - b) * r \in Int /\ (a - (b + 1)) * r \in Int /\ a * r \in Int
    OBVIOUS
<1>2. (a - (b + 1)) * r = (a - b) * r - r
    OBVIOUS
<1>3. \A x \in Nat : x * r >= 0
    OBVIOUS
<1>4. b <= a => (a - b) * r >= 0
    <2> SUFFICES ASSUME b <= a PROVE (a - b) * r >= 0
        OBVIOUS
    <2>1. a - b \in Nat
        OBVIOUS
    <2> QED BY <1>3, <2>1
<1>5. b < a => (a - b) * r >= r
    <2> SUFFICES ASSUME b < a PROVE (a - b) * r >= r
        OBVIOUS
    <2>1. a - (b + 1) \in Nat
        OBVIOUS
    <2>2. (a - (b + 1)) * r >= 0
        BY <1>3, <2>1
    <2> QED BY <1>1, <1>2, <2>2
<1>6. b >= 1 => (a - b) * r <= a * r - r
    <2> SUFFICES ASSUME b >= 1 PROVE (a - b) * r <= a * r - r
        OBVIOUS
    <2>1. b - 1 \in Nat
        OBVIOUS
    <2>2. (b - 1) * r >= 0
        BY <1>3, <2>1
    <2>3. (a - b) * r = a * r - r - (b - 1) * r
        OBVIOUS
    <2> QED BY <1>1, <2>2, <2>3
<1> QED BY <1>1, <1>2, <1>4, <1>5, <1>6

\* What each step of a call does to its place.
LEMMA RunningIs ==
    ASSUME Running
    PROVE  /\ pc # "idle"
           /\ \/ pc' = "idle"
              \/ /\ pc = "reconcile" /\ pc' = "reconcile"
                 /\ n <= Len(Items) /\ n' = n + 1 /\ attempt' = attempt
              \/ /\ pc = "reconcile" /\ pc' = "backoff"
                 /\ n <= Len(Items) /\ attempt' = attempt
              \/ /\ pc = "backoff" /\ pc' = "reconcile"
                 /\ n' = 1 /\ attempt' = attempt + 1
BY DEF Running, HeartbeatAnswered, HeartbeatMissed, ItemAnswered, Reconciled,
       IdentityRaises, ItemMissed, BackoffOver, Return

\* The measure behind CallsReturn: however long the console stays silent, and
\* whatever the number of attempts and of items, a call comes to its end.
THEOREM EveryStepShrinksTheCall == Spec => [](Remaining \in Nat) /\ CallsShrink
<1>1. CInv => Remaining \in Nat
    <2> SUFFICES ASSUME CInv PROVE Remaining \in Nat
        OBVIOUS
    <2>1. /\ Len(Items) \in Nat /\ n \in 1..(Len(Items) + 1)
          /\ attempt \in 1..Attempts /\ Attempts \in Nat
          /\ pc \in {"idle", "heartbeat", "reconcile", "backoff"}
        BY ItemsFacts, AttemptsFacts DEF CInv, TypeOK
    <2>2. (Attempts - attempt) * (Len(Items) + 2) \in Nat
        BY <2>1, Rounds
    <2> QED BY <2>1, <2>2 DEF Remaining
<1>2. CInv /\ CInv' /\ [Next]_vars =>
          [/\ Running => Remaining' < Remaining
           /\ GrowOld => Remaining' = Remaining
           /\ Call => Remaining' < Attempts * (Len(Items) + 2)]_vars
    <2>1. ASSUME CInv, Running
          PROVE  Remaining' < Remaining
        <3>1. /\ Len(Items) \in Nat /\ n \in 1..(Len(Items) + 1)
              /\ attempt \in 1..Attempts /\ Attempts \in Nat
              /\ pc \in {"heartbeat", "reconcile", "backoff"}
              /\ pc = "backoff" => attempt < Attempts
            BY <2>1, RunningIs, ItemsFacts, AttemptsFacts
            DEF CInv, TypeOK, SleepsCounted
        <3>2. /\ (Attempts - attempt) * (Len(Items) + 2) \in Nat
              /\ pc = "backoff" =>
                     (Attempts - attempt) * (Len(Items) + 2) >= Len(Items) + 2
            BY <3>1, Rounds
        <3>3. CASE pc' = "idle"
            BY <3>1, <3>2, <3>3 DEF Remaining
        <3>4. CASE pc = "reconcile" /\ pc' = "reconcile"
            <4>1. n' = n + 1 /\ attempt' = attempt
                BY <2>1, <3>4, RunningIs
            <4> QED BY <3>1, <3>2, <3>4, <4>1 DEF Remaining
        <3>5. CASE pc = "reconcile" /\ pc' = "backoff"
            <4>1. n <= Len(Items) /\ attempt' = attempt
                BY <2>1, <3>5, RunningIs
            <4> QED BY <3>1, <3>2, <3>5, <4>1 DEF Remaining
        <3>6. CASE pc = "backoff"
            <4>1. \/ pc' = "idle"
                  \/ pc' = "reconcile" /\ n' = 1 /\ attempt' = attempt + 1
                BY <2>1, <3>6, RunningIs
            <4>2. (Attempts - (attempt + 1)) * (Len(Items) + 2) =
                      (Attempts - attempt) * (Len(Items) + 2) - (Len(Items) + 2)
                BY <3>1, Rounds
            <4>3. CASE pc' = "reconcile" /\ n' = 1 /\ attempt' = attempt + 1
                <5>1. Remaining = (Attempts - attempt) * (Len(Items) + 2)
                    BY <3>6 DEF Remaining
                <5>2. Remaining' = (Attempts - (attempt + 1)) * (Len(Items) + 2)
                                       + (Len(Items) + 2 - 1)
                    BY <4>3 DEF Remaining
                <5> QED BY <3>1, <3>2, <4>2, <5>1, <5>2
            <4> QED BY <3>3, <4>1, <4>3
        <3> QED BY <2>1, <3>3, <3>4, <3>5, <3>6, RunningIs
    <2>2. ASSUME GrowOld
          PROVE  Remaining' = Remaining
        BY <2>2 DEF GrowOld, callVars, Remaining
    <2>3. ASSUME CInv', Call
          PROVE  Remaining' < Attempts * (Len(Items) + 2)
        <3>1. /\ Len(Items) \in Nat /\ attempt' \in 1..Attempts
              /\ Attempts \in Nat \ {0}
            BY <2>3, ItemsFacts, AttemptsFacts DEF CInv, TypeOK
        <3>2. /\ (Attempts - attempt') * (Len(Items) + 2) <=
                     Attempts * (Len(Items) + 2) - (Len(Items) + 2)
              /\ (Attempts - attempt') * (Len(Items) + 2) \in Int
              /\ (Attempts - attempt') * (Len(Items) + 2) >= 0
              /\ Attempts * (Len(Items) + 2) \in Int
            <4>1. /\ Attempts \in Int /\ attempt' \in Int
                  /\ Len(Items) + 2 \in Nat
                  /\ attempt' >= 1 /\ attempt' <= Attempts
                BY <3>1
            <4>2. Attempts * (Len(Items) + 2) \in Int
                BY <4>1
            <4> QED BY <4>1, <4>2, Rounds
        <3>3. \/ pc' \in {"idle", "heartbeat"}
              \/ pc' = "reconcile" /\ n' = 1
            <4>1. CASE \E retry \in BOOLEAN : Reconcile(retry)
                BY <4>1, Zenon DEF Reconcile
            <4>2. CASE \E mode \in CallerModes : UnlockWrites(mode)
                BY <4>2 DEF UnlockWrites, callVars
            <4>3. CASE \/ HealthIsStale \/ Heartbeat \/ RequestUnlock
                       \/ GuardedWrite \/ LockWrites \/ EnterEmergency
                       \/ ExitEmergencyToObserve
                BY <4>3 DEF HealthIsStale, Heartbeat, RequestUnlock,
                            GuardedWrite, LockWrites, EnterEmergency,
                            ExitEmergencyToObserve, callVars
            <4> QED BY <2>3, <4>1, <4>2, <4>3 DEF Call
        <3> QED BY <3>1, <3>2, <3>3 DEF Remaining
    <2> QED BY <2>1, <2>2, <2>3
<1> QED BY <1>1, <1>2, Inductive, PTL DEF Spec, CallsShrink
=============================================================================
