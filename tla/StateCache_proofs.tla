--------------------------- MODULE StateCache_proofs ---------------------------
(* The properties of the cache and of the subscription, for any paths and     *)
(* values, any number of readers and any lifetimes that leave a renewal the   *)
(* time to be answered.                                                       *)
EXTENDS StateCache, TLAPS

(* Nothing known of a path that no reader saw half changed is ahead of the    *)
(* console, and what is level with it agrees with it. A change begun by hand  *)
(* has counted the revision up, so nothing is level with the console then.    *)
Faithful(p, e) == /\ e.revision <= revision
                  /\ e.revision = revision => /\ e.value = value[p]
                                              /\ half # None => half.path # p

KnownIsFaithful == \A p \in Paths \ torn :
                      /\ Faithful(p, cache[p])
                      /\ \A a \in answers : a.path = p => Faithful(p, a)

(* The bridge counts from the answer and the console from the request, which  *)
(* are at most Timeout apart.                                                 *)
AgesAgree == renewed # None =>
                IF heard = None THEN renewed > Renewal
                                ELSE heard <= renewed + Timeout

CInv == TypeOK /\ NewestAnswerWins /\ KnownIsFaithful /\ AgesAgree

--------------------------------------------------------------------------------
LEMMA InitHolds == ASSUME Init PROVE CInv
<1>1. TypeOK
    <2>1. revision \in 1 .. MaxRevision
        BY CacheAssumption DEF Init
    <2>2. /\ cache \in [Paths -> Entries \cup {Empty}]
          /\ newest \in [Paths -> 0 .. MaxRevision]
        BY CacheAssumption DEF Init
    <2> QED BY <2>1, <2>2 DEF Init, TypeOK
<1>2. NewestAnswerWins /\ KnownIsFaithful /\ AgesAgree
    BY DEF Init, NewestAnswerWins, KnownIsFaithful, Faithful, AgesAgree, Empty
<1> QED BY <1>1, <1>2 DEF CInv

(* A change of the console leaves the cache and the subscription alone.       *)
LEMMA ConsoleTyped ==
    ASSUME CInv, NEW p \in Paths, NEW v \in Values,
           BeginByHand(p, v) \/ EndByHand \/ HandleWrite(p, v)
    PROVE  TypeOK' /\ NewestAnswerWins' /\ AgesAgree'
<1> USE DEF cached, remote
<1>1. revision' \in 1 .. MaxRevision
    BY CacheAssumption DEF CInv, TypeOK, BeginByHand, EndByHand, HandleWrite
<1>2. value' \in [Paths -> Values]
    BY DEF CInv, TypeOK, BeginByHand, EndByHand, HandleWrite
<1>3. half' \in [path : Paths, value : Values] \cup {None}
    BY DEF CInv, TypeOK, BeginByHand, EndByHand, HandleWrite
<1>4. UNCHANGED <<cached, remote>>
    BY DEF BeginByHand, EndByHand, HandleWrite
<1>5. TypeOK'
    BY <1>1, <1>2, <1>3, <1>4 DEF CInv, TypeOK
<1>6. NewestAnswerWins' /\ AgesAgree'
    BY <1>4 DEF CInv, NewestAnswerWins, AgesAgree
<1> QED BY <1>5, <1>6

LEMMA ConsoleFaithful ==
    ASSUME CInv, NEW p \in Paths, NEW v \in Values,
           BeginByHand(p, v) \/ EndByHand \/ HandleWrite(p, v)
    PROVE  KnownIsFaithful'
<1> USE DEF CInv
<1> SUFFICES ASSUME NEW q \in Paths \ torn, NEW e \in Entries \cup {Empty} \cup Answers,
                    Faithful(q, e)
             PROVE  Faithful(q, e)'
    <2>1. UNCHANGED <<answers, cache, torn>>
        BY DEF BeginByHand, EndByHand, HandleWrite, cached
    <2>2. \A q \in Paths : cache[q] \in Entries \cup {Empty}
        BY DEF TypeOK
    <2> QED BY <2>1, <2>2 DEF KnownIsFaithful, TypeOK, Faithful
<1>1. e.revision \in Nat /\ revision \in Nat
    BY CacheAssumption DEF TypeOK, Entries, Answers, Empty
<1>2. CASE BeginByHand(p, v) \/ HandleWrite(p, v)
    BY <1>1, <1>2 DEF Faithful, BeginByHand, HandleWrite
<1>3. CASE EndByHand
    <2>1. half.path # q => value'[q] = value[q]
        BY <1>3 DEF EndByHand, TypeOK
    <2> QED BY <1>1, <1>3, <2>1 DEF Faithful, EndByHand
<1> QED BY <1>2, <1>3

(* An answer that says what the console holds is a faithful one.              *)
LEMMA ReadHolds == ASSUME CInv, NEW p \in Paths, Read(p) PROVE CInv'
<1> DEFINE new == [path |-> p, value |-> value[p], revision |-> revision]
<1> USE DEF CInv
<1>1. new \in Answers /\ revision \in Nat
    BY DEF TypeOK, Answers
<1>2. /\ answers' = answers \cup {new}
      /\ torn' = IF half # None /\ half.path = p THEN torn \cup {p} ELSE torn
      /\ UNCHANGED <<value, revision, half, cache, newest, remote>>
    BY DEF Read, console
<1>3. TypeOK'
    BY <1>1, <1>2 DEF TypeOK, remote
<1>4. NewestAnswerWins' /\ AgesAgree'
    BY <1>2 DEF NewestAnswerWins, AgesAgree, remote
<1>5. KnownIsFaithful'
    <2> SUFFICES ASSUME NEW q \in Paths \ torn'
                 PROVE  /\ Faithful(q, cache[q])'
                        /\ \A a \in answers' : a.path = q => Faithful(q, a)'
        BY DEF KnownIsFaithful, Faithful
    <2>1. q \notin torn
        BY <1>2
    <2>2. \A e : Faithful(q, e) => Faithful(q, e)'
        BY <1>2 DEF Faithful
    <2>3. q = p => Faithful(q, new)'
        BY <1>1, <1>2 DEF Faithful
    <2>4. Faithful(q, cache[q])'
        BY <1>2, <2>1 DEF KnownIsFaithful, Faithful
    <2> QED BY <1>2, <2>1, <2>2, <2>3, <2>4 DEF KnownIsFaithful
<1> QED BY <1>3, <1>4, <1>5

LEMMA LoseHolds == ASSUME CInv, NEW a \in answers, Lose(a) PROVE CInv'
<1> USE DEF CInv, Lose, console, remote
<1>1. TypeOK'
    BY DEF TypeOK
<1>2. NewestAnswerWins' /\ AgesAgree'
    BY DEF NewestAnswerWins, AgesAgree
<1>3. KnownIsFaithful'
    BY DEF KnownIsFaithful, Faithful
<1> QED BY <1>1, <1>2, <1>3

(* The entry that stays is the newer of the two.                              *)
LEMMA ApplyHolds == ASSUME CInv, NEW a \in answers, Apply(a) PROVE CInv'
<1> DEFINE entry == [value |-> a.value, revision |-> a.revision]
<1> USE DEF CInv, Apply, console, remote
<1>1. /\ a \in Answers /\ a.path \in Paths
      /\ entry \in Entries
      /\ a.revision \in 1 .. MaxRevision
      /\ cache[a.path].revision \in 0 .. MaxRevision
      /\ newest[a.path] \in 0 .. MaxRevision
    BY CacheAssumption DEF TypeOK, Answers, Entries, Empty
<1>2. \A q \in Paths : q # a.path => cache'[q] = cache[q] /\ newest'[q] = newest[q]
    BY DEF TypeOK
<1>3. /\ cache'[a.path] = IF a.revision > cache[a.path].revision
                            THEN entry ELSE cache[a.path]
      /\ newest'[a.path] = Higher(newest[a.path], a.revision)
    BY <1>1 DEF TypeOK
<1>4. cache' \in [Paths -> Entries \cup {Empty}]
    BY <1>1 DEF TypeOK
<1>5. newest' \in [Paths -> 0 .. MaxRevision]
    BY <1>1 DEF TypeOK, Higher
<1>6. TypeOK'
    BY <1>4, <1>5 DEF TypeOK
<1>7. NewestAnswerWins'
    BY <1>1, <1>2, <1>3 DEF NewestAnswerWins, Higher
<1>8. KnownIsFaithful'
    <2> SUFFICES ASSUME NEW q \in Paths \ torn
                 PROVE  /\ Faithful(q, cache'[q])
                        /\ \A b \in answers : b.path = q => Faithful(q, b)
        BY DEF KnownIsFaithful, Faithful
    <2>1. Faithful(q, cache[q]) /\ \A b \in answers : b.path = q => Faithful(q, b)
        BY DEF KnownIsFaithful
    <2>2. q = a.path => Faithful(q, entry)
        BY <2>1 DEF Faithful
    <2> QED BY <1>2, <1>3, <2>1, <2>2
<1>9. AgesAgree'
    BY DEF AgesAgree
<1> QED BY <1>6, <1>7, <1>8, <1>9

--------------------------------------------------------------------------------
LEMMA RemoteHolds ==
    ASSUME CInv, Renew \/ Renewed \/ TimedOut \/ CheckFailSafe \/ Tick
    PROVE  CInv'
<1> USE DEF CInv
<1>1. UNCHANGED <<console, cached>>
    BY DEF Renew, Renewed, TimedOut, CheckFailSafe, Tick
<1>2. NewestAnswerWins' /\ KnownIsFaithful'
    BY <1>1 DEF NewestAnswerWins, KnownIsFaithful, Faithful, console, cached
<1>3. /\ Renewal \in Nat /\ Lifetime \in Nat /\ Timeout \in Nat
      /\ Renewal + Timeout < Lifetime
      /\ None \notin 0 .. Lifetime
    BY CacheAssumption
<1>4. \A t \in Ages \cup {None} :
         /\ Older(t) \in Ages \cup {None}
         /\ Older(t) = None <=> t = None
         /\ t # None => Older(t) = IF t < Lifetime THEN t + 1 ELSE t
    BY <1>3 DEF Older, Ages
<1>5. /\ renewed' \in Ages \cup {None} /\ heard' \in Ages \cup {None}
      /\ locked' \in BOOLEAN
    <2>1. renewed' \in Ages \cup {None}
        BY <1>3, <1>4 DEF TypeOK, Renew, Renewed, TimedOut, CheckFailSafe, Tick, Ages
    <2>2. heard' \in Ages \cup {None}
        BY <1>3, <1>4 DEF TypeOK, Renew, Renewed, TimedOut, CheckFailSafe, Tick, Ages
    <2>3. locked' \in BOOLEAN
        BY DEF TypeOK, Renew, Renewed, TimedOut, CheckFailSafe, Tick, FailSafe
    <2> QED BY <2>1, <2>2, <2>3
<1>6. asked' \in (0 .. Timeout) \cup {None}
    BY <1>3 DEF TypeOK, Renew, Renewed, TimedOut, CheckFailSafe, Tick, Older
<1>7. TypeOK'
    BY <1>1, <1>5, <1>6 DEF TypeOK, console, cached
<1>8. AgesAgree'
    <2>1. CASE Renew
        BY <2>1, <1>3 DEF Renew, AgesAgree, TypeOK, Ages
    <2>2. CASE Renewed
        BY <2>2, <1>3 DEF Renewed, AgesAgree, TypeOK
    <2>3. CASE TimedOut \/ CheckFailSafe
        BY <2>3 DEF TimedOut, CheckFailSafe, AgesAgree
    <2>4. CASE Tick
        <3> SUFFICES ASSUME renewed' # None
                     PROVE  IF heard' = None THEN renewed' > Renewal
                                             ELSE heard' <= renewed' + Timeout
            BY DEF AgesAgree
        <3>1. /\ renewed' = Older(renewed) /\ renewed # None
              /\ renewed \in 0 .. Lifetime
            BY <2>4, <1>4 DEF Tick, TypeOK, Ages
        <3>2. renewed' = IF renewed < Lifetime THEN renewed + 1 ELSE renewed
            BY <1>4, <3>1 DEF Ages
        <3>3. CASE heard = None
            BY <2>4, <1>3, <1>4, <3>1, <3>2, <3>3 DEF Tick, AgesAgree, TypeOK, Ages
        <3>4. CASE heard = Lifetime
            <4>1. heard' = None /\ Lifetime <= renewed + Timeout
                BY <2>4, <1>3, <3>1, <3>4 DEF Tick, AgesAgree
            <4> QED BY <1>3, <3>1, <3>2, <4>1
        <3>5. CASE heard # None /\ heard # Lifetime
            <4>1. heard' = heard + 1 /\ heard \in 0 .. Lifetime /\ heard < Lifetime
                BY <2>4, <1>3, <1>4, <3>5 DEF Tick, TypeOK, Ages
            <4>2. heard <= renewed + Timeout
                BY <3>1, <3>5 DEF AgesAgree
            <4>3. heard' # None
                BY <1>3, <4>1
            <4> QED BY <1>3, <3>1, <3>2, <4>1, <4>2, <4>3
        <3> QED BY <3>3, <3>4, <3>5
    <2> QED BY <2>1, <2>2, <2>3, <2>4
<1> QED BY <1>2, <1>7, <1>8

LEMMA StepHolds == ASSUME CInv, [Next]_vars PROVE CInv'
<1>1. CASE \E p \in Paths, v \in Values : BeginByHand(p, v) \/ HandleWrite(p, v)
    BY <1>1, ConsoleTyped, ConsoleFaithful DEF CInv
<1>2. CASE EndByHand
    <2>1. half.path \in Paths /\ half.value \in Values
        BY <1>2 DEF CInv, TypeOK, EndByHand
    <2> QED BY <1>2, <2>1, ConsoleTyped, ConsoleFaithful DEF CInv
<1>3. CASE \E p \in Paths : Read(p)
    BY <1>3, ReadHolds
<1>4. CASE \E a \in answers : Apply(a) \/ Lose(a)
    BY <1>4, ApplyHolds, LoseHolds
<1>5. CASE Renew \/ Renewed \/ TimedOut \/ CheckFailSafe \/ Tick
    BY <1>5, RemoteHolds
<1>6. CASE UNCHANGED vars
    BY <1>6 DEF CInv, TypeOK, NewestAnswerWins, KnownIsFaithful, Faithful, AgesAgree,
                vars, console, cached, remote
<1> QED BY <1>1, <1>2, <1>3, <1>4, <1>5, <1>6 DEF Next

LEMMA Invariance == Spec => []CInv
<1>1. Init => CInv
    BY InitHolds
<1>2. CInv /\ [Next]_vars => CInv'
    BY StepHolds
<1> QED BY <1>1, <1>2, PTL DEF Spec

--------------------------------------------------------------------------------
(* Every variable of the cache and of the subscription stays in its set.      *)
THEOREM TypeCorrect == Spec => []TypeOK
<1>1. CInv => TypeOK
    BY DEF CInv
<1> QED BY <1>1, Invariance, PTL

(* StateCache.apply keeps the newest answer, in whatever order they come.     *)
THEOREM NewestStays == Spec => []NewestAnswerWins
<1>1. CInv => NewestAnswerWins
    BY DEF CInv
<1> QED BY <1>1, Invariance, PTL

(* An entry of the console's revision has the console's value, for every path *)
(* that no reader saw in the middle of a change by hand.                      *)
THEOREM CurrentIsTrue == Spec => []CurrentEntryIsTrue
<1>1. CInv => CurrentEntryIsTrue
    BY DEF CInv, KnownIsFaithful, Faithful, CurrentEntryIsTrue
<1> QED BY <1>1, Invariance, PTL

(* While a renewal is fresh the console still reports its changes: it is      *)
(* enough that a renewal, its wait included, fits in the lifetime.            *)
THEOREM FreshMeansSubscribed == Spec => []UnlockedMeansSubscribed
<1>1. CInv => UnlockedMeansSubscribed
    <2> SUFFICES ASSUME CInv, ~FailSafe PROVE heard # None
        BY DEF UnlockedMeansSubscribed
    <2>1. renewed # None /\ ~(renewed > Renewal)
        BY DEF FailSafe
    <2> QED BY <2>1 DEF CInv, AgesAgree
<1> QED BY <1>1, Invariance, PTL
================================================================================
