------------------------------ MODULE StateCache ------------------------------
(* The bridge's picture of the console: a cache whose entries are ordered by  *)
(* the revision each answer carries, filled by readers whose answers may be   *)
(* applied in any order, and the /xremote subscription whose age decides      *)
(* whether change reports can still be relied on. The console is the Fake M32 *)
(* server: one thread answers datagrams, and whoever stands at the console    *)
(* changes values from another.                                               *)
EXTENDS Naturals, FiniteSets

CONSTANTS Paths, Values,
          Renewal,      \* renewal_seconds
          Lifetime,     \* how long the console keeps a subscription
          Timeout,      \* how long a renewal waits for its answer
          MaxRevision,  \* bound: changes of the console
          MaxReaders,   \* bound: answers read and not yet applied
          None

ASSUME CacheAssumption ==
    /\ Renewal \in Nat /\ Lifetime \in Nat /\ Timeout \in Nat
    /\ Renewal + Timeout < Lifetime
    /\ MaxRevision \in Nat \ {0} /\ MaxReaders \in Nat
    /\ None \notin Values \cup (0 .. Lifetime)

VARIABLES value, revision,  \* the console: what it holds, one counter of changes
          half,             \* the path and value of a change begun by hand
          answers,          \* answers received, not yet applied
          cache,            \* values and revisions of the cache
          renewed,          \* time since last_renewed_at, or None
          heard,            \* time since the console heard /xremote, or None
          locked,           \* write_locked of the subscription
          asked,            \* time since the renewal in progress, or None
          newest,           \* history: the highest revision applied, per path
          torn              \* history: a path was read in the middle of its change

console == <<value, revision, half>>
cached  == <<answers, cache, newest, torn>>
remote  == <<renewed, heard, locked, asked>>
vars    == <<console, cached, remote>>

Answers == [path : Paths, value : Values, revision : 1 .. MaxRevision]
Entries == [value : Values, revision : 1 .. MaxRevision]
Empty   == [value |-> None, revision |-> 0]

Init == /\ value \in [Paths -> Values] /\ revision = 1 /\ half = None
        /\ answers = {} /\ cache = [p \in Paths |-> Empty]
        /\ renewed = None /\ heard = None /\ locked = FALSE /\ asked = None
        /\ newest = [p \in Paths |-> 0] /\ torn = {}

--------------------------------------------------------------------------------
(* set_value and set_gain, on a thread of their own: the revision is counted  *)
(* up first, and the value is stored after it.                                *)
BeginByHand(p, v) == /\ half = None /\ revision < MaxRevision
                     /\ half' = [path |-> p, value |-> v]
                     /\ revision' = revision + 1
                     /\ UNCHANGED <<value, cached, remote>>

EndByHand == /\ half # None
             /\ value' = [value EXCEPT ![half.path] = half.value]
             /\ half' = None
             /\ UNCHANGED <<revision, cached, remote>>

(* Mutant: a written value is stored without counting the revision up.        *)
HandleWriteUncounted(p, v) == /\ revision < MaxRevision
                              /\ value' = [value EXCEPT ![p] = v]
                              /\ UNCHANGED <<revision, half, cached, remote>>

(* Mutant: set_gain counts, and the handler counts once more.                 *)
HandleWriteCountedTwice(p, v) == /\ revision < MaxRevision
                                 /\ value' = [value EXCEPT ![p] = v]
                                 /\ revision' = revision + 2
                                 /\ UNCHANGED <<half, cached, remote>>

(* A write by datagram: one thread stores and counts before the next request. *)
HandleWrite(p, v) == /\ revision < MaxRevision
                     /\ value' = [value EXCEPT ![p] = v]
                     /\ revision' = revision + 1
                     /\ UNCHANGED <<half, cached, remote>>

--------------------------------------------------------------------------------
(* read_state_value: the answer names the console's revision, not the path's. *)
Read(p) == /\ Cardinality(answers) < MaxReaders
           /\ answers' = answers \cup
                 {[path |-> p, value |-> value[p], revision |-> revision]}
           /\ torn' = IF half # None /\ half.path = p THEN torn \cup {p} ELSE torn
           /\ UNCHANGED <<console, cache, newest, remote>>

Lose(a) == /\ answers' = answers \ {a}
           /\ UNCHANGED <<console, cache, newest, torn, remote>>

Higher(m, n) == IF m > n THEN m ELSE n

(* Mutant: whatever is applied last stays.                                    *)
ApplyLast(a) == /\ a \in answers
                /\ answers' = answers \ {a}
                /\ cache' = [cache EXCEPT ![a.path] =
                                [value |-> a.value, revision |-> a.revision]]
                /\ newest' = [newest EXCEPT ![a.path] = Higher(newest[a.path], a.revision)]
                /\ UNCHANGED <<console, torn, remote>>

(* StateCache.apply: what is not newer is reported as out of order, and kept  *)
(* out.                                                                       *)
Apply(a) == /\ a \in answers
            /\ answers' = answers \ {a}
            /\ cache' = IF a.revision > cache[a.path].revision
                          THEN [cache EXCEPT ![a.path] =
                                   [value |-> a.value, revision |-> a.revision]]
                          ELSE cache
            /\ newest' = [newest EXCEPT ![a.path] = Higher(newest[a.path], a.revision)]
            /\ UNCHANGED <<console, torn, remote>>

--------------------------------------------------------------------------------
(* XRemoteSubscription: the console hears /xremote and answers, or is silent. *)
Renew == /\ asked = None
         /\ asked' = 0
         /\ heard' \in {0, heard}
         /\ UNCHANGED <<console, cached, renewed, locked>>

(* Mutant: the renewal counts whether the console answered or not.            *)
TimedOutRenewed == /\ asked = Timeout
                   /\ asked' = None
                   /\ renewed' = 0 /\ locked' = FALSE
                   /\ UNCHANGED <<console, cached, heard>>

TimedOut == /\ asked = Timeout
            /\ asked' = None
            /\ UNCHANGED <<console, cached, renewed, heard, locked>>

Renewed == /\ asked # None
           /\ heard = asked
           /\ asked' = None
           /\ renewed' = 0 /\ locked' = FALSE
           /\ UNCHANGED <<console, cached, heard>>

FailSafe == renewed = None \/ renewed > Renewal

CheckFailSafe == /\ asked = None
                 /\ locked' = FailSafe
                 /\ UNCHANGED <<console, cached, renewed, heard, asked>>

(* Time passes; the console forgets a subscription at the end of its life.    *)
Older(t) == IF t = None THEN None ELSE IF t < Lifetime THEN t + 1 ELSE t

Tick == /\ asked # None => asked < Timeout
        /\ asked' = Older(asked) /\ renewed' = Older(renewed)
        /\ heard' = IF heard = Lifetime THEN None ELSE Older(heard)
        /\ UNCHANGED <<console, cached, locked>>

Next == \/ \E p \in Paths, v \in Values : BeginByHand(p, v) \/ HandleWrite(p, v)
        \/ EndByHand
        \/ \E p \in Paths : Read(p)
        \/ \E a \in answers : Apply(a) \/ Lose(a)
        \/ Renew \/ Renewed \/ TimedOut \/ CheckFailSafe \/ Tick

Spec == Init /\ [][Next]_vars

--------------------------------------------------------------------------------
Ages == 0 .. Lifetime

(* Every variable stays in its set.                                           *)
TypeOK == /\ value \in [Paths -> Values] /\ revision \in 1 .. MaxRevision
          /\ half \in [path : Paths, value : Values] \cup {None}
          /\ answers \in SUBSET Answers
          /\ cache \in [Paths -> Entries \cup {Empty}]
          /\ renewed \in Ages \cup {None} /\ heard \in Ages \cup {None}
          /\ asked \in 0 .. Timeout \cup {None} /\ locked \in BOOLEAN
          /\ newest \in [Paths -> 0 .. MaxRevision] /\ torn \subseteq Paths

(* However late or in whatever order the answers are applied, an entry is     *)
(* never older than the newest answer that was.                               *)
NewestAnswerWins == \A p \in Paths : cache[p].revision = newest[p]

(* An entry that has the console's revision has the console's value: nothing  *)
(* changed since. Only a path that was read in the middle of a change by hand *)
(* may have its old value under the new revision, and it then keeps it.       *)
CurrentEntryIsTrue ==
    \A p \in Paths \ torn : cache[p].revision = revision => cache[p].value = value[p]

(* A check of the subscription that leaves writing unlocked is made while the *)
(* console still reports its changes, although the bridge counts from the     *)
(* answer to a renewal and the console from the request.                      *)
UnlockedMeansSubscribed == asked = None /\ ~FailSafe => heard # None
================================================================================
