------------------------- MODULE OneShotTransaction -------------------------
(***************************************************************************)
(* What the bridge promises of a proposed change: it is executed at most   *)
(* once, in a transaction of its own that sends its operations in order,   *)
(* each after the one before it was confirmed; it is said to be verified   *)
(* only when all of them were; and once closed it stays closed.  Nothing   *)
(* is said here of tool calls, datagrams, clocks or emergencies.           *)
(***************************************************************************)
EXTENDS Naturals

CONSTANTS
    Changes,            \* the changes that may be proposed
    Sizes               \* how many operations a change may have

VARIABLES
    state,              \* change -> "absent", "open", "running", "closed"
    size,               \* change -> its number of operations
    sent,               \* change -> how many of them were sent
    confirmed,          \* change -> those confirmed
    claims              \* change -> what was said of its transaction's end

txVars == <<state, size, sent, confirmed, claims>>

Init ==
    /\ state = [c \in Changes |-> "absent"]
    /\ size = [c \in Changes |-> 0]
    /\ sent = [c \in Changes |-> 0]
    /\ confirmed = [c \in Changes |-> {}]
    /\ claims = [c \in Changes |-> {}]

Offer(c, n) ==
    /\ state[c] = "absent"
    /\ state' = [state EXCEPT ![c] = "open"]
    /\ size' = [size EXCEPT ![c] = n]
    /\ UNCHANGED <<sent, confirmed, claims>>

\* One transaction at a time, and no second one for a change.
Begin(c) ==
    /\ state[c] = "open"
    /\ \A other \in Changes : state[other] # "running"
    /\ state' = [state EXCEPT ![c] = "running"]
    /\ UNCHANGED <<size, sent, confirmed, claims>>

Send(c) ==
    /\ state[c] = "running"
    /\ confirmed[c] = 1..sent[c]
    /\ sent[c] < size[c]
    /\ sent' = [sent EXCEPT ![c] = @ + 1]
    /\ UNCHANGED <<state, size, confirmed, claims>>

Confirm(c) ==
    /\ state[c] = "running"
    /\ sent[c] \notin confirmed[c]
    /\ confirmed' = [confirmed EXCEPT ![c] = @ \cup {sent[c]}]
    /\ UNCHANGED <<state, size, sent, claims>>

\* The transaction ends with a claim, which may fail to be put on record.
End(c, claim) ==
    /\ state[c] = "running"
    /\ claim = "verified" =>
           sent[c] = size[c] /\ confirmed[c] = 1..size[c]
    /\ state' = [state EXCEPT ![c] = "closed"]
    /\ claims' \in {claims, [claims EXCEPT ![c] = @ \cup {claim}]}
    /\ UNCHANGED <<size, sent, confirmed>>

\* Open changes are dropped without anything of them being sent.
Drop(some) ==
    /\ \A c \in some : state[c] = "open"
    /\ state' = [c \in Changes |-> IF c \in some THEN "closed" ELSE state[c]]
    /\ UNCHANGED <<size, sent, confirmed, claims>>

Next ==
    \/ \E c \in Changes :
           \/ \E n \in Sizes : Offer(c, n)
           \/ Begin(c)
           \/ Send(c)
           \/ Confirm(c)
           \/ \E claim \in {"verified", "failed"} : End(c, claim)
    \/ \E some \in SUBSET Changes : Drop(some)

Spec == Init /\ [][Next]_txVars
=============================================================================
