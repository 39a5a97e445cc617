----------------------------- MODULE WriteGate -----------------------------
(***************************************************************************)
(* What the bridge promises of writes over a connection that may fail: a   *)
(* gate that is closed at first, that any miss closes, and that opens only *)
(* when the console has answered for every item asked about, one after     *)
(* the other, with no miss between them.  Writes go through an open gate.  *)
(***************************************************************************)
EXTENDS Naturals

CONSTANT Items          \* what the console must answer for

VARIABLES
    open,               \* writes are let through
    answered,           \* items answered for in the round in progress
    writes              \* writes let through so far

gateVars == <<open, answered, writes>>

Init ==
    /\ open = FALSE
    /\ answered = {}
    /\ writes = 0

NewRound ==
    /\ answered' = {}
    /\ UNCHANGED <<open, writes>>

Answer(i) ==
    /\ answered' = answered \cup {i}
    /\ UNCHANGED <<open, writes>>

Miss ==
    /\ open' = FALSE
    /\ answered' = {}
    /\ UNCHANGED writes

Open ==
    /\ answered = Items
    /\ open' = TRUE
    /\ UNCHANGED <<answered, writes>>

Write ==
    /\ open
    /\ writes' = writes + 1
    /\ UNCHANGED <<open, answered>>

Next ==
    \/ NewRound
    \/ \E i \in Items : Answer(i)
    \/ Miss
    \/ Open
    \/ Write

Spec == Init /\ [][Next]_gateVars
=============================================================================
