----------------------------- MODULE SpawnSlots -----------------------------
(***************************************************************************)
(* What the guards of a user session promise (trill-rs/core/src/agent):    *)
(* an agent takes a slot before it is spawned, there are `Limit` of them,  *)
(* and a slot is given back once.                                          *)
(***************************************************************************)
EXTENDS Integers, FiniteSets

CONSTANTS
    Agents,  \* Those who may take a slot.
    Limit    \* How many slots there are.

VARIABLE taken  \* The agents that hold one.

Init == taken = {}

Take(a) ==
    /\ a \notin taken
    /\ Cardinality(taken) < Limit
    /\ taken' = taken \cup {a}

Give(a) ==
    /\ a \in taken
    /\ taken' = taken \ {a}

Next == \E a \in Agents : Take(a) \/ Give(a)

Spec == Init /\ [][Next]_taken
=============================================================================
