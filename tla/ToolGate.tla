------------------------------ MODULE ToolGate ------------------------------
(***************************************************************************)
(* What the gate of a turn promises (the Readiness trait of                *)
(* trill-rs/utils/readiness): it opens once and for good, and a tool call  *)
(* that mutates goes through only while it is open.                        *)
(***************************************************************************)
CONSTANT Waiters  \* The tool calls that wait at the gate.

VARIABLES
    open,     \* May a call go through?
    through   \* The calls that went through.

Init ==
    /\ open = FALSE
    /\ through = {}

Open ==
    /\ ~open
    /\ open' = TRUE
    /\ UNCHANGED through

GoThrough(w) ==
    /\ open
    /\ through' = through \cup {w}
    /\ UNCHANGED open

Next == Open \/ \E w \in Waiters : GoThrough(w)

Spec == Init /\ [][Next]_<<open, through>>
=============================================================================
