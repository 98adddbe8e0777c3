----------------------------- MODULE RolloutLog -----------------------------
(***************************************************************************)
(* What the rollout recorder promises to a session, in its own words:      *)
(* "Records all ResponseItems for a session and flushes them to disk".     *)
(* The items a session hands over are written one after another, none left *)
(* out; when the process ends, those not yet written are gone.             *)
(***************************************************************************)
EXTENDS Sequences

CONSTANT Items

VARIABLES
    stable,  \* The items on disk, of every process that wrote the file.
    pending  \* Those of this process that are not on disk yet.

logVars == <<stable, pending>>

Init ==
    /\ stable = <<>>
    /\ pending = <<>>

Append1(i) ==
    /\ pending' = Append(pending, i)
    /\ UNCHANGED stable

Append2(i, j) ==
    /\ pending' = pending \o <<i, j>>
    /\ UNCHANGED stable

Stabilise ==
    /\ pending # <<>>
    /\ stable' = Append(stable, Head(pending))
    /\ pending' = Tail(pending)

Lose ==
    /\ pending' = <<>>
    /\ UNCHANGED stable

Next ==
    \/ \E i \in Items : Append1(i)
    \/ \E i, j \in Items : Append2(i, j)
    \/ Stabilise
    \/ Lose

Spec == Init /\ [][Next]_logVars
=============================================================================
