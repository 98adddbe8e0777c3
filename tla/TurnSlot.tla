------------------------------ MODULE TurnSlot ------------------------------
(***************************************************************************)
(* What a session promises about its turns (trill-rs/core/src/tasks): one  *)
(* turn is in force at a time; whoever wants the next one has to evict it, *)
(* and cannot wait for it; an evicted turn may still complete; each kind   *)
(* of end is reported once, and only of a turn that came to that end.      *)
(***************************************************************************)
CONSTANT Turns

VARIABLES
    phase,      \* Of each turn.
    evicted,    \* The turns told to stop.
    completed,  \* The turns reported complete.
    aborted     \* The turns reported aborted.

slotVars == <<phase, evicted, completed, aborted>>

InForce(t) == phase[t] = "running" /\ t \notin evicted

Enter(t, p) == phase' = [phase EXCEPT ![t] = p]

Init ==
    /\ phase = [t \in Turns |-> "fresh"]
    /\ evicted = {}
    /\ completed = {}
    /\ aborted = {}

Start(t) ==
    /\ phase[t] = "fresh"
    /\ \A u \in Turns : ~InForce(u)
    /\ Enter(t, "running")
    /\ UNCHANGED <<evicted, completed, aborted>>

Evict(t) ==
    /\ phase[t] # "fresh"
    /\ t \notin evicted
    /\ evicted' = evicted \cup {t}
    /\ UNCHANGED <<phase, completed, aborted>>

\* The turn does nothing more but report that it is complete.
Finish(t) ==
    /\ phase[t] = "running"
    /\ Enter(t, "completing")
    /\ UNCHANGED <<evicted, completed, aborted>>

ReportComplete(t) ==
    /\ phase[t] = "completing"
    /\ Enter(t, "over")
    /\ completed' = completed \cup {t}
    /\ UNCHANGED <<evicted, aborted>>

\* A turn stops because it was evicted; one that is completing may be lost.
Stop(t) ==
    /\ \/ phase[t] = "running" /\ t \in evicted
       \/ phase[t] = "completing"
    /\ Enter(t, "over")
    /\ UNCHANGED <<evicted, completed, aborted>>

ReportAborted(t) ==
    /\ t \in evicted \ aborted
    /\ aborted' = aborted \cup {t}
    /\ UNCHANGED <<phase, evicted, completed>>

Next ==
    \E t \in Turns :
        \/ Start(t) \/ Evict(t) \/ Finish(t) \/ ReportComplete(t) \/ Stop(t)
        \/ ReportAborted(t)

Spec == Init /\ [][Next]_slotVars
=============================================================================
