-------------------------- MODULE MCReadinessFlag ---------------------------
(* Instances of ReadinessFlag for TLC.                                     *)
EXTENDS ReadinessFlag

CONSTANTS s1, s2, w1, w2

TwoSubscribers == {s1, s2}
TwoWaiters == {w1, w2}
=============================================================================
