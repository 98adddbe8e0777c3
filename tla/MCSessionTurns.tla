--------------------------- MODULE MCSessionTurns ---------------------------
(* Instances of SessionTurns for TLC.                                      *)
EXTENDS SessionTurns

\* The kinds a run lets the client start.
OnlyInput == {"regular"}
InputAndReviews == {"regular", "review"}

\* No action reads the events, what was recorded or whose processes there are, and of the
\* events the properties of the larger runs read which ends of turns were sent: states that
\* differ in nothing else are the same.
EndsOnly ==
    <<loopVars, turnVars, taskVars, abortVars, tools, marker, writing,
      {events[i] : i \in {k \in DOMAIN events : events[k].type \in {"TurnComplete", "TurnAborted"}}}>>
=============================================================================
