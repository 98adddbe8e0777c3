------------------------------ MODULE MCAgents ------------------------------
(* An instance of Agents for TLC.                                          *)
EXTENDS Agents

CONSTANTS c1, c2, c3

ThreeCalls == {c1, c2, c3}
=============================================================================
