-------------------------- MODULE MCSessionHistory --------------------------
(***************************************************************************)
(* The history of a session that is small enough to check.                 *)
(***************************************************************************)
EXTENDS SessionHistory
=============================================================================
