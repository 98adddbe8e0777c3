-------------------------- MODULE MCAppServerTurns --------------------------
(* A small instance of AppServerTurns for TLC.                             *)
EXTENDS AppServerTurns

EveryKind == AllKinds
=============================================================================
