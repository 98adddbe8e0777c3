----------------------------- MODULE MCToolCalls -----------------------------
(* Small instances of ToolCalls for TLC.                                   *)
EXTENDS ToolCalls

EveryKind == AllKinds
ThreeKinds == AllKinds \ {"noId"}
OnlyParallel == {"parallel"}
=============================================================================
