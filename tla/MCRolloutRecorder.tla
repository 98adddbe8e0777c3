------------------------- MODULE MCRolloutRecorder --------------------------
(***************************************************************************)
(* The recorder with the submission loop and one other task.               *)
(***************************************************************************)
EXTENDS RolloutRecorder

CONSTANTS loop, turn, nobody

MCSenders == {loop, turn}
=============================================================================
