--------------------------- MODULE MCGradeDispatch ---------------------------
(* A submission and a compilation, the gateway's runner and one worker.    *)
EXTENDS GradeDispatch
=============================================================================
