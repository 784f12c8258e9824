------------------------ MODULE MCAssignmentsHistory ------------------------
(* The promises of the README on small schools.                            *)
EXTENDS AssignmentsHistory
=============================================================================
