--------------------------- MODULE MCAssignments ---------------------------
(* The assignment lifecycle on small schools.                              *)
EXTENDS Assignments, TLC

(* Students are interchangeable, and so are classes and tasks.             *)
SchoolSymmetry ==
  Permutations(Student) \cup Permutations(Class) \cup Permutations(Task)
=============================================================================
