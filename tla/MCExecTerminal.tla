--------------------------- MODULE MCExecTerminal ---------------------------
EXTENDS ExecTerminal

(* The runs are interchangeable.                                           *)
RunSymmetry == Permutations(Run)
=============================================================================
