----------------------------- MODULE MCWorkers -----------------------------
(* A device that reports itself and one that is added over SSH, or one     *)
(* that is both, on a network with one or two addresses.                   *)
EXTENDS Workers
=============================================================================
