---------------------------- MODULE MCUpstream ----------------------------
(* Addresses are interchangeable: no action or invariant tells them apart. *)
EXTENDS Upstream, TLC

AddressSymmetry == Permutations(Address)
=============================================================================
