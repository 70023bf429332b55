------------------------- MODULE MCRegistrationOrder -------------------------
EXTENDS RegistrationOrder, TLC

(* The identifiers are ordered, the processes are not. *)
Symmetry == Permutations(Procs)
=============================================================================
