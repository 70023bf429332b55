-------------------------- MODULE MCDatasetProfiler --------------------------
(* DatasetProfiler for TLC.  The cells are symmetric. *)
EXTENDS DatasetProfiler, TLC

CONSTANTS v1, v2, v3

ThreeValues   == {v1, v2, v3}
ValueSymmetry == Permutations(ThreeValues)
=============================================================================
