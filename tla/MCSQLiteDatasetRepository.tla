---------------------- MODULE MCSQLiteDatasetRepository ----------------------
(* SQLiteDatasetRepository for TLC: process p1 has two threads, p2 has one. *)
EXTENDS SQLiteDatasetRepository, TLC

CONSTANTS p1, p2, t1, t2, t3, d1, d2

ThreeThreads   == {t1, t2, t3}
TwoProcs       == {p1, p2}
ThreadsOfProcs == (t1 :> p1) @@ (t2 :> p1) @@ (t3 :> p2)
TwoIds         == {d1, d2}
OneId          == {d1}

IdSymmetry == Permutations(TwoIds) \cup Permutations({t1, t2})
=============================================================================
