--------------------------- MODULE MCEvidenceStore ---------------------------
EXTENDS EvidenceStore, TLC

Symmetry == Permutations(Runs) \cup Permutations(Datasets) \cup Permutations(Columns)
=============================================================================
