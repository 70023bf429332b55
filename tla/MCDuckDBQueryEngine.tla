------------------------ MODULE MCDuckDBQueryEngine ------------------------
(* DuckDBQueryEngine for TLC: the cfgs make each call a model value.       *)
EXTENDS DuckDBQueryEngine
=============================================================================
