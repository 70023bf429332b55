--------------------------- MODULE MCAssetLoading ---------------------------
(* AssetLoading for TLC.  Loads share nothing, so one is enough. *)
EXTENDS AssetLoading
=============================================================================
