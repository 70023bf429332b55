---------------------------- MODULE MCDatasetApi ----------------------------
EXTENDS DatasetApi
=============================================================================
