------------------------- MODULE MCRefreshScheduler -------------------------
EXTENDS RefreshScheduler
=============================================================================
