------------------------- MODULE MCGracefulShutdown -------------------------
EXTENDS GracefulShutdown
=============================================================================
