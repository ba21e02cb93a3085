------------------------- MODULE MCSessionManager -------------------------
\* Instance of SessionManager for TLC: two handlers over a small pipeline.
EXTENDS SessionManager
===========================================================================
