----------------------------- MODULE MCBackend -----------------------------
\* Instance of Backend for TLC.
EXTENDS Backend
===========================================================================
