----------------------------- MODULE MCDriver -----------------------------
EXTENDS Driver
=============================================================================
