----------------------------- MODULE MCOcCalls -----------------------------
EXTENDS OcCalls
=============================================================================
