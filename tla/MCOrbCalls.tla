----------------------------- MODULE MCOrbCalls -----------------------------
EXTENDS OrbCalls
=============================================================================
