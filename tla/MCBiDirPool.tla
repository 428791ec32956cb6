---------------------------- MODULE MCBiDirPool ----------------------------
EXTENDS BiDirPool
=============================================================================
