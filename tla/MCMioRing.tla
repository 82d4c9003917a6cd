----------------------------- MODULE MCMioRing ------------------------------
EXTENDS MioRing
=============================================================================
