---------------------------- MODULE MCRingQueue -----------------------------
\* The ring queue on small instances; see the configurations.
EXTENDS RingQueue
=============================================================================
