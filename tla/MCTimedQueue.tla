---------------------------- MODULE MCTimedQueue ----------------------------
EXTENDS TimedQueue
=============================================================================
