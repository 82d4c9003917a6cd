------------------------------ MODULE MCRbTree ------------------------------
EXTENDS RbTree

\* Two nodes have the same key, so that one can replace the other.
MCKey == [n \in Nodes |-> IF n = 11 THEN 4 ELSE n]
=============================================================================
