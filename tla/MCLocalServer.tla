--------------------------- MODULE MCLocalServer ----------------------------
EXTENDS LocalServer

Data(i, n)  == [kind |-> "data", id |-> i, ids |-> <<>>, bytes |-> 4 + n]
Ctl(k, q)   == [kind |-> k, id |-> 0, ids |-> q, bytes |-> 6 + 2 * Len(q)]
Bare        == [kind |-> "other", id |-> 0, ids |-> <<>>, bytes |-> 4]

\* A publication, a subscription to two ids, of which the second may find no
\* memory, an unsubscription, and a header without payload.
BusPackets == {Data(1, 1), Ctl("subscribe", <<2, 1>>), Ctl("unsubscribe", <<1>>), Bare}
=============================================================================
