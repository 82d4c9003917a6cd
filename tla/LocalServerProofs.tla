------------------------- MODULE LocalServerProofs --------------------------
(***************************************************************************)
(* The lists of the broker stay consistent, its receive buffer is large    *)
(* enough, and it implements PubSub, for any number of clients, ids,       *)
(* references and packets and for every way of cutting the streams.        *)
(***************************************************************************)
EXTENDS LocalServer, TLAPS

\* The lengths of packets are numbers, the smallest being that of a header.
LEMMA PacketBytes == \A p \in Packets : p.bytes \in Nat /\ p.bytes >= 4 /\ p.bytes <= MaxPkt
  BY ServerAssumption

(***************************************************************************)
(* The packets of q take n bytes: e[i] is the end of packet i.  Stated     *)
(* with a witness instead of a sum, this needs no induction.               *)
(***************************************************************************)
Layout(q, n) ==
  \E e \in [0..Len(q) -> Int] :
    /\ e[0] = 0
    /\ \A i \in 1..Len(q) : e[i] = e[i - 1] + q[i].bytes
    /\ e[Len(q)] = n

\* No packets take no bytes.
LEMMA LayoutEmpty == \A n : Layout(<<>>, n) <=> n = 0
<1>1. \A n : Layout(<<>>, n) => n = 0
  BY DEF Layout
<1>2. Layout(<<>>, 0)
  <2> DEFINE e == [i \in 0..0 |-> 0]
  <2>1. e \in [0..Len(<<>>) -> Int] /\ e[0] = 0 /\ e[Len(<<>>)] = 0
    OBVIOUS
  <2>2. \A i \in 1..Len(<<>>) : e[i] = e[i - 1] + <<>>[i].bytes
    OBVIOUS
  <2> HIDE DEF e
  <2> QED
    BY <2>1, <2>2 DEF Layout
<1> QED
  BY <1>1, <1>2

\* A packet that is sent adds its length.
LEMMA LayoutAppend ==
  ASSUME NEW q \in Seq(Packets), NEW p \in Packets, NEW n \in Int, Layout(q, n)
  PROVE  Layout(Append(q, p), n + p.bytes)
<1> USE PacketBytes
<1>1. PICK e \in [0..Len(q) -> Int] :
        /\ e[0] = 0
        /\ \A i \in 1..Len(q) : e[i] = e[i - 1] + q[i].bytes
        /\ e[Len(q)] = n
  BY DEF Layout
<1> DEFINE s == Append(q, p)
           d == [i \in 0..Len(s) |-> IF i = Len(s) THEN n + p.bytes ELSE e[i]]
<1>2. Len(s) = Len(q) + 1 /\ Len(q) \in Nat /\ p.bytes \in Int
  OBVIOUS
<1>3. d \in [0..Len(s) -> Int] /\ d[0] = 0 /\ d[Len(s)] = n + p.bytes
  BY <1>1, <1>2
<1>4. ASSUME NEW i \in 1..Len(s) PROVE d[i] = d[i - 1] + s[i].bytes
  <2>1. CASE i = Len(s)
    BY <1>1, <1>2, <2>1
  <2>2. CASE i # Len(s)
    <3>1. i \in 1..Len(q) /\ s[i] = q[i] /\ i - 1 \in 0..Len(s) /\ i - 1 # Len(s)
      BY <1>2, <2>2
    <3> QED
      BY <1>1, <1>2, <2>2, <3>1
  <2> QED
    BY <2>1, <2>2
<1> HIDE DEF d
<1> QED
  BY <1>3, <1>4 DEF Layout

\* A packet that is parsed takes its length away.
LEMMA LayoutTail ==
  ASSUME NEW q \in Seq(Packets), q # <<>>, NEW n \in Int, Layout(q, n)
  PROVE  Layout(Tail(q), n - Head(q).bytes)
<1> USE PacketBytes
<1>1. PICK e \in [0..Len(q) -> Int] :
        /\ e[0] = 0
        /\ \A i \in 1..Len(q) : e[i] = e[i - 1] + q[i].bytes
        /\ e[Len(q)] = n
  BY DEF Layout
<1> DEFINE t == Tail(q)
           d == [i \in 0..Len(t) |-> e[i + 1] - e[1]]
<1>2. /\ Len(q) \in Nat /\ Len(q) >= 1 /\ Len(t) = Len(q) - 1 /\ Head(q) = q[1]
      /\ q[1] \in Packets /\ q[1].bytes \in Int
  OBVIOUS
<1>3. e[1] = Head(q).bytes
  BY <1>1, <1>2
<1>4. d \in [0..Len(t) -> Int] /\ d[0] = 0 /\ d[Len(t)] = n - Head(q).bytes
  BY <1>1, <1>2, <1>3
<1>5. ASSUME NEW i \in 1..Len(t) PROVE d[i] = d[i - 1] + t[i].bytes
  <2>1. t[i] = q[i + 1] /\ i + 1 \in 1..Len(q) /\ q[i + 1].bytes \in Int
    BY <1>2
  <2>2. e[i + 1] = e[i] + q[i + 1].bytes
    BY <1>1, <2>1
  <2>3. d[i] = e[i + 1] - e[1] /\ d[i - 1] = e[i] - e[1]
    BY <1>2
  <2>4. e[1] \in Int /\ e[i] \in Int
    BY <1>1, <1>2
  <2> HIDE DEF d, t
  <2> QED
    BY <2>1, <2>2, <2>3, <2>4
<1> HIDE DEF d
<1> QED
  BY <1>4, <1>5 DEF Layout
-----------------------------------------------------------------------------
(***************************************************************************)
(* The subscription lists.                                                 *)
(***************************************************************************)
\* The callback works for a client that exists, and has the whole control
\* packet whose ids it goes through.
CallbackInv ==
  /\ pc \notin {"idle", "ended"} => cur \in connected
  /\ pc \in {"subscribe", "unsubscribe"} => Complete

\* The buffer and the sizes of reads are numbers.
LEMMA Sizes == /\ RxBuf \in Nat /\ MaxPkt \in Nat /\ RxBuf > MaxPkt /\ MaxPkt >= 4
               /\ ReadSizes \subseteq Nat /\ 0 \notin Ids /\ Clients # {}
  BY ServerAssumption

\* A control packet lists ids.
LEMMA PacketIds == \A p \in Packets : p.kind \in Kinds /\ p.ids \in Seq(Ids)
  BY ServerAssumption

\* Adding to, or taking from, one counter of a family keeps its bounds.
LEMMA CounterUpdate ==
  ASSUME NEW S, NEW c \in S, NEW f, NEW T, f \in [S -> T], NEW v \in T
  PROVE  [f EXCEPT ![c] = v] \in [S -> T]
  OBVIOUS

\* The types are kept by every step.
LEMMA TypeStep ==
  ASSUME TypeOK, CallbackInv, [Next]_vars
  PROVE  TypeOK'
<1> USE Sizes DEF TypeOK
<1>1. ASSUME NEW c \in Clients, NEW p \in Packets, Send(c, p) PROVE TypeOK'
  <2>1. p.bytes \in Nat
    BY PacketBytes
  <2>4. stream[c] \in Seq(Packets)
    OBVIOUS
  <2>5. Append(stream[c], p) \in Seq(Packets)
    BY <2>4
  <2>2. stream' \in [Clients -> Seq(Packets)]
    BY <1>1, <2>5 DEF Send
  <2>6. unread' = [unread EXCEPT ![c] = unread[c] + p.bytes] /\ sent' = sent + 1
    BY <1>1 DEF Send
  <2>8. unread \in [Clients -> Nat] /\ sent \in Nat
    OBVIOUS
  <2>9. unread[c] \in Nat
    BY <2>8, Zenon
  <2>7. unread[c] + p.bytes \in Nat /\ sent + 1 \in Nat
    <3> HIDE Sizes DEF TypeOK
    <3> QED
      BY <2>1, <2>8, <2>9
  <2>3. unread' \in [Clients -> Nat] /\ sent' \in Nat
    <3> HIDE Sizes DEF TypeOK
    <3> QED
      BY <2>6, <2>7, <2>8, CounterUpdate
  <2> QED
    BY <1>1, <2>2, <2>3 DEF Send, lists, mio
<1>2. ASSUME NEW c \in Clients, Close(c) PROVE TypeOK'
  BY <1>2 DEF Close, lists, wire, mio
<1>3. ASSUME NEW c \in Clients, listen_fd_rd_callback(c) PROVE TypeOK'
  BY <1>3 DEF listen_fd_rd_callback, mio
<1>4. ASSUME NEW c \in Clients, Transmit(c) PROVE TypeOK'
  BY <1>4 DEF Transmit, lists, wire, mio
<1>5. ASSUME NEW c \in Clients, ReadSome(c) PROVE TypeOK'
  <2> DEFINE most == Lesser(unread[c], Room(c))
  <2>3. PICK k \in {n \in ReadSizes : 1 <= n /\ n <= most} \cup {most} :
          /\ rx_idx' = [rx_idx EXCEPT ![c] = @ + k]
          /\ unread' = [unread EXCEPT ![c] = @ - k]
    BY <1>5 DEF ReadSome
  <2>4. unread[c] \in Nat /\ rx_idx[c] \in 0..RxBuf /\ unread[c] > 0 /\ Room(c) > 0
    BY <1>5 DEF ReadSome
  <2>7. RxBuf \in Nat
    OBVIOUS
  <2>5. most \in Nat /\ 1 <= most /\ most <= unread[c] /\ most <= RxBuf - rx_idx[c]
    <3> HIDE Sizes DEF TypeOK
    <3> QED
      BY <2>4, <2>7 DEF Lesser, Room
  <2>1. k \in Int /\ 1 <= k /\ k <= unread[c] /\ k <= RxBuf - rx_idx[c]
    <3>1. \A n \in ReadSizes : n \in Nat
      OBVIOUS
    <3> HIDE Sizes DEF most, TypeOK
    <3> QED
      BY <2>4, <2>5, <2>7, <3>1
  <2>6. rx_idx[c] + k \in 0..RxBuf /\ unread[c] - k \in Nat
    <3> HIDE Sizes DEF most, TypeOK
    <3> QED
      BY <2>1, <2>4, <2>7
  <2>2. rx_idx' \in [Clients -> 0..RxBuf] /\ unread' \in [Clients -> Nat]
    <3>1. rx_idx \in [Clients -> 0..RxBuf] /\ unread \in [Clients -> Nat]
      OBVIOUS
    <3> HIDE Sizes DEF TypeOK, most
    <3> QED
      BY <2>3, <2>6, <3>1, CounterUpdate
  <2> QED
    BY <1>5, <2>2 DEF ReadSome, lists, mio
<1>6. ASSUME Consume, Complete
      PROVE  /\ stream' \in [Clients -> Seq(Packets)]
             /\ rx_idx' \in [Clients -> 0..RxBuf]
             /\ UNCHANGED <<connected, unread, hung, deaf, unreaped, cur, sent>>
  <2>1. /\ stream[cur] \in Seq(Packets) /\ stream[cur] # <<>>
        /\ Pkt.bytes <= rx_idx[cur] /\ rx_idx[cur] \in 0..RxBuf
    BY <1>6 DEF Complete
  <2>2. Pkt \in Packets /\ Tail(stream[cur]) \in Seq(Packets)
    BY <2>1 DEF Pkt
  <2>3. Pkt.bytes \in Nat
    BY <2>2, PacketBytes
  <2>4. stream' \in [Clients -> Seq(Packets)]
    BY <1>6, <2>2 DEF Consume
  <2>6. rx_idx' = [rx_idx EXCEPT ![cur] = rx_idx[cur] - Pkt.bytes]
    BY <1>6 DEF Consume
  <2>7. rx_idx[cur] - Pkt.bytes \in 0..RxBuf
    <3> HIDE DEF TypeOK
    <3> QED
      BY <2>1, <2>3
  <2>5. rx_idx' \in [Clients -> 0..RxBuf]
    <3>1. rx_idx \in [Clients -> 0..RxBuf] /\ cur \in Clients
      OBVIOUS
    <3> HIDE Sizes DEF TypeOK
    <3> QED
      BY <2>6, <2>7, <3>1, CounterUpdate
  <2> QED
    BY <1>6, <2>4, <2>5 DEF Consume, mio
<1>7. CASE dispatch_pkt
  BY <1>6, <1>7 DEF dispatch_pkt, lists
<1>8. CASE ParseControl
  <2>1. stream[cur] \in Seq(Packets) /\ stream[cur] # <<>>
    BY <1>8 DEF ParseControl, Complete
  <2>2. Pkt \in Packets
    BY <2>1 DEF Pkt
  <2>3. todo' \in Seq(Ids) /\ pc' \in {"subscribe", "unsubscribe"}
    BY <1>8, <2>2, PacketIds DEF ParseControl
  <2> QED
    BY <1>8, <2>3 DEF ParseControl, lists, wire, mio
<1>9. CASE subscribe_pkt
  <2>1. Head(todo) \in Ids /\ Tail(todo) \in Seq(Ids)
    BY <1>9 DEF subscribe_pkt
  <2>2. CASE UNCHANGED lists
    BY <1>9, <2>1, <2>2 DEF subscribe_pkt, lists, wire, mio
  <2>3. CASE ~UNCHANGED lists
    <3>1. PICK r \in Refs \ refs :
            /\ refs' = refs \cup {r}
            /\ refClient' = [refClient EXCEPT ![r] = cur]
            /\ idList' = [idList EXCEPT ![Head(todo)] = @ \cup {r}]
            /\ refList' = [refList EXCEPT ![cur] = @ \cup {r}]
      BY <1>9, <2>3 DEF subscribe_pkt
    <3>2. /\ refs' \subseteq Refs /\ refClient' \in [Refs -> Clients]
          /\ idList' \in [Ids -> SUBSET Refs] /\ refList' \in [Clients -> SUBSET Refs]
      BY <2>1, <3>1
    <3> QED
      BY <1>9, <2>1, <3>2 DEF subscribe_pkt, wire, mio
  <2> QED
    BY <2>2, <2>3
<1>10. CASE unsubscribe_pkt
  BY <1>10 DEF unsubscribe_pkt, wire, mio
<1>11. CASE ControlDone
  BY <1>6, <1>11 DEF ControlDone, CallbackInv, lists
<1>12. CASE ParseOther
  BY <1>6, <1>12 DEF ParseOther, lists
<1>13. CASE ParseEnd
  BY <1>13 DEF ParseEnd, lists, wire, mio
<1>14. ASSUME NEW c \in Clients, Drop(c) PROVE TypeOK'
  BY <1>14 DEF Drop, wire, mio
<1>15. CASE UNCHANGED vars
  BY <1>15 DEF vars, lists, wire, mio
<1>16. CASE Reap \/ LoopEnds
  BY <1>16 DEF Reap, LoopEnds, lists, wire, mio
<1> QED
  BY <1>1, <1>2, <1>3, <1>4, <1>5, <1>7, <1>8, <1>9, <1>10, <1>11, <1>12, <1>13, <1>14, <1>15,
     <1>16
     DEF Next, Parse

\* The packet in hand stays complete while its ids are gone through, whatever
\* the client sends meanwhile.
LEMMA CallbackStep ==
  ASSUME TypeOK, CallbackInv, [Next]_vars
  PROVE  CallbackInv'
<1>1. ASSUME NEW c \in Clients, NEW p \in Packets, Send(c, p) PROVE CallbackInv'
  <2>1. /\ UNCHANGED <<connected, rx_idx, pc, cur>>
        /\ stream[cur] \in Seq(Packets)
        /\ stream'[cur] = IF cur = c THEN Append(stream[cur], p) ELSE stream[cur]
    BY <1>1 DEF Send, TypeOK
  <2>2. stream[cur] # <<>> => stream'[cur] # <<>> /\ Head(stream'[cur]) = Head(stream[cur])
    <3>1. CASE cur = c
      BY <2>1, <3>1
    <3>2. CASE cur # c
      BY <2>1, <3>2
    <3> QED
      BY <3>1, <3>2
  <2> QED
    BY <2>1, <2>2 DEF CallbackInv, Complete, Pkt
<1>2. ASSUME UNCHANGED <<connected, wire, cur, pc>> PROVE CallbackInv'
  BY <1>2 DEF CallbackInv, Complete, Pkt, wire
<1>3. ASSUME NEW c \in Clients, Close(c) \/ Transmit(c) PROVE CallbackInv'
  BY <1>2, <1>3 DEF Close, Transmit
<1>4. CASE subscribe_pkt \/ unsubscribe_pkt
  BY <1>2, <1>4 DEF subscribe_pkt, unsubscribe_pkt
<1>5. CASE UNCHANGED vars
  BY <1>2, <1>5 DEF vars
<1>6. ASSUME NEW c \in Clients, listen_fd_rd_callback(c) \/ Drop(c) PROVE CallbackInv'
  BY <1>6 DEF listen_fd_rd_callback, Drop, CallbackInv
<1>7. ASSUME NEW c \in Clients, ReadSome(c) PROVE CallbackInv'
  BY <1>7 DEF ReadSome, CallbackInv
<1>8. CASE dispatch_pkt \/ ControlDone \/ ParseOther
  BY <1>8 DEF dispatch_pkt, ControlDone, ParseOther, Consume, CallbackInv
<1>9. CASE ParseControl
  BY <1>9 DEF ParseControl, CallbackInv, Complete, Pkt, wire
<1>10. CASE ParseEnd
  BY <1>10 DEF ParseEnd, CallbackInv
<1>11. CASE Reap \/ LoopEnds
  BY <1>2, <1>11 DEF Reap, LoopEnds, CallbackInv
<1> QED
  BY <1>1, <1>3, <1>4, <1>5, <1>6, <1>7, <1>8, <1>9, <1>10, <1>11 DEF Next, Parse

\* Steps that leave the lists and the clients alone keep them consistent.
LEMMA ListsUnchanged ==
  ASSUME SubscriptionsConsistent, UNCHANGED <<lists, connected>>
  PROVE  SubscriptionsConsistent'
  BY DEF SubscriptionsConsistent, lists

\* A new reference enters both lists, and only if the client has none there.
LEMMA SubscribeKeepsLists ==
  ASSUME TypeOK, SubscriptionsConsistent, CallbackInv, subscribe_pkt
  PROVE  SubscriptionsConsistent'
<1> DEFINE id == Head(todo)
<1>1. id \in Ids /\ cur \in connected /\ cur \in Clients /\ connected' = connected
  BY DEF subscribe_pkt, TypeOK, CallbackInv
<1>2. CASE UNCHANGED lists
  BY <1>1, <1>2, ListsUnchanged
<1>3. CASE ~UNCHANGED lists
  <2>1. PICK r \in Refs \ refs :
          /\ Own(id) = {}
          /\ refs' = refs \cup {r}
          /\ refClient' = [refClient EXCEPT ![r] = cur]
          /\ idList' = [idList EXCEPT ![id] = @ \cup {r}]
          /\ refList' = [refList EXCEPT ![cur] = @ \cup {r}]
    BY <1>3 DEF subscribe_pkt
  <2> HIDE DEF id
  <2>2. /\ refClient \in [Refs -> Clients] /\ idList \in [Ids -> SUBSET Refs]
        /\ refList \in [Clients -> SUBSET Refs] /\ refs \subseteq Refs
    BY DEF TypeOK
  <2>3. /\ refClient'[r] = cur
        /\ \A s \in refs : refClient'[s] = refClient[s]
    BY <2>1, <2>2
  <2>4. /\ \A i \in Ids : idList'[i] = IF i = id THEN idList[i] \cup {r} ELSE idList[i]
        /\ \A c \in Clients : refList'[c] = IF c = cur THEN refList[c] \cup {r} ELSE refList[c]
    BY <1>1, <2>1, <2>2
  <2>5. /\ \A i \in Ids : idList[i] \subseteq refs
        /\ \A c \in Clients : \A s \in refList[c] : s \in refs /\ refClient[s] = c
    BY DEF SubscriptionsConsistent
  <2>6. /\ \A i \in Ids : idList'[i] \subseteq refs'
        /\ \A c \in Clients : \A s \in refList'[c] : s \in refs' /\ refClient'[s] = c
    BY <2>1, <2>3, <2>4, <2>5
  <2>7. ASSUME NEW s \in refs'
        PROVE  /\ refClient'[s] \in connected'
               /\ s \in refList'[refClient'[s]]
               /\ \E i \in Ids : s \in idList'[i]
    <3>1. CASE s = r
      BY <1>1, <2>3, <2>4, <3>1
    <3>2. CASE s \in refs
      <4>1. /\ refClient[s] \in connected /\ refClient[s] \in Clients
            /\ s \in refList[refClient[s]]
            /\ \E i \in Ids : s \in idList[i]
        BY <2>2, <3>2 DEF SubscriptionsConsistent
      <4> QED
        BY <1>1, <2>3, <2>4, <3>2, <4>1
    <3> QED
      BY <2>1, <3>1, <3>2
  <2>8. ASSUME NEW i \in Ids, NEW j \in Ids, i # j PROVE idList'[i] \cap idList'[j] = {}
    BY <2>1, <2>4, <2>5, <2>8 DEF SubscriptionsConsistent
  <2>9. ASSUME NEW i \in Ids, NEW s \in idList'[i], NEW t \in idList'[i],
               refClient'[s] = refClient'[t]
        PROVE  s = t
    <3>1. CASE s \in refs /\ t \in refs
      <4>1. s \in idList[i] /\ t \in idList[i]
        BY <2>1, <2>4, <3>1
      <4> QED
        BY <2>3, <2>9, <3>1, <4>1 DEF SubscriptionsConsistent
    <3>2. \A u \in idList[id] : refClient[u] # cur
      BY <2>1 DEF Own
    <3>3. CASE s = r
      BY <1>1, <2>1, <2>3, <2>4, <2>5, <2>9, <3>2, <3>3
    <3>4. CASE t = r
      BY <1>1, <2>1, <2>3, <2>4, <2>5, <2>9, <3>2, <3>4
    <3> QED
      BY <2>1, <2>6, <3>1, <3>3, <3>4
  <2> QED
    BY <2>6, <2>7, <2>8, <2>9 DEF SubscriptionsConsistent
<1> QED
  BY <1>2, <1>3

\* References that leave the list of an id leave the client's list too.
LEMMA UnsubscribeKeepsLists ==
  ASSUME TypeOK, SubscriptionsConsistent, unsubscribe_pkt
  PROVE  SubscriptionsConsistent'
<1> DEFINE id == Head(todo)
           gone == Own(id)
<1>1. /\ id \in Ids /\ connected' = connected /\ refClient' = refClient
      /\ idList' = [idList EXCEPT ![id] = @ \ gone]
      /\ refList' = [c \in Clients |-> refList[c] \ gone]
      /\ refs' = refs \ gone
  BY DEF unsubscribe_pkt, TypeOK
<1>2. gone \subseteq idList[id] /\ idList \in [Ids -> SUBSET Refs] /\ refClient \in [Refs -> Clients]
      /\ refs \subseteq Refs
  BY DEF Own, TypeOK
<1> HIDE DEF id, gone
<1>3. \A i \in Ids : idList'[i] = idList[i] \ gone
  <2> SUFFICES ASSUME NEW i \in Ids PROVE idList'[i] = idList[i] \ gone
    OBVIOUS
  <2>1. CASE i = id
    BY <1>1, <1>2, <2>1
  <2>2. CASE i # id
    <3>1. idList[i] \cap idList[id] = {}
      BY <1>1, <2>2 DEF SubscriptionsConsistent
    <3> QED
      BY <1>1, <1>2, <2>2, <3>1
  <2> QED
    BY <2>1, <2>2
<1>4. \A c \in Clients : refList'[c] = refList[c] \ gone
  BY <1>1
<1>5. \A r \in refs : refClient[r] \in Clients
  BY <1>2
<1> QED
  BY <1>1, <1>3, <1>4, <1>5 DEF SubscriptionsConsistent

\* The end of a client frees its references and no others.
LEMMA DropKeepsLists ==
  ASSUME TypeOK, SubscriptionsConsistent, NEW c \in Clients, Drop(c)
  PROVE  SubscriptionsConsistent'
<1>1. /\ connected' = connected \ {c} /\ refClient' = refClient
      /\ \A i \in Ids : idList'[i] = idList[i] \ refList[c]
      /\ \A d \in Clients : refList'[d] = IF d = c THEN {} ELSE refList[d]
      /\ refs' = refs \ refList[c]
  BY DEF Drop, TypeOK
<1>2. \A r \in refs : refClient[r] \in Clients
  BY DEF TypeOK
<1>3. \A r \in refs' : refClient[r] # c
  BY <1>1 DEF SubscriptionsConsistent
<1>4. ASSUME NEW d \in Clients, NEW r \in refList'[d] PROVE r \in refs' /\ refClient'[r] = d
  BY <1>1, <1>4 DEF SubscriptionsConsistent
<1>5. \A i \in Ids : idList'[i] \subseteq refs'
  BY <1>1 DEF SubscriptionsConsistent
<1>6. ASSUME NEW r \in refs'
      PROVE  /\ refClient'[r] \in connected' /\ r \in refList'[refClient'[r]]
             /\ \E i \in Ids : r \in idList'[i]
  BY <1>1, <1>2, <1>3 DEF SubscriptionsConsistent
<1>7. \A i, j \in Ids : i # j => idList'[i] \cap idList'[j] = {}
  BY <1>1 DEF SubscriptionsConsistent
<1>8. \A i \in Ids : \A r, s \in idList'[i] : refClient'[r] = refClient'[s] => r = s
  BY <1>1 DEF SubscriptionsConsistent
<1> QED
  BY <1>4, <1>5, <1>6, <1>7, <1>8 DEF SubscriptionsConsistent

\* A new client starts without references, whatever its memory held before.
LEMMA AcceptKeepsLists ==
  ASSUME TypeOK, SubscriptionsConsistent, NEW c \in Clients, listen_fd_rd_callback(c)
  PROVE  SubscriptionsConsistent'
<1>1. refList[c] = {}
  <2>1. \A r \in refList[c] : r \in refs /\ refClient[r] = c
    BY DEF SubscriptionsConsistent
  <2>2. \A r \in refs : refClient[r] \in connected
    BY DEF SubscriptionsConsistent
  <2> QED
    BY <2>1, <2>2 DEF listen_fd_rd_callback
<1>2. /\ refList' = refList /\ connected' = connected \cup {c}
      /\ UNCHANGED <<refs, refClient, idList>>
  BY <1>1 DEF listen_fd_rd_callback, TypeOK
<1> QED
  BY <1>2 DEF SubscriptionsConsistent

\* The conjunction is inductive.
ListsInv == TypeOK /\ CallbackInv /\ SubscriptionsConsistent

\* At all times: types, callback and lists.
LEMMA ListsInvariance == Spec => []ListsInv
<1>1. Init => ListsInv
  <2> SUFFICES ASSUME Init PROVE ListsInv
    OBVIOUS
  <2>1. (CHOOSE c \in Clients : TRUE) \in Clients
    BY Sizes
  <2>2. TypeOK
    <3>1. unreaped \in BOOLEAN
      BY Zenon DEF Init
    <3> QED
      BY <2>1, <3>1, Sizes DEF Init, TypeOK
  <2> QED
    BY <2>2 DEF ListsInv, Init, CallbackInv, SubscriptionsConsistent
<1>2. ListsInv /\ [Next]_vars => ListsInv'
  <2> SUFFICES ASSUME ListsInv, [Next]_vars PROVE ListsInv'
    OBVIOUS
  <2>1. TypeOK /\ CallbackInv /\ SubscriptionsConsistent
    BY DEF ListsInv
  <2>2. SubscriptionsConsistent'
    <3>1. ASSUME NEW c \in Clients, NEW p \in Packets, Send(c, p) PROVE SubscriptionsConsistent'
      BY <2>1, <3>1, ListsUnchanged DEF Send
    <3>2. ASSUME NEW c \in Clients, Close(c) \/ Transmit(c) \/ ReadSome(c)
          PROVE  SubscriptionsConsistent'
      BY <2>1, <3>2, ListsUnchanged DEF Close, Transmit, ReadSome
    <3>3. CASE dispatch_pkt \/ ControlDone \/ ParseOther
      BY <2>1, <3>3, ListsUnchanged DEF dispatch_pkt, ControlDone, ParseOther, Consume
    <3>4. CASE ParseControl \/ ParseEnd
      BY <2>1, <3>4, ListsUnchanged DEF ParseControl, ParseEnd
    <3>5. CASE UNCHANGED vars
      BY <2>1, <3>5, ListsUnchanged DEF vars
    <3>6. CASE Reap \/ LoopEnds
      BY <2>1, <3>6, ListsUnchanged DEF Reap, LoopEnds
    <3> QED
      BY <2>1, <3>1, <3>2, <3>3, <3>4, <3>5, <3>6, SubscribeKeepsLists, UnsubscribeKeepsLists,
         DropKeepsLists, AcceptKeepsLists DEF Next, Parse
  <2> QED
    BY <2>1, <2>2, TypeStep, CallbackStep DEF ListsInv
<1> QED
  BY <1>1, <1>2, PTL DEF Spec

\* The broker's variables keep their types: in particular no read of
\* com_fd_rd_callback goes beyond rx_buf.
THEOREM TypeCorrect == Spec => []TypeOK
<1>1. ListsInv => TypeOK
  BY DEF ListsInv
<1> QED
  BY <1>1, ListsInvariance, PTL

\* The subscription lists are consistent in every state, for any number of
\* clients, ids and references.
THEOREM SubscriptionsAreConsistent == Spec => []SubscriptionsConsistent
<1>1. ListsInv => SubscriptionsConsistent
  BY DEF ListsInv
<1> QED
  BY <1>1, ListsInvariance, PTL
-----------------------------------------------------------------------------
(***************************************************************************)
(* The receive buffer.  The bytes in it and in the socket are those of the *)
(* packets not yet parsed, and outside of its callback a client's buffer   *)
(* is not full.                                                            *)
(***************************************************************************)
InCallback(c) == pc # "idle" /\ cur = c

Leftover(c) ==
  stream[c] # <<>> /\ rx_idx[c] >= Head(stream[c]).bytes
    => rx_idx[c] = 4 /\ Head(stream[c]).bytes = 4

RxInv ==
  \A c \in connected :
    /\ Layout(stream[c], rx_idx[c] + unread[c])
    /\ ~InCallback(c) => rx_idx[c] < RxBuf /\ Leftover(c)

\* Steps that do not touch the streams.
LEMMA RxUnchanged ==
  ASSUME RxInv, UNCHANGED <<wire, cur>>, connected' \subseteq connected,
         pc' = "idle" => pc = "idle"
  PROVE  RxInv'
  BY DEF RxInv, InCallback, wire, Layout, Leftover

\* A client sends: the bytes wait in the socket.
LEMMA SendKeepsRx ==
  ASSUME TypeOK, RxInv, NEW c \in Clients, NEW p \in Packets, Send(c, p)
  PROVE  RxInv'
<1> SUFFICES ASSUME NEW d \in connected
             PROVE  /\ Layout(stream'[d], rx_idx'[d] + unread'[d])
                    /\ ~InCallback(d)' => rx_idx'[d] < RxBuf /\ Leftover(d)'
  BY DEF Send, RxInv
<1>1. /\ d \in Clients /\ stream[d] \in Seq(Packets) /\ unread[d] \in Nat /\ rx_idx[d] \in Nat
      /\ p.bytes \in Nat
  <2>1. d \in Clients /\ 0..RxBuf \subseteq Nat
    BY Sizes DEF TypeOK
  <2>2. stream[d] \in Seq(Packets) /\ unread[d] \in Nat /\ rx_idx[d] \in 0..RxBuf
    BY <2>1 DEF TypeOK
  <2>3. p.bytes \in Nat
    BY PacketBytes
  <2> QED
    BY <2>1, <2>2, <2>3
<1>2. /\ Layout(stream[d], rx_idx[d] + unread[d])
      /\ ~InCallback(d) => rx_idx[d] < RxBuf /\ Leftover(d)
  BY DEF RxInv
<1>3. rx_idx' = rx_idx /\ (InCallback(d)' <=> InCallback(d))
  BY DEF Send, InCallback
<1>4. CASE d = c
  <2>1. stream'[d] = Append(stream[d], p) /\ unread'[d] = unread[d] + p.bytes
    BY <1>4 DEF Send, TypeOK
  <2>2. rx_idx[d] + unread[d] \in Int /\ (rx_idx[d] + unread[d]) + p.bytes = rx_idx'[d] + unread'[d]
    BY <1>1, <1>3, <2>1
  <2>3. Layout(Append(stream[d], p), (rx_idx[d] + unread[d]) + p.bytes)
    BY <1>1, <1>2, <2>2, LayoutAppend
  <2>4. CASE stream[d] = <<>>
    <3>1. rx_idx[d] + unread[d] = 0
      BY <1>2, <2>4, LayoutEmpty
    <3>2. rx_idx'[d] = 0 /\ Head(stream'[d]) = p /\ p.bytes >= 4
      BY <1>1, <1>3, <2>1, <2>4, <3>1, PacketBytes
    <3>3. Leftover(d)'
      BY <1>1, <3>2 DEF Leftover
    <3> QED
      BY <1>2, <1>3, <2>1, <2>2, <2>3, <3>3
  <2>5. CASE stream[d] # <<>>
    <3>1. Head(stream'[d]) = Head(stream[d])
      BY <1>1, <2>1, <2>5
    <3>2. Leftover(d) => Leftover(d)'
      BY <1>3, <2>5, <3>1 DEF Leftover
    <3> QED
      BY <1>2, <1>3, <2>1, <2>2, <2>3, <3>2
  <2> QED
    BY <2>4, <2>5
<1>5. CASE d # c
  <2>1. stream'[d] = stream[d] /\ unread'[d] = unread[d]
    BY <1>1, <1>5 DEF Send, TypeOK
  <2> QED
    BY <1>2, <1>3, <2>1 DEF Leftover
<1> QED
  BY <1>4, <1>5

\* A new client: nothing sent, nothing received.
LEMMA AcceptKeepsRx ==
  ASSUME TypeOK, RxInv, NEW c \in Clients, listen_fd_rd_callback(c)
  PROVE  RxInv'
<1> SUFFICES ASSUME NEW d \in connected'
             PROVE  /\ Layout(stream'[d], rx_idx'[d] + unread'[d])
                    /\ rx_idx'[d] < RxBuf /\ Leftover(d)'
  BY DEF RxInv
<1>1. CASE d = c
  <2>1. stream'[d] = <<>> /\ unread'[d] = 0 /\ rx_idx'[d] = 0
    BY <1>1 DEF listen_fd_rd_callback, TypeOK
  <2>2. rx_idx'[d] + unread'[d] = 0 /\ rx_idx'[d] < RxBuf
    BY <2>1, Sizes
  <2> QED
    BY <2>1, <2>2, LayoutEmpty DEF Leftover
<1>2. CASE d # c
  <2>1. d \in connected /\ ~InCallback(d)
    BY <1>2 DEF listen_fd_rd_callback, InCallback
  <2>2. stream'[d] = stream[d] /\ unread'[d] = unread[d] /\ rx_idx'[d] = rx_idx[d]
    BY <1>2, <2>1 DEF listen_fd_rd_callback, TypeOK
  <2> QED
    BY <2>1, <2>2 DEF RxInv, Leftover
<1> QED
  BY <1>1, <1>2

\* Bytes move from the socket into the buffer.
LEMMA ReadKeepsRx ==
  ASSUME TypeOK, RxInv, NEW c \in Clients, ReadSome(c)
  PROVE  RxInv'
<1> SUFFICES ASSUME NEW d \in connected
             PROVE  /\ Layout(stream'[d], rx_idx'[d] + unread'[d])
                    /\ ~InCallback(d)' => rx_idx'[d] < RxBuf /\ Leftover(d)'
  BY DEF ReadSome, RxInv
<1>1. d \in Clients /\ unread[d] \in Nat /\ rx_idx[d] \in Nat /\ stream' = stream
  BY Sizes DEF TypeOK, ReadSome
<1>2. /\ Layout(stream[d], rx_idx[d] + unread[d])
      /\ rx_idx[d] < RxBuf /\ Leftover(d)
  BY DEF RxInv, InCallback, ReadSome
<1> DEFINE most == Lesser(unread[c], Room(c))
<1>3. PICK k \in {n \in ReadSizes : 1 <= n /\ n <= most} \cup {most} :
        /\ rx_idx' = [rx_idx EXCEPT ![c] = @ + k]
        /\ unread' = [unread EXCEPT ![c] = @ - k]
  BY DEF ReadSome
<1>4. most \in Int
  BY Sizes DEF TypeOK, Lesser, Room
<1>5. k \in Int
  <2> HIDE DEF most
  <2> QED
    BY <1>4, Sizes
<1>6. rx_idx'[d] + unread'[d] = rx_idx[d] + unread[d]
  BY <1>1, <1>3, <1>5 DEF TypeOK
<1>7. ~InCallback(d)' => rx_idx'[d] = rx_idx[d]
  BY <1>1, <1>3 DEF ReadSome, InCallback, TypeOK
<1> QED
  BY <1>1, <1>2, <1>6, <1>7 DEF Leftover

\* A packet is taken off the stream and out of the buffer.
LEMMA ConsumeKeepsRx ==
  ASSUME TypeOK, RxInv, Consume, Complete, pc # "idle", pc' # "idle"
  PROVE  RxInv'
<1> SUFFICES ASSUME NEW d \in connected
             PROVE  /\ Layout(stream'[d], rx_idx'[d] + unread'[d])
                    /\ ~InCallback(d)' => rx_idx'[d] < RxBuf /\ Leftover(d)'
  BY DEF Consume, RxInv
<1>1. /\ d \in Clients /\ stream[d] \in Seq(Packets) /\ unread[d] \in Nat /\ rx_idx[d] \in Nat
      /\ unread' = unread /\ cur' = cur
  BY Sizes DEF TypeOK, Consume
<1>2. /\ Layout(stream[d], rx_idx[d] + unread[d])
      /\ ~InCallback(d) => rx_idx[d] < RxBuf /\ Leftover(d)
  BY DEF RxInv
<1>3. CASE d = cur
  <2>1. InCallback(d)'
    BY <1>1, <1>3 DEF InCallback
  <2>2. stream[d] # <<>> /\ stream'[d] = Tail(stream[d]) /\ rx_idx'[d] = rx_idx[d] - Head(stream[d]).bytes
    BY <1>3 DEF Consume, Complete, Pkt, TypeOK
  <2>3. Head(stream[d]) \in Packets
    BY <1>1, <2>2
  <2>4. rx_idx[d] + unread[d] \in Int /\ Head(stream[d]).bytes \in Nat
    BY <1>1, <2>3, PacketBytes
  <2>5. Layout(Tail(stream[d]), (rx_idx[d] + unread[d]) - Head(stream[d]).bytes)
    BY <1>1, <1>2, <2>2, <2>4, LayoutTail
  <2>6. (rx_idx[d] + unread[d]) - Head(stream[d]).bytes = rx_idx'[d] + unread'[d]
    BY <1>1, <2>2, <2>4
  <2> QED
    BY <2>1, <2>2, <2>5, <2>6
<1>4. CASE d # cur
  <2>1. stream'[d] = stream[d] /\ rx_idx'[d] = rx_idx[d]
    BY <1>1, <1>4 DEF Consume, TypeOK
  <2>2. ~InCallback(d)
    BY <1>4 DEF InCallback
  <2> QED
    BY <1>1, <1>2, <2>1, <2>2 DEF Leftover
<1> QED
  BY <1>3, <1>4

\* The callback ends: what is left is shorter than the packet it begins, or a
\* bare header.
LEMMA ParseEndKeepsRx ==
  ASSUME TypeOK, RxInv, ParseEnd
  PROVE  RxInv'
<1> SUFFICES ASSUME NEW d \in connected
             PROVE  /\ Layout(stream'[d], rx_idx'[d] + unread'[d])
                    /\ rx_idx'[d] < RxBuf /\ Leftover(d)'
  BY DEF ParseEnd, RxInv
<1>1. /\ d \in Clients /\ stream[d] \in Seq(Packets) /\ unread[d] \in Nat /\ rx_idx[d] \in Nat
      /\ stream' = stream /\ unread' = unread /\ rx_idx' = rx_idx
  BY Sizes DEF TypeOK, ParseEnd, wire
<1>2. /\ Layout(stream[d], rx_idx[d] + unread[d])
      /\ ~InCallback(d) => rx_idx[d] < RxBuf /\ Leftover(d)
  BY DEF RxInv
<1>3. CASE d # cur
  BY <1>1, <1>2, <1>3 DEF InCallback, Leftover
<1>4. CASE d = cur
  <2>1. ~(rx_idx[d] > 4 /\ stream[d] # <<>> /\ Head(stream[d]).bytes <= rx_idx[d])
    BY <1>4 DEF ParseEnd, Complete, Pkt
  <2>2. stream[d] # <<>> => /\ Head(stream[d]).bytes \in Nat /\ Head(stream[d]).bytes >= 4
                            /\ Head(stream[d]).bytes <= MaxPkt
    BY <1>1, PacketBytes
  <2>3. stream[d] = <<>> => rx_idx[d] = 0
    BY <1>1, <1>2, LayoutEmpty
  <2>4. rx_idx[d] < RxBuf
    BY <1>1, <2>1, <2>2, <2>3, Sizes
  <2>5. Leftover(d)
    BY <1>1, <2>1, <2>2 DEF Leftover
  <2> QED
    BY <1>1, <1>2, <2>4, <2>5 DEF Leftover
<1> QED
  BY <1>3, <1>4

\* RxInv holds at all times.
LEMMA RxInvariance == Spec => []RxInv
<1>1. Init => RxInv
  BY DEF Init, RxInv
<1>2. ListsInv /\ RxInv /\ [Next]_vars => RxInv'
  <2> SUFFICES ASSUME TypeOK, CallbackInv, RxInv, [Next]_vars PROVE RxInv'
    BY DEF ListsInv
  <2>1. ASSUME NEW c \in Clients, Close(c) \/ Transmit(c) PROVE RxInv'
    BY <2>1, RxUnchanged DEF Close, Transmit
  <2>2. ASSUME NEW c \in Clients, Drop(c) PROVE RxInv'
    BY <2>2, RxUnchanged DEF Drop
  <2>3. CASE ParseControl \/ subscribe_pkt \/ unsubscribe_pkt
    BY <2>3, RxUnchanged DEF ParseControl, subscribe_pkt, unsubscribe_pkt
  <2>4. CASE dispatch_pkt \/ ParseOther
    BY <2>4, ConsumeKeepsRx DEF dispatch_pkt, ParseOther
  <2>5. CASE ControlDone
    BY <2>5, ConsumeKeepsRx DEF ControlDone, CallbackInv
  <2>6. CASE UNCHANGED vars
    BY <2>6, RxUnchanged DEF vars
  <2>7. CASE Reap \/ LoopEnds
    BY <2>7, RxUnchanged DEF Reap, LoopEnds
  <2> QED
    BY <2>1, <2>2, <2>3, <2>4, <2>5, <2>6, <2>7, SendKeepsRx, AcceptKeepsRx, ReadKeepsRx,
       ParseEndKeepsRx DEF Next, Parse
<1> QED
  BY <1>1, <1>2, ListsInvariance, PTL DEF Spec

\* No cutting of the streams by read(2) makes the broker give up a client: it
\* drops only clients that have closed their end.
THEOREM DropsOnlyClosed == Spec => OnlyClosedAreDropped
<1>1. ListsInv /\ RxInv /\ [Next]_vars => [\A c \in connected \ connected' : c \in hung]_vars
  <2> SUFFICES ASSUME ListsInv, RxInv, Next, NEW c \in connected, c \notin connected'
               PROVE  c \in hung
    OBVIOUS
  <2>4. Parse \/ Reap \/ LoopEnds => connected' = connected
    BY DEF Reap, LoopEnds, Parse, dispatch_pkt, ParseControl, subscribe_pkt, unsubscribe_pkt, ControlDone,
           ParseOther, ParseEnd, Consume
  <2>5. ASSUME NEW d \in Clients,
               \/ listen_fd_rd_callback(d) \/ Transmit(d) \/ ReadSome(d) \/ Close(d)
               \/ \E p \in Packets : Send(d, p)
        PROVE  connected \subseteq connected'
    BY <2>5 DEF listen_fd_rd_callback, Transmit, ReadSome, Close, Send
  <2>1. PICK d \in Clients : Drop(d)
    BY <2>4, <2>5 DEF Next
  <2>2. d = c /\ pc = "idle"
    BY <2>1 DEF Drop
  <2>6. c \in Clients /\ rx_idx \in [Clients -> 0..RxBuf]
    BY DEF ListsInv, TypeOK
  <2>7. rx_idx[c] < RxBuf
    BY <2>2, <2>6 DEF RxInv, InCallback
  <2>8. RxBuf \in Nat /\ rx_idx[c] \in Nat
    BY <2>6, Sizes
  <2>3. Room(c) # 0
    BY <2>7, <2>8 DEF Room
  <2> QED
    BY <2>1, <2>2, <2>3 DEF Drop
<1> QED
  BY <1>1, ListsInvariance, RxInvariance, PTL DEF OnlyClosedAreDropped, Spec

\* A callback leaves no packet behind but a bare header.
THEOREM LeftoverPartial == Spec => []LeftoverIsPartial
<1>1. RxInv => LeftoverIsPartial
  BY DEF RxInv, InCallback, Leftover, LeftoverIsPartial
<1> QED
  BY <1>1, RxInvariance, PTL
-----------------------------------------------------------------------------
(***************************************************************************)
(* The broker implements PubSub.                                           *)
(***************************************************************************)
INSTANCE FiniteSetTheorems

\* The transmit rings hold packets.
RingsOK == tx \in [Clients -> Seq(Packets)]

Subscribed(c, id) == \E r \in idList[id] : refClient[r] = c

\* One turn of the loop of dispatch_pkt for a client that is in the list, and
\* none for one that is not.
LEMMA EnqueueIs ==
  ASSUME NEW p \in Packets, NEW q \in Seq(Packets)
  PROVE  /\ Enqueue(p, q, 0) = q
         /\ Enqueue(p, q, 1) = IF Fits(q, p) THEN Append(q, p) ELSE q
<1>1. ASSUME NEW k \in {0, 1}, NEW W, W = {j \in 1..k : Bytes(q) + j * p.bytes <= TxCap}, W = {}
      PROVE  Enqueue(p, q, k) = q
  <2>1. Cardinality(W) = 0
    BY <1>1, FS_EmptySet
  <2>2. Enqueue(p, q, k) = q \o [j \in 1..0 |-> p]
    BY <1>1, <2>1 DEF Enqueue
  <2>3. [j \in 1..0 |-> p] = <<>>
    OBVIOUS
  <2> QED
    BY <2>2, <2>3
<1>2. 1 * p.bytes = p.bytes
  BY PacketBytes
<1>3. Fits(q, p) => Enqueue(p, q, 1) = Append(q, p)
  <2> SUFFICES ASSUME Fits(q, p) PROVE Enqueue(p, q, 1) = Append(q, p)
    OBVIOUS
  <2> DEFINE W == {j \in 1..1 : Bytes(q) + j * p.bytes <= TxCap}
  <2>1. W = {1}
    BY <1>2 DEF Fits
  <2>2. Cardinality(W) = 1
    <3> HIDE DEF W
    <3> QED BY <2>1, FS_Singleton
  <2>3. Enqueue(p, q, 1) = q \o [j \in 1..1 |-> p]
    BY <2>2 DEF Enqueue
  <2>4. [j \in 1..1 |-> p] = <<p>>
    OBVIOUS
  <2> QED
    BY <2>3, <2>4
<1>4. ~Fits(q, p) => Enqueue(p, q, 1) = q
  <2>1. ~Fits(q, p) => {j \in 1..1 : Bytes(q) + j * p.bytes <= TxCap} = {}
    BY <1>2 DEF Fits
  <2> QED
    BY <1>1, <2>1
<1>5. Enqueue(p, q, 0) = q
  <2>1. {j \in 1..0 : Bytes(q) + j * p.bytes <= TxCap} = {}
    OBVIOUS
  <2> QED
    BY <1>1, <2>1
<1> QED
  BY <1>3, <1>4, <1>5

\* As a client is in the list of an id once at most, dispatch_pkt gives every
\* subscriber one copy, if it fits, and nobody else anything.
LEMMA DispatchIs ==
  ASSUME TypeOK, SubscriptionsConsistent, RingsOK, dispatch_pkt
  PROVE  /\ Pkt \in Packets
         /\ tx' = [c \in Clients |-> IF Subscribed(c, Pkt.id) /\ Fits(tx[c], Pkt)
                                     THEN Append(tx[c], Pkt) ELSE tx[c]]
         /\ RingsOK'
<1>1. Pkt \in Packets /\ Pkt.id \in Ids
  <2>1. stream[cur] \in Seq(Packets) /\ stream[cur] # <<>> /\ Pkt.kind = "data"
    BY DEF TypeOK, dispatch_pkt, Complete
  <2>2. Pkt \in Packets
    BY <2>1 DEF Pkt
  <2> QED
    BY <2>1, <2>2, ServerAssumption
<1> DEFINE mine(c) == {r \in idList[Pkt.id] : refClient[r] = c}
<1>2. ASSUME NEW c \in Clients
      PROVE  Enqueue(Pkt, tx[c], Cardinality(mine(c))) =
               IF Subscribed(c, Pkt.id) /\ Fits(tx[c], Pkt) THEN Append(tx[c], Pkt) ELSE tx[c]
  <2>0. tx[c] \in Seq(Packets)
    BY DEF RingsOK
  <2>1. CASE Subscribed(c, Pkt.id)
    <3>1. PICK r \in idList[Pkt.id] : refClient[r] = c
      BY <2>1 DEF Subscribed
    <3>2. mine(c) = {r}
      BY <1>1, <3>1 DEF SubscriptionsConsistent
    <3>3. Cardinality(mine(c)) = 1
      <4> HIDE DEF mine
      <4> QED BY <3>2, FS_Singleton
    <3> QED
      BY <1>1, <2>0, <2>1, <3>3, EnqueueIs
  <2>2. CASE ~Subscribed(c, Pkt.id)
    <3>1. mine(c) = {}
      BY <2>2 DEF Subscribed
    <3>2. Cardinality(mine(c)) = 0
      <4> HIDE DEF mine
      <4> QED BY <3>1, FS_EmptySet
    <3> QED
      BY <1>1, <2>0, <2>2, <3>2, EnqueueIs
  <2> QED
    BY <2>1, <2>2
<1>3. tx' = [c \in Clients |-> Enqueue(Pkt, tx[c], Cardinality(mine(c)))]
  BY DEF dispatch_pkt
<1>4. tx' = [c \in Clients |-> IF Subscribed(c, Pkt.id) /\ Fits(tx[c], Pkt)
                               THEN Append(tx[c], Pkt) ELSE tx[c]]
  BY <1>2, <1>3
<1>5. RingsOK'
  <2>1. \A c \in Clients : tx'[c] \in Seq(Packets)
    BY <1>1, <1>4 DEF RingsOK
  <2> QED
    BY <1>4, <2>1 DEF RingsOK
<1> QED
  BY <1>1, <1>4, <1>5

\* What the subscriptions and the rings are to the clients changes only with
\* the lists of the ids and with the rings.
LEMMA NothingVisible ==
  ASSUME RingsOK, UNCHANGED <<idList, refClient, tx>>
  PROVE  RingsOK' /\ UNCHANGED <<Subs, tx>>
  BY DEF RingsOK, Subs

\* subscribe_pkt adds one id of one client, or nothing.
LEMMA SubscribeRefines ==
  ASSUME ListsInv, RingsOK, subscribe_pkt
  PROVE  RingsOK' /\ (Bus!Next \/ UNCHANGED <<Subs, tx>>)
<1>1. CASE UNCHANGED lists
  BY <1>1, NothingVisible DEF lists, subscribe_pkt
<1>2. CASE ~UNCHANGED lists
  <2> DEFINE id == Head(todo)
  <2>1. id \in Ids /\ cur \in Clients /\ tx' = tx
    BY DEF subscribe_pkt, ListsInv, TypeOK
  <2>2. PICK r \in Refs \ refs :
          /\ refClient' = [refClient EXCEPT ![r] = cur]
          /\ idList' = [idList EXCEPT ![id] = @ \cup {r}]
    BY <1>2 DEF subscribe_pkt
  <2>3. \A i \in Ids : r \notin idList[i] /\ idList[i] \subseteq Refs
    BY <2>2 DEF ListsInv, SubscriptionsConsistent, TypeOK
  <2>4. ASSUME NEW c \in Clients, NEW i \in Ids
        PROVE  Subscribed(c, i)' <=> Subscribed(c, i) \/ (c = cur /\ i = id)
    BY <2>1, <2>2, <2>3 DEF Subscribed, ListsInv, TypeOK
  <2> HIDE DEF id
  <2>5. Subs' = [Subs EXCEPT ![cur] = @ \cup {id}]
    <3>1. ASSUME NEW c \in Clients
          PROVE  {i \in Ids : Subscribed(c, i)'} =
                   IF c = cur THEN {i \in Ids : Subscribed(c, i)} \cup {id} ELSE {i \in Ids : Subscribed(c, i)}
      BY <2>1, <2>4
    <3>2. /\ Subs' = [c \in Clients |-> {i \in Ids : Subscribed(c, i)'}]
          /\ Subs = [c \in Clients |-> {i \in Ids : Subscribed(c, i)}]
      BY DEF Subs, Subscribed
    <3> HIDE DEF Subscribed
    <3> QED
      BY <2>1, <3>1, <3>2
  <2>6. Bus!Subscribe(cur, id)
    BY <2>1, <2>5 DEF Bus!Subscribe
  <2> QED
    BY <2>1, <2>6 DEF Bus!Next, RingsOK
<1> QED
  BY <1>1, <1>2

\* unsubscribe_pkt takes one id from one client.
LEMMA UnsubscribeRefines ==
  ASSUME ListsInv, RingsOK, unsubscribe_pkt
  PROVE  RingsOK' /\ Bus!Next
<1> DEFINE id == Head(todo)
<1>1. id \in Ids /\ cur \in Clients /\ UNCHANGED <<tx, refClient>>
  BY DEF unsubscribe_pkt, ListsInv, TypeOK
<1>2. idList' = [idList EXCEPT ![id] = @ \ Own(id)]
  BY DEF unsubscribe_pkt
<1>3. ASSUME NEW c \in Clients, NEW i \in Ids
      PROVE  Subscribed(c, i)' <=> Subscribed(c, i) /\ ~(c = cur /\ i = id)
  BY <1>1, <1>2 DEF Subscribed, Own, ListsInv, TypeOK
<1> HIDE DEF id
<1>4. Subs' = [Subs EXCEPT ![cur] = @ \ {id}]
  <2>1. ASSUME NEW c \in Clients
        PROVE  {i \in Ids : Subscribed(c, i)'} =
                 IF c = cur THEN {i \in Ids : Subscribed(c, i)} \ {id} ELSE {i \in Ids : Subscribed(c, i)}
    BY <1>1, <1>3
  <2>2. /\ Subs' = [c \in Clients |-> {i \in Ids : Subscribed(c, i)'}]
        /\ Subs = [c \in Clients |-> {i \in Ids : Subscribed(c, i)}]
    BY DEF Subs, Subscribed
  <2> QED
    BY <1>1, <2>1, <2>2
<1>5. Bus!Unsubscribe(cur, id)
  BY <1>1, <1>4 DEF Bus!Unsubscribe
<1> QED
  BY <1>1, <1>5 DEF Bus!Next, RingsOK

\* A client that is dropped loses its subscriptions and what waits for it; one
\* that is accepted has neither.
LEMMA LeaveRefines ==
  ASSUME ListsInv, RingsOK, NEW c \in Clients, Drop(c) \/ listen_fd_rd_callback(c)
  PROVE  RingsOK' /\ Bus!Next
<1>1. tx' = [tx EXCEPT ![c] = <<>>] /\ refClient' = refClient
  BY DEF Drop, listen_fd_rd_callback
<1>2. ASSUME NEW d \in Clients, NEW i \in Ids
      PROVE  Subscribed(d, i)' <=> Subscribed(d, i) /\ d # c
  <2>1. idList[i] \subseteq refs /\ refs \subseteq Refs
    BY DEF ListsInv, TypeOK, SubscriptionsConsistent
  <2>2. CASE Drop(c)
    <3>1. idList'[i] = idList[i] \ refList[c]
      BY <2>2 DEF Drop
    <3>2. \A r \in idList[i] : r \in refList[c] <=> refClient[r] = c
      <4>1. \A r \in refList[c] : refClient[r] = c
        BY DEF ListsInv, SubscriptionsConsistent
      <4>2. \A r \in refs : r \in refList[refClient[r]]
        BY DEF ListsInv, SubscriptionsConsistent
      <4> QED
        BY <2>1, <4>1, <4>2
    <3> QED
      BY <1>1, <3>1, <3>2 DEF Subscribed
  <2>3. CASE listen_fd_rd_callback(c)
    <3>1. idList'[i] = idList[i] /\ c \notin connected
      BY <2>3 DEF listen_fd_rd_callback
    <3>2. \A r \in refs : refClient[r] \in connected
      BY DEF ListsInv, SubscriptionsConsistent
    <3> QED
      BY <1>1, <2>1, <3>1, <3>2 DEF Subscribed
  <2> QED
    BY <2>2, <2>3
<1>3. Subs' = [Subs EXCEPT ![c] = {}]
  <2>1. ASSUME NEW d \in Clients
        PROVE  {i \in Ids : Subscribed(d, i)'} = IF d = c THEN {} ELSE {i \in Ids : Subscribed(d, i)}
    BY <1>2
  <2>2. /\ Subs' = [d \in Clients |-> {i \in Ids : Subscribed(d, i)'}]
        /\ Subs = [d \in Clients |-> {i \in Ids : Subscribed(d, i)}]
    BY DEF Subs, Subscribed
  <2> QED
    BY <2>1, <2>2
<1>4. Bus!Leave(c)
  BY <1>1, <1>3 DEF Bus!Leave
<1> QED
  BY <1>1, <1>4 DEF Bus!Next, RingsOK

\* dispatch_pkt publishes the packet.
LEMMA DispatchRefines ==
  ASSUME ListsInv, RingsOK, dispatch_pkt
  PROVE  RingsOK' /\ Bus!Next
<1>0. TypeOK /\ SubscriptionsConsistent
  BY DEF ListsInv
<1>1. /\ Pkt \in Packets /\ RingsOK'
      /\ tx' = [c \in Clients |-> IF Subscribed(c, Pkt.id) /\ Fits(tx[c], Pkt)
                                  THEN Append(tx[c], Pkt) ELSE tx[c]]
  BY <1>0, DispatchIs
<1>2. UNCHANGED Subs
  BY DEF dispatch_pkt, lists, Subs
<1>3. Pkt.id \in Ids
  BY <1>1, ServerAssumption DEF dispatch_pkt
<1>4. \A c \in Clients : Pkt.id \in Subs[c] <=> Subscribed(c, Pkt.id)
  BY <1>3 DEF Subs, Subscribed
<1>5. tx' = [c \in Clients |-> IF Pkt.id \in Subs[c] /\ Fits(tx[c], Pkt)
                               THEN Append(tx[c], Pkt) ELSE tx[c]]
  BY <1>1, <1>4
<1>6. Bus!Publish(Pkt)
  BY <1>2, <1>5 DEF Bus!Publish
<1> QED
  BY <1>1, <1>6 DEF Bus!Next

\* The broker implements PubSub for any number of clients, ids, references
\* and packets and for every way of cutting the streams: a packet reaches
\* exactly the clients subscribed to its id when dispatch_pkt runs, once and
\* in the order of publication, except those whose ring is full.
THEOREM BrokerRefinement == Spec => RefinesPubSub
<1>1. Init => RingsOK /\ Bus!Init
  <2> SUFFICES ASSUME Init PROVE RingsOK /\ Bus!Init
    OBVIOUS
  <2>1. Subs = [c \in Clients |-> {}]
    BY DEF Init, Subs
  <2> QED
    BY <2>1 DEF Init, RingsOK, Bus!Init
<1>2. ListsInv /\ RingsOK /\ [Next]_vars => RingsOK' /\ [Bus!Next]_<<Subs, tx>>
  <2> SUFFICES ASSUME ListsInv, RingsOK, [Next]_vars
               PROVE  RingsOK' /\ (Bus!Next \/ UNCHANGED <<Subs, tx>>)
    OBVIOUS
  <2>1. ASSUME NEW c \in Clients, NEW p \in Packets, Send(c, p)
        PROVE  RingsOK' /\ UNCHANGED <<Subs, tx>>
    BY <2>1, NothingVisible DEF Send, lists
  <2>2. ASSUME NEW c \in Clients, Close(c) \/ ReadSome(c)
        PROVE  RingsOK' /\ UNCHANGED <<Subs, tx>>
    BY <2>2, NothingVisible DEF Close, ReadSome, lists
  <2>3. CASE ParseControl \/ ControlDone \/ ParseOther \/ ParseEnd
    BY <2>3, NothingVisible DEF ParseControl, ControlDone, ParseOther, ParseEnd, lists
  <2>4. CASE UNCHANGED vars
    BY <2>4, NothingVisible DEF vars, lists
  <2>8. CASE Reap \/ LoopEnds
    BY <2>8, NothingVisible DEF Reap, LoopEnds, lists
  <2>5. ASSUME NEW c \in Clients, Transmit(c) PROVE RingsOK' /\ Bus!Next
    <3>1. tx[c] \in Seq(Packets) /\ tx[c] # <<>>
      BY <2>5 DEF RingsOK, Transmit
    <3>2. Tail(tx[c]) \in Seq(Packets)
      BY <3>1
    <3>3. tx' = [tx EXCEPT ![c] = Tail(@)] /\ UNCHANGED Subs
      BY <2>5 DEF Transmit, lists, Subs
    <3>4. Bus!Deliver(c)
      BY <3>1, <3>3 DEF Bus!Deliver
    <3> QED
      BY <3>2, <3>3, <3>4 DEF Bus!Next, RingsOK
  <2>6. ASSUME NEW c \in Clients, Drop(c) \/ listen_fd_rd_callback(c) PROVE RingsOK' /\ Bus!Next
    BY <2>6, LeaveRefines
  <2>7. CASE dispatch_pkt \/ subscribe_pkt \/ unsubscribe_pkt
    BY <2>7, DispatchRefines, SubscribeRefines, UnsubscribeRefines
  <2> QED
    BY <2>1, <2>2, <2>3, <2>4, <2>5, <2>6, <2>7, <2>8 DEF Next, Parse
<1> QED
  BY <1>1, <1>2, ListsInvariance, PTL DEF Spec, RefinesPubSub, Bus!Spec
=============================================================================
