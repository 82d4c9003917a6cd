-------------------------- MODULE SysbusLibProofs ---------------------------
(***************************************************************************)
(* The two halves of the sysbus library that move bytes.                   *)
(*                                                                         *)
(* The receive thread of the client, for every set of packet lengths and   *)
(* every buffer larger than the largest packet: it meets no freed handle,  *)
(* and it hands on every complete packet before it reads again, so that    *)
(* the buffer never is full.                                               *)
(*                                                                         *)
(* The transmit ring of multiplexed I/O, for every size of the ring,       *)
(* whether or not it is a power of two, and for every interleaving of      *)
(* writers and the draining thread: it keeps its bytes.                    *)
(***************************************************************************)
EXTENDS SysbusClient, MioRing, TLAPS

(***************************************************************************)
(* The receive thread of the client (libsysbus.c).                         *)
(***************************************************************************)
\* Packets have at least the four bytes of a header, and at most MaxPkt.
LEMMA SizesBounded == \A n \in Sizes : n \in Nat /\ n >= 4 /\ n <= MaxPkt
  BY ClientAssumption

(***************************************************************************)
(* The packets of q take n bytes: e[i] is where packet i ends.             *)
(***************************************************************************)
Takes(q, n) ==
  \E e \in [0..Len(q) -> Int] :
    e[0] = 0 /\ e[Len(q)] = n /\ \A i \in 1..Len(q) : e[i] = e[i - 1] + q[i]

\* No packets take no bytes.
LEMMA TakesNone == \A n : Takes(<<>>, n) <=> n = 0
<1>1. \A n : Takes(<<>>, n) => n = 0
  BY DEF Takes
<1>2. Takes(<<>>, 0)
  <2> DEFINE e == [i \in 0..0 |-> 0]
  <2>1. e \in [0..Len(<<>>) -> Int] /\ e[0] = 0 /\ e[Len(<<>>)] = 0
    OBVIOUS
  <2>2. \A i \in 1..Len(<<>>) : e[i] = e[i - 1] + <<>>[i]
    OBVIOUS
  <2> HIDE DEF e
  <2> QED
    BY <2>1, <2>2 DEF Takes
<1> QED
  BY <1>1, <1>2

\* A packet the broker sends adds its length.
LEMMA TakesMore ==
  ASSUME NEW q \in Seq(Sizes), NEW p \in Sizes, NEW n \in Int, Takes(q, n)
  PROVE  Takes(Append(q, p), n + p)
<1> DEFINE s == Append(q, p)
<1>1. PICK e \in [0..Len(q) -> Int] :
        e[0] = 0 /\ e[Len(q)] = n /\ \A i \in 1..Len(q) : e[i] = e[i - 1] + q[i]
  BY DEF Takes
<1> DEFINE d == [i \in 0..Len(s) |-> IF i \in 0..Len(q) THEN e[i] ELSE n + p]
<1>2. Len(s) = Len(q) + 1 /\ Len(q) \in Nat /\ p \in Int
  BY SizesBounded
<1>3. d \in [0..Len(s) -> Int] /\ d[0] = 0 /\ d[Len(s)] = n + p
  BY <1>1, <1>2
<1>4. ASSUME NEW i \in 1..Len(s) PROVE d[i] = d[i - 1] + s[i]
  <2>1. CASE i = Len(q) + 1
    <3>1. s[i] = p /\ i - 1 = Len(q) /\ i \notin 0..Len(q)
      BY <1>2, <2>1
    <3> QED
      BY <1>1, <1>2, <2>1, <3>1
  <2>2. CASE i \in 1..Len(q)
    <3>1. s[i] = q[i] /\ i - 1 \in 0..Len(q) /\ i \in 0..Len(q)
      BY <1>2, <2>2
    <3> QED
      BY <1>1, <1>2, <2>2, <3>1
  <2> QED
    BY <1>2, <2>1, <2>2
<1> HIDE DEF d
<1> QED
  BY <1>3, <1>4 DEF Takes

\* A packet that is handed on takes its length away.
LEMMA TakesLess ==
  ASSUME NEW q \in Seq(Sizes), q # <<>>, NEW n \in Int, Takes(q, n)
  PROVE  Takes(Tail(q), n - Head(q))
<1> DEFINE t == Tail(q)
<1>1. PICK e \in [0..Len(q) -> Int] :
        e[0] = 0 /\ e[Len(q)] = n /\ \A i \in 1..Len(q) : e[i] = e[i - 1] + q[i]
  BY DEF Takes
<1> DEFINE d == [i \in 0..Len(t) |-> e[i + 1] - Head(q)]
<1>2. /\ Len(q) \in Nat /\ Len(q) >= 1 /\ Len(t) = Len(q) - 1
      /\ Head(q) = q[1] /\ q[1] \in Sizes /\ Head(q) \in Int
  BY SizesBounded
<1>3. e[1] = Head(q)
  BY <1>1, <1>2
<1>4. d \in [0..Len(t) -> Int] /\ d[0] = 0 /\ d[Len(t)] = n - Head(q)
  BY <1>1, <1>2, <1>3
<1>5. ASSUME NEW i \in 1..Len(t) PROVE d[i] = d[i - 1] + t[i]
  <2>1. t[i] = q[i + 1] /\ i + 1 \in 1..Len(q) /\ q[i + 1] \in Int
    BY <1>2, SizesBounded
  <2>2. e[i + 1] = e[i] + q[i + 1] /\ e[i] \in Int
    BY <1>1, <2>1
  <2>3. d[i] = e[i + 1] - Head(q) /\ d[i - 1] = e[i] - Head(q)
    BY <1>2
  <2> HIDE DEF d, t
  <2> QED
    BY <1>2, <2>1, <2>2, <2>3
<1> HIDE DEF d
<1> QED
  BY <1>4, <1>5 DEF Takes
-----------------------------------------------------------------------------
TypeInv ==
  /\ handle \in {"none", "live", "freed"}
  /\ fd \in {"open", "closed"}
  /\ rpc \in {"none", "read", "blocked", "parse", "callback", "last", "done"}
  /\ rx_total_size \in Nat
  /\ stream \in Seq(Sizes)
  /\ unread \in Nat
  /\ hungup \in BOOLEAN

\* What is in the buffer and in the socket are the packets of the stream, and
\* the callback runs for one that is complete.
BufferInv ==
  /\ Takes(stream, rx_total_size + unread)
  /\ rpc = "callback" => stream # <<>> /\ Pkt <= rx_total_size

\* Without the bytes of the stream it could not be shown that what is in the
\* buffer belongs to a packet at all.
ReceiveInv == TypeInv /\ BufferInv /\ NoUseAfterFree /\ NothingHeldBack

\* Bytes belong to a packet.
LEMMA BytesNeedPacket ==
  ASSUME TypeInv, BufferInv, rx_total_size > 0
  PROVE  stream # <<>> /\ Pkt \in Sizes
<1>1. stream # <<>>
  BY TakesNone DEF TypeInv, BufferInv
<1> QED
  BY <1>1 DEF TypeInv, Pkt

\* Between reads there is room in the buffer.
LEMMA RoomBetweenReads ==
  ASSUME ReceiveInv, rpc = "blocked"
  PROVE  Room # 0
<1>1. CASE rx_total_size = 0
  BY <1>1, ClientAssumption DEF Room
<1>2. CASE rx_total_size # 0
  <2>1. Pkt \in Sizes /\ rx_total_size < Pkt
    BY <1>2, BytesNeedPacket DEF ReceiveInv, TypeInv, NothingHeldBack
  <2> QED
    BY <2>1, SizesBounded, ClientAssumption DEF ReceiveInv, TypeInv, Room
<1> QED
  BY <1>1, <1>2

\* The invariant holds before the first connection.
LEMMA ReceiveInit == Init => ReceiveInv
<1> SUFFICES ASSUME Init PROVE ReceiveInv
  OBVIOUS
<1>1. rx_total_size + unread = 0 /\ stream = <<>> /\ <<>> \in Seq(Sizes)
  BY DEF Init
<1>2. TypeInv /\ BufferInv
  BY <1>1, TakesNone DEF Init, TypeInv, BufferInv
<1> QED
  BY <1>2 DEF Init, ReceiveInv, NoUseAfterFree, NothingHeldBack

\* The application's thread and the broker keep the invariant.
LEMMA OtherSteps ==
  ASSUME ReceiveInv,
         \/ sysbus_connect \/ NameSent \/ NameFails \/ sysbus_msg_send
         \/ sysbus_disconnect \/ Join \/ BrokerCloses \/ \E n \in Sizes : BrokerSends(n)
  PROVE  ReceiveInv'
<1> USE DEF ReceiveInv, TypeInv, BufferInv, NoUseAfterFree, NothingHeldBack, Pkt, rx, wire
<1>1. CASE sysbus_connect
  <2>1. rx_total_size' + unread' = 0 /\ stream' = <<>> /\ <<>> \in Seq(Sizes)
    BY <1>1 DEF sysbus_connect
  <2>2. TypeInv' /\ BufferInv'
    BY <1>1, <2>1, TakesNone DEF sysbus_connect
  <2> QED
    BY <1>1, <2>2 DEF sysbus_connect
<1>2. CASE NameSent \/ NameFails \/ sysbus_msg_send \/ sysbus_disconnect
  BY <1>2 DEF NameSent, NameFails, sysbus_msg_send, sysbus_disconnect
<1>3. CASE Join \/ BrokerCloses
  BY <1>3 DEF Join, BrokerCloses
<1>4. ASSUME NEW n \in Sizes, BrokerSends(n) PROVE ReceiveInv'
  <2>1. n \in Nat /\ stream' = Append(stream, n) /\ unread' = unread + n
    BY <1>4, SizesBounded DEF BrokerSends
  <2>2. Takes(stream', rx_total_size + unread + n)
    BY <2>1, TakesMore
  <2>3. stream # <<>> => stream' # <<>> /\ Head(stream') = Head(stream)
    BY <2>1
  <2>4. rx_total_size > 0 => stream # <<>>
    BY BytesNeedPacket
  <2>5. UNCHANGED <<handle, fd, rx, hungup, interrupted>>
    BY <1>4 DEF BrokerSends
  <2>6. /\ stream' \in Seq(Sizes) /\ unread' \in Nat
        /\ rx_total_size' + unread' = rx_total_size + unread + n
    BY <2>1, <2>5
  <2>7. TypeInv' /\ NoUseAfterFree'
    BY <2>5, <2>6
  <2>8. BufferInv' /\ NothingHeldBack'
    BY <2>2, <2>3, <2>4, <2>5, <2>6
  <2> QED
    BY <2>7, <2>8
<1> QED
  BY <1>1, <1>2, <1>3, <1>4

\* The receive thread keeps the invariant: it reads again only when no packet is
\* complete, and a read of 0 bytes is the end of the stream.
LEMMA ReceiverSteps ==
  ASSUME ReceiveInv, Receiver \/ RxInterrupted \/ CallbackDisconnects
  PROVE  ReceiveInv'
<1> USE DEF ReceiveInv, TypeInv, BufferInv, NoUseAfterFree, NothingHeldBack, Pkt, rx, wire
<1>1. CASE RxRead
  BY <1>1 DEF RxRead
<1>2. CASE RxData
  <2>1. PICK n \in 1..unread : rx_total_size' = rx_total_size + n /\ unread' = unread - n
    BY <1>2 DEF RxData
  <2>2. rx_total_size' \in Nat /\ unread' \in Nat
        /\ rx_total_size' + unread' = rx_total_size + unread
    BY <2>1
  <2>3. rpc' = "parse" /\ UNCHANGED <<handle, fd, stream, hungup>> /\ handle = "live"
    BY <1>2 DEF RxData
  <2> QED
    BY <2>2, <2>3
<1>3. CASE RxEof
  <2>1. hungup
    BY <1>3, RoomBetweenReads DEF RxEof
  <2> QED
    BY <1>3, <2>1 DEF RxEof
<1>4. CASE RxPacket
  <2>1. rx_total_size > 0 /\ Pkt <= rx_total_size
    BY <1>4 DEF RxPacket, Complete
  <2>2. stream # <<>>
    BY <2>1, BytesNeedPacket
  <2> QED
    BY <1>4, <2>1, <2>2 DEF RxPacket
<1>5. CASE CallbackReturns
  <2>1. stream # <<>> /\ Pkt <= rx_total_size /\ stream' = Tail(stream)
        /\ rx_total_size' = rx_total_size - Pkt
    BY <1>5 DEF CallbackReturns
  <2>2. Pkt \in Nat
    BY <2>1, SizesBounded
  <2>3. Tail(stream) \in Seq(Sizes)
    BY <2>1
  <2>4. rpc' = "parse" /\ UNCHANGED <<handle, fd, unread, hungup>> /\ handle = "live"
    BY <1>5 DEF CallbackReturns
  <2>5. Takes(stream', rx_total_size' + unread')
    <3> DEFINE all == rx_total_size + unread
    <3>1. all \in Int /\ Takes(stream, all) /\ stream \in Seq(Sizes)
      OBVIOUS
    <3>2. rx_total_size' + unread' = all - Head(stream)
      BY <2>1, <2>2, <2>4
    <3> HIDE DEF all
    <3>3. Takes(Tail(stream), all - Head(stream))
      BY ONLY <2>1, <3>1, TakesLess
    <3> QED
      BY <2>1, <3>2, <3>3
  <2> QED
    BY <2>1, <2>2, <2>3, <2>4, <2>5
<1>6. CASE RxMore
  <2>1. rx_total_size = 0 \/ rx_total_size < Pkt
    <3>1. CASE rx_total_size > 0
      <4>1. Pkt \in Nat /\ Pkt >= 4
        BY <3>1, BytesNeedPacket, SizesBounded
      <4> QED
        BY <1>6, <4>1 DEF RxMore, Complete
    <3> QED
      BY <3>1
  <2> QED
    BY <1>6, <2>1 DEF RxMore
<1>7. CASE LastReturns
  BY <1>7 DEF LastReturns
<1>8. CASE CallbackDisconnects
  BY <1>8 DEF CallbackDisconnects
<1>9. CASE RxInterrupted
  BY <1>9 DEF RxInterrupted
<1> QED
  BY <1>1, <1>2, <1>3, <1>4, <1>5, <1>6, <1>7, <1>8, <1>9 DEF Receiver

\* The invariant holds throughout.
THEOREM ReceiveInvariance == Spec => []ReceiveInv
<1>1. ReceiveInv /\ [Next]_vars => ReceiveInv'
  <2> SUFFICES ASSUME ReceiveInv, [Next]_vars PROVE ReceiveInv'
    OBVIOUS
  <2>1. CASE UNCHANGED vars
    BY <2>1 DEF vars, rx, wire, ReceiveInv, TypeInv, BufferInv, NoUseAfterFree, NothingHeldBack, Pkt
  <2> QED
    BY <2>1, OtherSteps, ReceiverSteps DEF Next
<1> QED
  BY ReceiveInit, <1>1, PTL DEF Spec

\* sysbus_rx_thread never uses a handle that sysbus_disconnect has freed.
THEOREM HandleOutlivesThread == Spec => []NoUseAfterFree
<1>1. ReceiveInv => NoUseAfterFree
  BY DEF ReceiveInv
<1> QED
  BY ReceiveInvariance, <1>1, PTL

\* However the stream is cut, sysbus_rx_thread hands on every packet that has
\* arrived before it reads again, and ends only with the connection or by a
\* signal: a buffer larger than the largest packet is enough.
THEOREM PacketsAreHandedOn == Spec => []NothingHeldBack
<1>1. ReceiveInv => NothingHeldBack
  BY DEF ReceiveInv
<1> QED
  BY ReceiveInvariance, <1>1, PTL
-----------------------------------------------------------------------------
(***************************************************************************)
(* The transmit ring of a handle (multiplex_io.c).                         *)
(***************************************************************************)
\* Two facts of arithmetic about the unsigned indices.
LEMMA ModSmall ==
  ASSUME NEW a \in Nat, NEW m \in Nat, a < m
  PROVE  a % m = a
  OBVIOUS

\* The index that reaches the end wraps to 0.
LEMMA ModSelf ==
  ASSUME NEW m \in Nat, m > 0
  PROVE  m % m = 0
  OBVIOUS

\* An index that stays within the array does not wrap.
LEMMA AdvanceSmall ==
  ASSUME NEW i \in Nat, NEW k \in Nat, i + k <= Size
  PROVE  Advance(i, k) = i + k
<1>1. i + k \in Nat /\ UIntMod \in Nat /\ i + k < UIntMod
  BY RingAssumption
<1>2. (i + k) % UIntMod = i + k
  BY <1>1, ModSmall
<1> QED
  BY <1>2 DEF Advance

\* A new ring is empty.
LEMMA InitRing == RingInit => RingInv
  BY RingAssumption DEF RingInit, RingInv, TypeOK, Indices, DrainInv, DataSizeExact,
     rb_get_data_size, QueuedIntact, Slots

\* A writer fits its bytes behind the queued ones and touches none of those.
LEMMA WriteKeepsRing ==
  ASSUME RingInv, intact, NEW len \in 1..Size, rb_write_data(len)
  PROVE  RingInv'
<1> USE RingAssumption
<1>1. /\ intact /\ intact' /\ inOrder' = inOrder
      /\ r_idx' = r_idx /\ released' = released /\ accepted' = accepted + len
      /\ dpc' = dpc /\ r' = r /\ w' = w /\ taken' = taken
  BY DEF rb_write_data
<1>2. /\ inOrder /\ Indices /\ DrainInv /\ TypeOK
      /\ rb_get_data_size = accepted - released
      /\ accepted - released <= Size - 1
  BY <1>1 DEF RingInv, DataSizeExact
<1>3. FreeSize = Size - 1 - (accepted - released)
  BY <1>2 DEF FreeSize, rb_get_data_size, Indices, TypeOK
<1>4. /\ w_idx' \in Nat /\ w_idx' <= Size /\ w_idx' > 0
      /\ w_idx < r_idx => w_idx' < r_idx
      /\ rb_get_data_size' = accepted' - released'
      /\ accepted' - released' <= Size - 1
  BY <1>1, <1>2, <1>3 DEF rb_write_data, FreeSize, FreeAhead, rb_get_data_size, Indices, TypeOK
<1>5. TypeOK'
  BY <1>1, <1>2, <1>4 DEF TypeOK, rb_write_data, Stored, FreeAhead, FreeSize, Slots
<1>6. Indices'
  BY <1>1, <1>2, <1>4 DEF Indices, TypeOK
<1>7. DrainInv'
  BY <1>1, <1>2, <1>4 DEF DrainInv, Indices, TypeOK
<1>8. DataSizeExact'
  BY <1>4 DEF DataSizeExact
<1>9. QueuedIntact'
  <2> SUFFICES ASSUME NEW j \in 0..(accepted + len - released - 1)
               PROVE  data'[Slot(r_idx, j)] = released + j
    BY <1>1, <1>2 DEF QueuedIntact, Slot, TypeOK
  <2>1. Slot(r_idx, j) \in Slots
    BY <1>1, <1>2, <1>3 DEF Slot, Slots, Indices, TypeOK, rb_write_data
  <2>2. CASE j < accepted - released
    <3>1. data[Slot(r_idx, j)] = released + j
      BY <1>1, <1>2, <2>2 DEF RingInv, QueuedIntact, TypeOK
    <3>2. data'[Slot(r_idx, j)] = data[Slot(r_idx, j)]
      <4> DEFINE i == Slot(r_idx, j)
      <4>1. /\ ~(w_idx <= i /\ i < w_idx + (IF FreeAhead >= len THEN len ELSE FreeAhead))
            /\ ~(i < len - (IF FreeAhead >= len THEN len ELSE FreeAhead))
        BY <1>1, <1>2, <1>3, <2>2 
           DEF rb_write_data, FreeAhead, FreeSize, rb_get_data_size, Slot, Indices, TypeOK
      <4> HIDE DEF i
      <4> QED
        BY <2>1, <4>1 DEF rb_write_data, Stored, i
    <3> QED
      BY <3>1, <3>2
  <2>3. CASE j >= accepted - released
    <3> DEFINE i == Slot(r_idx, j)
               ahead == IF FreeAhead >= len THEN len ELSE FreeAhead
               n == j - (accepted - released)
    <3>1. /\ ahead \in Int /\ n \in Int /\ i \in Int
          /\ n < ahead => i = w_idx + n /\ w_idx <= i /\ i < w_idx + ahead
          /\ n >= ahead => i = n - ahead /\ i < w_idx /\ i < len - ahead
      BY <1>1, <1>2, <1>3, <2>3
         DEF rb_write_data, FreeAhead, FreeSize, rb_get_data_size, Slot, Indices, TypeOK
    <3>2. data'[i] = IF w_idx <= i /\ i < w_idx + ahead THEN accepted + (i - w_idx)
                     ELSE IF i < len - ahead            THEN accepted + ahead + i
                     ELSE data[i]
      BY <2>1 DEF rb_write_data, Stored
    <3> HIDE DEF i, ahead
    <3> QED
      BY <1>2, <3>1, <3>2 DEF TypeOK, i
  <2> QED
    BY <1>2, <2>2, <2>3 DEF TypeOK
<1> QED
  BY <1>1, <1>2, <1>5, <1>6, <1>7, <1>8, <1>9 DEF RingInv

\* A reset keeps the ring consistent; one that meets a drain ends the claim.
LEMMA ResetKeepsRing ==
  ASSUME RingInv, intact, reset_write_queue
  PROVE  RingInv'
<1> USE RingAssumption
<1>1. intact' \in BOOLEAN /\ (intact' <=> dpc = "idle")
  BY Zenon DEF reset_write_queue
<1>2. TypeOK'
  BY <1>1 DEF RingInv, reset_write_queue, TypeOK
<1>3. Indices' /\ inOrder' /\ (dpc = "idle" => DrainInv')
  BY DEF RingInv, reset_write_queue, TypeOK, Indices, DrainInv
<1>4. DataSizeExact' /\ QueuedIntact'
  BY DEF RingInv, reset_write_queue, TypeOK, DataSizeExact, rb_get_data_size, QueuedIntact
<1> QED
  BY <1>1, <1>2, <1>3, <1>4 DEF RingInv

\* The snapshot of the indices covers bytes that are queued.
LEMMA SnapshotKeepsRing ==
  ASSUME RingInv, intact, Snapshot
  PROVE  RingInv'
<1> USE RingAssumption
<1>1. TypeOK' /\ Indices' /\ DataSizeExact' /\ inOrder'
  BY DEF RingInv, Snapshot, shared, TypeOK, Indices, DataSizeExact, rb_get_data_size
<1>2. QueuedIntact'
  BY DEF RingInv, Snapshot, shared, QueuedIntact, Slot
<1>3. DrainInv'
  BY DEF RingInv, Snapshot, shared, TypeOK, Indices, DataSizeExact, rb_get_data_size, DrainInv
<1> QED
  BY <1>1, <1>2, <1>3 DEF RingInv

\* A write(2) leaves the shared ring alone: only the thread's own part of the
\* invariant is at stake, and only if it did not fail.
LEMMA SocketStep ==
  ASSUME RingInv, intact, UNCHANGED <<shared, released>>,
         NEW k \in Int, NEW from \in Nat, NEW n \in Nat, Written(k, from, n),
         w' = w, r' \in Nat, dpc' \in {"wrapped", "store"},
         from + n <= Size, n <= accepted - taken,
         \A j \in 0..(n - 1) : data[from + j] = taken + j,
         k >= 0 /\ k <= n /\ taken' = taken + k => DrainInv'
  PROVE  RingInv'
<1>0. inOrder' \in BOOLEAN /\ intact' \in BOOLEAN /\ taken' \in Nat
  <2>1. inOrder' \in BOOLEAN
    BY DEF RingInv, TypeOK, Written, SocketTakes, SocketFails
  <2>2. intact' \in BOOLEAN
    BY DEF RingInv, TypeOK, Written, SocketTakes, SocketFails
  <2>3. taken' = taken \/ (taken' = taken + k /\ k >= 0)
    <3>1. CASE SocketTakes(k, from, n)
      BY <3>1 DEF SocketTakes
    <3>2. CASE SocketFails(k)
      BY <3>2 DEF SocketFails
    <3> QED
      BY <3>1, <3>2 DEF Written
  <2>4. taken' \in Nat
    BY <2>3 DEF RingInv, TypeOK
  <2> QED
    BY <2>1, <2>2, <2>4
<1>1. TypeOK'
  BY <1>0 DEF RingInv, TypeOK, shared
<1>2. DataSizeExact' /\ QueuedIntact'
  BY DEF RingInv, DataSizeExact, QueuedIntact, rb_get_data_size, Slot, shared
<1>3. CASE SocketTakes(k, from, n)
  <2>1. k >= 0 /\ k <= n /\ taken' = taken + k
    BY <1>3 DEF SocketTakes
  <2>2. inOrder'
    <3>1. \A j \in 0..(k - 1) : data[from + j] = taken + j
      BY <2>1
    <3>2. inOrder
      BY DEF RingInv
    <3> QED
      BY <1>3, <3>1, <3>2, Zenon DEF SocketTakes
  <2>3. Indices'
    BY <2>1 DEF RingInv, Indices, TypeOK, shared
  <2> QED
    BY <1>1, <1>2, <2>1, <2>2, <2>3 DEF RingInv
<1>4. CASE SocketFails(k)
  BY <1>1, <1>2, <1>4 DEF SocketFails, RingInv
<1> QED
  BY <1>3, <1>4 DEF Written

\* The drain that does not wrap.
LEMMA WriteStraightKeepsRing ==
  ASSUME RingInv, intact, WriteStraight
  PROVE  RingInv'
<1> USE RingAssumption
<1>1. PICK k \in -1..(w - r) : Written(k, r, w - r) /\ r' = Advance(r, k)
  BY DEF WriteStraight
<1>2. /\ intact /\ dpc = "write" /\ w > r /\ dpc' = "store" /\ w' = w
      /\ UNCHANGED <<shared, released>>
  BY DEF WriteStraight
<1>3. /\ r \in Nat /\ w \in Nat /\ k \in Int /\ r = r_idx /\ taken = released
      /\ w <= Size /\ w - r <= accepted - taken /\ taken \in Nat /\ accepted \in Nat
  BY <1>2 DEF RingInv, TypeOK, DrainInv
<1>4. \A j \in 0..(w - r - 1) : data[r + j] = taken + j
  <2> SUFFICES ASSUME NEW j \in 0..(w - r - 1) PROVE data[r + j] = taken + j
    OBVIOUS
  <2>1. j \in 0..(accepted - released - 1) /\ Slot(r_idx, j) = r + j
    BY <1>2, <1>3 DEF Slot, RingInv, TypeOK
  <2> QED
    BY <1>2, <1>3, <2>1 DEF RingInv, QueuedIntact
<1>5. r' \in Nat
  BY <1>1, <1>3 DEF Advance
<1>6. k >= 0 /\ k <= w - r /\ taken' = taken + k => DrainInv'
  <2> SUFFICES ASSUME k >= 0, k <= w - r, taken' = taken + k PROVE DrainInv'
    OBVIOUS
  <2>2. k \in Nat /\ r + k <= Size
    BY <1>3
  <2>1. r' = r + k
    BY <1>1, <1>3, <2>2, AdvanceSmall
  <2> QED
    BY <1>2, <1>3, <2>1 DEF DrainInv, shared
<1>7. w - r \in Nat /\ r + (w - r) <= Size
  BY <1>2, <1>3
<1>8. dpc' \in {"wrapped", "store"}
  BY <1>2
<1> QED
  BY <1>1, <1>2, <1>3, <1>4, <1>5, <1>6, <1>7, <1>8, SocketStep

\* The first write of a drain that reaches the end of the array.
LEMMA WriteToEndKeepsRing ==
  ASSUME RingInv, intact, WriteToEnd
  PROVE  RingInv'
<1> USE RingAssumption
<1>1. PICK k \in -1..(Size - r) : Written(k, r, Size - r) /\ r' = Advance(r, k) % Size
  BY DEF WriteToEnd
<1>2. /\ intact /\ dpc = "write" /\ w <= r /\ w' = w
      /\ dpc' = IF r' = 0 THEN "wrapped" ELSE "store"
      /\ UNCHANGED <<shared, released>>
  BY DEF WriteToEnd
<1>3. /\ r \in Nat /\ w \in Nat /\ k \in Int /\ r = r_idx /\ taken = released
      /\ r <= Size /\ r > 0 /\ w_idx < r_idx /\ Size - r + w <= accepted - taken
      /\ taken \in Nat /\ accepted \in Nat /\ released \in Nat
  BY <1>2 DEF RingInv, TypeOK, DrainInv, Indices
<1>4. \A j \in 0..(Size - r - 1) : data[r + j] = taken + j
  BY <1>2, <1>3 DEF RingInv, QueuedIntact, Slot
<1>5. r' \in Nat
  BY <1>1, <1>3 DEF Advance
<1>6. k >= 0 /\ k <= Size - r /\ taken' = taken + k => DrainInv'
  <2> SUFFICES ASSUME k >= 0, k <= Size - r, taken' = taken + k PROVE DrainInv'
    OBVIOUS
  <2>1. Advance(r, k) = r + k
    <3>1. k \in Nat /\ r + k <= Size
      BY <1>3
    <3> QED
      BY <1>3, <3>1, AdvanceSmall
  <2>2. r' = IF r + k = Size THEN 0 ELSE r + k
    <3>1. r' = (r + k) % Size
      BY <1>1, <2>1
    <3>2. r + k \in Nat /\ Size \in Nat /\ Size > 0
      BY <1>3
    <3>3. CASE r + k = Size
      BY <3>1, <3>2, <3>3, ModSelf
    <3>4. CASE r + k # Size
      <4>1. r + k < Size
        BY <1>3, <3>2, <3>4
      <4> QED
        BY <3>1, <3>2, <3>4, <4>1, ModSmall
    <3> QED
      BY <3>3, <3>4
  <2>3. CASE r + k = Size
    BY <1>2, <1>3, <2>2, <2>3 DEF DrainInv, shared
  <2>4. CASE r + k # Size
    BY <1>2, <1>3, <2>2, <2>4 DEF DrainInv, shared
  <2> QED
    BY <2>3, <2>4
<1>7. dpc' \in {"wrapped", "store"}
  BY <1>2
<1>8. Size - r \in Nat /\ r + (Size - r) <= Size /\ Size - r <= accepted - taken
  BY <1>3
<1> QED
  BY <1>1, <1>2, <1>3, <1>4, <1>5, <1>6, <1>7, <1>8, SocketStep

\* The second write, from slot 0, up to the w_idx of the snapshot.
LEMMA WriteWrappedKeepsRing ==
  ASSUME RingInv, intact, WriteWrapped
  PROVE  RingInv'
<1> USE RingAssumption
<1>1. PICK k \in -1..w : Written(k, 0, w) /\ r' = Advance(0, k)
  BY DEF WriteWrapped
<1>2. /\ intact /\ dpc = "wrapped" /\ w' = w /\ dpc' = "store"
      /\ UNCHANGED <<shared, released>>
  BY DEF WriteWrapped
<1>3. /\ w \in Nat /\ k \in Int /\ r_idx \in Nat /\ r_idx <= Size /\ w_idx < r_idx
      /\ taken = released + (Size - r_idx) /\ w <= accepted - taken
      /\ taken \in Nat /\ accepted \in Nat /\ released \in Nat
      /\ accepted - released <= Size - 1
  BY <1>2 DEF RingInv, TypeOK, DrainInv, Indices, DataSizeExact
<1>4. \A j \in 0..(w - 1) : data[0 + j] = taken + j
  <2> SUFFICES ASSUME NEW j \in 0..(w - 1) PROVE data[0 + j] = taken + j
    OBVIOUS
  <2> DEFINE i == Size - r_idx + j
  <2>1. i \in 0..(accepted - released - 1) /\ Slot(r_idx, i) = j
    BY <1>3 DEF Slot
  <2>2. data[Slot(r_idx, i)] = released + i
    BY <1>2, <2>1 DEF RingInv, QueuedIntact
  <2> QED
    BY <1>3, <2>1, <2>2
<1>5. r' \in Nat
  BY <1>1, <1>3 DEF Advance
<1>6. k >= 0 /\ k <= w /\ taken' = taken + k => DrainInv'
  <2> SUFFICES ASSUME k >= 0, k <= w, taken' = taken + k PROVE DrainInv'
    OBVIOUS
  <2>1. r' = k
    BY <1>1, <1>3, ModSmall DEF Advance
  <2> QED
    BY <1>2, <1>3, <2>1 DEF DrainInv, shared
<1> QED
  BY <1>1, <1>2, <1>3, <1>4, <1>5, <1>6, SocketStep

\* Storing r_idx releases exactly the bytes that were taken.
LEMMA StoreKeepsRing ==
  ASSUME RingInv, intact, Store
  PROVE  RingInv'
<1> USE RingAssumption DEF RingInv, Store
<1>1. TypeOK'
  BY DEF TypeOK
<1>2. Indices' /\ inOrder'
  BY DEF TypeOK, Indices, DrainInv, DataSizeExact, rb_get_data_size
<1>3. DrainInv'
  BY DEF TypeOK, DrainInv
<1>4. DataSizeExact'
  BY DEF TypeOK, Indices, DrainInv, DataSizeExact, rb_get_data_size
<1>5. QueuedIntact'
  <2> SUFFICES ASSUME NEW j \in 0..(accepted - taken - 1)
               PROVE  data[Slot(r, j)] = taken + j
    BY DEF QueuedIntact, Slot
  <2> DEFINE d == taken - released
  <2>1. d + j \in 0..(accepted - released - 1)
    BY DEF TypeOK, Indices
  <2>2. Slot(r, j) = Slot(r_idx, d + j)
    BY DEF TypeOK, Indices, DrainInv, Slot, DataSizeExact, rb_get_data_size
  <2>3. data[Slot(r_idx, d + j)] = released + (d + j)
    BY <2>1 DEF QueuedIntact
  <2> QED
    BY <2>2, <2>3 DEF TypeOK
<1> QED
  BY <1>1, <1>2, <1>3, <1>4, <1>5

\* After a failed write(2), or a reset that met a drain, only types are claimed.
LEMMA BrokenKeepsRing ==
  ASSUME RingInv, ~intact, RingNext
  PROVE  RingInv'
<1> USE RingAssumption
<1>1. TypeOK
  BY DEF RingInv
<1>2. ~intact' /\ intact' \in BOOLEAN /\ inOrder' \in BOOLEAN
  <2>1. intact \in BOOLEAN /\ inOrder \in BOOLEAN
    BY <1>1 DEF TypeOK
  <2>2. ASSUME NEW k, NEW from, NEW n, Written(k, from, n)
        PROVE  ~intact' /\ intact' \in BOOLEAN /\ inOrder' \in BOOLEAN
    <3>1. CASE SocketTakes(k, from, n)
      <4>1. intact' = intact
        BY <3>1 DEF SocketTakes
      <4>2. inOrder' \in BOOLEAN
        BY <3>1 DEF SocketTakes
      <4> QED
        BY <2>1, <4>1, <4>2, Zenon
    <3>2. CASE SocketFails(k)
      <4>1. intact' = FALSE /\ inOrder' = inOrder
        BY <3>2 DEF SocketFails
      <4> QED
        BY <2>1, <4>1, Zenon
    <3> QED
      BY <2>2, <3>1, <3>2 DEF Written
  <2>3. CASE \E len \in 1..Size : rb_write_data(len)
    <3>1. intact' = intact /\ inOrder' = inOrder
      BY <2>3 DEF rb_write_data
    <3> QED
      BY <2>1, <3>1, Zenon
  <2>4. CASE reset_write_queue
    BY <2>1, <2>4, Zenon DEF reset_write_queue
  <2>5. CASE Snapshot
    BY <2>1, <2>5, Zenon DEF Snapshot
  <2>6. CASE Store
    BY <2>1, <2>6, Zenon DEF Store
  <2>7. CASE WriteStraight
    BY <2>2, <2>7, Zenon DEF WriteStraight
  <2>8. CASE WriteToEnd
    BY <2>2, <2>8, Zenon DEF WriteToEnd
  <2>9. CASE WriteWrapped
    BY <2>2, <2>9, Zenon DEF WriteWrapped
  <2> QED
    BY <2>3, <2>4, <2>5, <2>6, <2>7, <2>8, <2>9, Zenon DEF RingNext, Drain
<1>3. TypeOK'
  <2>1. CASE \E len \in 1..Size : rb_write_data(len)
    BY <1>1, <1>2, <2>1 DEF TypeOK, rb_write_data, Stored, FreeAhead, FreeSize, Slots
  <2>2. CASE reset_write_queue
    BY <1>1, <1>2, <2>2 DEF TypeOK, reset_write_queue
  <2>3. CASE Snapshot
    BY <1>1, <1>2, <2>3 DEF TypeOK, Snapshot, shared
  <2>4. CASE Store
    BY <1>1, <1>2, <2>4 DEF TypeOK, Store
  <2>5. ASSUME NEW k, NEW from, NEW n, Written(k, from, n) PROVE taken' = taken
    BY <2>5, Zenon DEF Written, SocketTakes, SocketFails
  <2>6. CASE WriteStraight
    <3>1. taken' = taken
      BY <2>5, <2>6, Zenon DEF WriteStraight
    <3> QED
      BY <1>1, <1>2, <2>6, <3>1 DEF TypeOK, WriteStraight, Advance, shared
  <2>7. CASE WriteToEnd
    <3>1. taken' = taken
      BY <2>5, <2>7, Zenon DEF WriteToEnd
    <3> QED
      BY <1>1, <1>2, <2>7, <3>1 DEF TypeOK, WriteToEnd, Advance, shared
  <2>8. CASE WriteWrapped
    <3>1. taken' = taken
      BY <2>5, <2>8, Zenon DEF WriteWrapped
    <3> QED
      BY <1>1, <1>2, <2>8, <3>1 DEF TypeOK, WriteWrapped, Advance, shared
  <2> QED
    BY <2>1, <2>2, <2>3, <2>4, <2>6, <2>7, <2>8 DEF RingNext, Drain
<1> QED
  BY <1>2, <1>3 DEF RingInv, DataSizeExact, QueuedIntact

\* RingInv is an invariant, for every size of the ring and of the integers.
THEOREM RingInvariance == RingSpec => []RingInv
<1>1. RingInv /\ [RingNext]_ringVars => RingInv'
  <2> SUFFICES ASSUME RingInv, [RingNext]_ringVars PROVE RingInv'
    OBVIOUS
  <2>1. ASSUME intact, NEW len \in 1..Size, rb_write_data(len) PROVE RingInv'
    BY <2>1, WriteKeepsRing
  <2>2. CASE UNCHANGED ringVars
    BY <2>2 DEF ringVars, RingInv, TypeOK, Indices, DrainInv, DataSizeExact,
                rb_get_data_size, QueuedIntact, Slot
  <2> QED
    BY <2>1, <2>2, BrokenKeepsRing, ResetKeepsRing, SnapshotKeepsRing, WriteStraightKeepsRing,
       WriteToEndKeepsRing, WriteWrappedKeepsRing, StoreKeepsRing
       DEF RingNext, Drain
<1> QED
  BY InitRing, <1>1, PTL DEF RingSpec

\* The socket gets the accepted bytes once each and in order.
THEOREM StreamOrder == RingSpec => []StreamInOrder
<1>1. RingInv => StreamInOrder
  BY DEF RingInv, StreamInOrder
<1> QED
  BY <1>1, RingInvariance, PTL

\* Queued bytes are never overwritten.
THEOREM QueueSafe == RingSpec => []QueuedIntact
<1>1. RingInv => QueuedIntact
  BY DEF RingInv
<1> QED
  BY <1>1, RingInvariance, PTL

\* The reported queue length is exact and a full ring never looks empty.
THEOREM QueueLength == RingSpec => []DataSizeExact
<1>1. RingInv => DataSizeExact
  BY DEF RingInv
<1> QED
  BY <1>1, RingInvariance, PTL
=============================================================================
