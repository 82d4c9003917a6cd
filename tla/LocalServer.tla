---------------------------- MODULE LocalServer -----------------------------
(***************************************************************************)
(* The broker of apps/sysbus/src/local_server.c: it accepts clients, cuts  *)
(* their byte streams into packets, keeps the subscription lists and hands *)
(* every published packet to the subscribers' transmit rings.              *)
(*                                                                         *)
(* All of it runs in the epoll thread, so a callback is not interrupted;   *)
(* what varies is how the streams are cut by read(2) and in which order    *)
(* clients are served.  A step is one turn of a loop of the callback.  Two *)
(* things of the event loop matter here: a client that is accepted before  *)
(* the handle of a dropped one is reaped may be given its descriptor, and  *)
(* then loses its epoll registration; and the loop may end (MultiplexIo).  *)
(*                                                                         *)
(* Every subscription is a reference object that stands in two lists: that *)
(* of its packet id (subscribe_client_list) and that of its client         *)
(* (ref_list).  Lists are sets here, as no property is about their order;  *)
(* SysbusList models the pointers.  Packet id 0 is the control channel and *)
(* is never subscribed to (see ServerAssumption).                          *)
(***************************************************************************)
EXTENDS Integers, Sequences, FiniteSets, Functions

CONSTANTS Clients,   \* client_runtime_t objects malloc can return
          Refs,      \* client_runtime_ref_list_t objects malloc can return
          Ids,       \* packet ids other than 0
          Packets,   \* the packets clients send
          RxBuf,     \* sizeof(cli->rx_buf), 65540
          MaxPkt,    \* largest packet: a 16 bit size field and its 2 bytes, 65537
          TxCap,     \* bytes a transmit ring holds
          ReadSizes, \* sizes of the partial reads considered
          MaxSent    \* bound on the packets sent in a behaviour

Kinds == {"data", "subscribe", "unsubscribe", "other"}

\* A packet: its kind ("data" has an id other than 0; "other" are control
\* packets without effect on subscriptions: the name, and malformed ones), the
\* id of a data packet, the ids listed by a control packet, and its length on
\* the wire with the size field.
ASSUME ServerAssumption ==
  /\ 0 \notin Ids
  /\ \A p \in Packets : /\ p.kind \in Kinds
                        /\ p.kind = "data" => p.id \in Ids
                        /\ p.ids \in Seq(Ids)
                        /\ p.bytes \in 4..MaxPkt
  /\ MaxPkt \in Nat /\ RxBuf \in Nat /\ RxBuf > MaxPkt /\ MaxPkt >= 4
  /\ TxCap \in Nat /\ MaxSent \in Nat /\ ReadSizes \subseteq Nat
  /\ Clients # {}

VARIABLES
  connected,    \* clients in subscribe_client_list[0]
  stream,       \* packets sent by a client and not yet parsed
  unread,       \* bytes of the stream that are still in the socket
  rx_idx,       \* bytes of the stream that are in rx_buf
  hung,         \* clients that have closed their end
  deaf,         \* clients that epoll does not know any more
  unreaped,     \* a handle was deleted whose EPOLL_CTL_DEL is still to come
  refs,         \* allocated reference objects
  refClient,    \* cli_ref->client
  idList,       \* subscribe_client_list[id], as a set of references
  refList,      \* ref_list of a client, as a set of references
  tx,           \* packets in the transmit ring of a client's handle
  pc, cur, todo,     \* the callback: where it is, its client, ids left to do
  sent          \* packets sent so far

lists == <<refs, refClient, idList, refList>>
wire  == <<stream, unread, rx_idx>>
mio   == <<deaf, unreaped>>
vars  == <<connected, wire, hung, mio, lists, tx, pc, cur, todo, sent>>

Init ==
  /\ connected = {} /\ hung = {} /\ deaf = {} /\ unreaped = FALSE
  /\ stream = [c \in Clients |-> <<>>]
  /\ unread = [c \in Clients |-> 0]
  /\ rx_idx = [c \in Clients |-> 0]
  /\ refs = {}
  /\ refClient = [r \in Refs |-> CHOOSE c \in Clients : TRUE]
  /\ idList = [id \in Ids |-> {}]
  /\ refList = [c \in Clients |-> {}]
  /\ tx = [c \in Clients |-> <<>>]
  /\ pc = "idle" /\ cur = (CHOOSE c \in Clients : TRUE) /\ todo = <<>>
  /\ sent = 0
-----------------------------------------------------------------------------
(***************************************************************************)
(* The clients: sysbus_msg_send and its siblings write whole packets.      *)
(* What they do once the loop has ended is left out.                       *)
(***************************************************************************)
Send(c, p) ==
  /\ pc # "ended" /\ c \in connected \ hung /\ sent < MaxSent
  /\ stream' = [stream EXCEPT ![c] = Append(@, p)]
  /\ unread' = [unread EXCEPT ![c] = @ + p.bytes]
  /\ sent' = sent + 1
  /\ UNCHANGED <<connected, rx_idx, hung, mio, lists, tx, pc, cur, todo>>

Close(c) ==
  /\ pc # "ended" /\ c \in connected \ hung
  /\ hung' = hung \cup {c}
  /\ UNCHANGED <<connected, wire, mio, lists, tx, pc, cur, todo, sent>>
-----------------------------------------------------------------------------
\* listen_fd_rd_callback, when accept, malloc and multiplex_io_handle_add
\* succeed; otherwise the connection is closed and nothing changes.  accept may
\* return the descriptor of a handle that is not reaped yet, and the late
\* EPOLL_CTL_DEL then removes the registration of the new client.
listen_fd_rd_callback(c) ==
  /\ pc = "idle" /\ c \notin connected
  /\ connected' = connected \cup {c}
  /\ hung' = hung \ {c}
  /\ deaf' \in {deaf} \cup (IF unreaped THEN {deaf \cup {c}} ELSE {})
  /\ stream' = [stream EXCEPT ![c] = <<>>]
  /\ unread' = [unread EXCEPT ![c] = 0]
  /\ rx_idx' = [rx_idx EXCEPT ![c] = 0]
  /\ refList' = [refList EXCEPT ![c] = {}]
  /\ tx' = [tx EXCEPT ![c] = <<>>]
  /\ UNCHANGED <<unreaped, refs, refClient, idList, pc, cur, todo, sent>>

\* The end of a batch of events: what was deleted in it is reaped.  Of the
\* events behind the one that deleted it only an accept makes a difference; the
\* others are taken to come in the next batch.
Reap ==
  /\ pc = "idle" /\ unreaped
  /\ unreaped' = FALSE
  /\ UNCHANGED <<connected, wire, hung, deaf, lists, tx, pc, cur, todo, sent>>

\* epoll_wait fails, or a write to a peer that has gone ends the process.
LoopEnds ==
  /\ pc = "idle" /\ ~unreaped
  /\ pc' = "ended"
  /\ UNCHANGED <<connected, wire, hung, mio, lists, tx, cur, todo, sent>>

\* The epoll thread hands a packet of a transmit ring to the socket.
Transmit(c) ==
  /\ pc = "idle" /\ ~unreaped /\ c \in connected \ deaf /\ tx[c] # <<>>
  /\ tx' = [tx EXCEPT ![c] = Tail(@)]
  /\ UNCHANGED <<connected, wire, hung, mio, lists, pc, cur, todo, sent>>
-----------------------------------------------------------------------------
(***************************************************************************)
(* com_fd_rd_callback.                                                     *)
(***************************************************************************)
Room(c) == RxBuf - rx_idx[c]

Lesser(m, n) == IF m < n THEN m ELSE n

\* read(2) returns what has arrived so far, as far as the buffer has room.
ReadSome(c) ==
  /\ pc = "idle" /\ ~unreaped /\ c \in connected \ deaf /\ unread[c] > 0 /\ Room(c) > 0
  /\ LET most == Lesser(unread[c], Room(c)) IN
     \E k \in {n \in ReadSizes : 1 <= n /\ n <= most} \cup {most} :
       /\ rx_idx' = [rx_idx EXCEPT ![c] = @ + k]
       /\ unread' = [unread EXCEPT ![c] = @ - k]
  /\ pc' = "parse" /\ cur' = c
  /\ UNCHANGED <<connected, stream, hung, mio, lists, tx, todo, sent>>

Pkt == Head(stream[cur])

\* Mutant: a packet that ends the buffer is not recognised.
MUT_Complete == rx_idx[cur] > 4 /\ stream[cur] # <<>> /\ Pkt.bytes < rx_idx[cur]

\* The conditions of the parsing loop: more than the four bytes of a header
\* are there, and they make up the whole packet.
Complete == rx_idx[cur] > 4 /\ stream[cur] # <<>> /\ Pkt.bytes <= rx_idx[cur]

\* Mutant: what was parsed stays in the buffer.
MUT_Consume ==
  /\ stream' = [stream EXCEPT ![cur] = Tail(@)]
  /\ UNCHANGED rx_idx
  /\ UNCHANGED <<connected, unread, hung, mio, cur, sent>>

\* base_idx moves on to the next packet.
Consume ==
  /\ stream' = [stream EXCEPT ![cur] = Tail(@)]
  /\ rx_idx' = [rx_idx EXCEPT ![cur] = @ - Pkt.bytes]
  /\ UNCHANGED <<connected, unread, hung, mio, cur, sent>>

Bytes(q) == FoldFunction(LAMBDA p, n : p.bytes + n, 0, q)

Fits(q, p) == Bytes(q) + p.bytes <= TxCap

\* Mutant: the room in the ring is not looked at.
MUT_Enqueue(p, q, k) == q \o [j \in 1..k |-> p]

\* k times multiplex_io_write on the handle of a subscriber, whose ring holds
\* q: all of the packet or none each time.
Enqueue(p, q, k) ==
  LET written == {j \in 1..k : Bytes(q) + j * p.bytes <= TxCap}
  IN  q \o [j \in 1..Cardinality(written) |-> p]

\* dispatch_pkt walks the list of the id and writes for every reference.
dispatch_pkt ==
  /\ pc = "parse" /\ Complete /\ Pkt.kind = "data"
  /\ tx' = [c \in Clients |->
              Enqueue(Pkt, tx[c], Cardinality({r \in idList[Pkt.id] : refClient[r] = c}))]
  /\ Consume
  /\ UNCHANGED <<lists, pc, todo>>

\* A control packet with a list of ids, which are looked at one by one.
ParseControl ==
  /\ pc = "parse" /\ Complete /\ Pkt.kind \in {"subscribe", "unsubscribe"}
  /\ pc' = Pkt.kind /\ todo' = Pkt.ids
  /\ UNCHANGED <<connected, wire, hung, mio, lists, tx, cur, sent>>

Own(id) == {r \in idList[id] : refClient[r] = cur}

\* Mutant: a second reference for the same client and id.
MUT_subscribe_pkt ==
  /\ pc = "subscribe" /\ todo # <<>>
  /\ LET id == Head(todo) IN
     \/ \E r \in Refs \ refs :
             /\ refs' = refs \cup {r}
             /\ refClient' = [refClient EXCEPT ![r] = cur]
             /\ idList' = [idList EXCEPT ![id] = @ \cup {r}]
             /\ refList' = [refList EXCEPT ![cur] = @ \cup {r}]
     \/ UNCHANGED lists
  /\ todo' = Tail(todo)
  /\ UNCHANGED <<connected, wire, hung, mio, tx, pc, cur, sent>>

\* subscribe_pkt: nothing if the client is in the list, or malloc fails.
subscribe_pkt ==
  /\ pc = "subscribe" /\ todo # <<>>
  /\ LET id == Head(todo) IN
     \/ /\ Own(id) = {}
        /\ \E r \in Refs \ refs :
             /\ refs' = refs \cup {r}
             /\ refClient' = [refClient EXCEPT ![r] = cur]
             /\ idList' = [idList EXCEPT ![id] = @ \cup {r}]
             /\ refList' = [refList EXCEPT ![cur] = @ \cup {r}]
     \/ UNCHANGED lists
  /\ todo' = Tail(todo)
  /\ UNCHANGED <<connected, wire, hung, mio, tx, pc, cur, sent>>

\* unsubscribe_pkt: every reference of the client in the list leaves both of
\* its lists and is freed.
unsubscribe_pkt ==
  /\ pc = "unsubscribe" /\ todo # <<>>
  /\ LET gone == Own(Head(todo)) IN
     /\ idList' = [idList EXCEPT ![Head(todo)] = @ \ gone]
     /\ refList' = [c \in Clients |-> refList[c] \ gone]
     /\ refs' = refs \ gone
  /\ todo' = Tail(todo)
  /\ UNCHANGED <<refClient, connected, wire, hung, mio, tx, pc, cur, sent>>

ControlDone ==
  /\ pc \in {"subscribe", "unsubscribe"} /\ todo = <<>>
  /\ Consume
  /\ pc' = "parse"
  /\ UNCHANGED <<lists, tx, todo>>

\* The client's name, and control packets that are ignored.
ParseOther ==
  /\ pc = "parse" /\ Complete /\ Pkt.kind = "other"
  /\ Consume
  /\ UNCHANGED <<lists, tx, pc, todo>>

\* What is left moves to the front of rx_buf.
ParseEnd ==
  /\ pc = "parse" /\ ~Complete
  /\ pc' = "idle"
  /\ UNCHANGED <<connected, wire, hung, mio, lists, tx, cur, todo, sent>>

\* multiplex_io_read returns 0 (end of file), or an error because the buffer
\* has no room: the client is taken out of every list and freed.
Drop(c) ==
  /\ pc = "idle" /\ ~unreaped /\ c \in connected \ deaf
  /\ (c \in hung /\ unread[c] = 0) \/ (unread[c] > 0 /\ Room(c) = 0)
  /\ connected' = connected \ {c}
  /\ idList' = [id \in Ids |-> idList[id] \ refList[c]]
  /\ refs' = refs \ refList[c]
  /\ refList' = [refList EXCEPT ![c] = {}]
  /\ tx' = [tx EXCEPT ![c] = <<>>]
  /\ unreaped' = TRUE
  /\ UNCHANGED <<refClient, wire, hung, deaf, pc, cur, todo, sent>>

Parse == \/ dispatch_pkt \/ ParseControl \/ subscribe_pkt \/ unsubscribe_pkt
         \/ ControlDone \/ ParseOther \/ ParseEnd

Next == \/ Parse \/ Reap \/ LoopEnds
        \/ \E c \in Clients : \/ listen_fd_rd_callback(c) \/ Transmit(c)
                              \/ ReadSome(c) \/ Drop(c) \/ Close(c)
                              \/ \E p \in Packets : Send(c, p)

Spec == Init /\ [][Next]_vars

(***************************************************************************)
(* The epoll thread goes on with the callback and the batch it is in, and  *)
(* as long as the loop runs it serves every readable client that epoll     *)
(* knows: InputIsServed of MultiplexIo, which has the same two exceptions. *)
(* Clients need not do anything, rings need not drain, the loop may end.   *)
(***************************************************************************)
Fairness == /\ WF_vars(Parse) /\ WF_vars(Reap)
            /\ \A c \in Clients : SF_vars(ReadSome(c))

FairSpec == Spec /\ Fairness
-----------------------------------------------------------------------------
\* Every variable has its type; the bytes received fit rx_buf.
TypeOK ==
  /\ connected \subseteq Clients /\ hung \subseteq Clients
  /\ deaf \subseteq Clients /\ unreaped \in BOOLEAN
  /\ stream \in [Clients -> Seq(Packets)]
  /\ unread \in [Clients -> Nat]
  /\ rx_idx \in [Clients -> 0..RxBuf]
  /\ refs \subseteq Refs
  /\ refClient \in [Refs -> Clients]
  /\ idList \in [Ids -> SUBSET Refs]
  /\ refList \in [Clients -> SUBSET Refs]
  /\ pc \in {"idle", "parse", "subscribe", "unsubscribe", "ended"}
  /\ cur \in Clients
  /\ todo \in Seq(Ids)
  /\ sent \in Nat

\* The two kinds of lists agree on which references exist.  No list holds a
\* freed reference, no reference belongs to a freed client or is lost (in no
\* list of an id, so that nothing frees it but the end of its client), no
\* reference is in the lists of two ids, and a client is at most once in the
\* list of an id, so that it gets at most one copy of a packet.
SubscriptionsConsistent ==
  /\ \A id \in Ids : idList[id] \subseteq refs
  /\ \A c \in Clients : \A r \in refList[c] : r \in refs /\ refClient[r] = c
  /\ \A r \in refs : /\ refClient[r] \in connected
                     /\ r \in refList[refClient[r]]
                     /\ \E id \in Ids : r \in idList[id]
  /\ \A i, j \in Ids : i # j => idList[i] \cap idList[j] = {}
  /\ \A id \in Ids : \A r, s \in idList[id] : refClient[r] = refClient[s] => r = s

\* What a callback leaves in rx_buf is the beginning of a packet, or exactly
\* one header: a packet without payload that is the last in the buffer is not
\* recognised before more bytes arrive, as the loop wants more than four.
LeftoverIsPartial ==
  \A c \in connected :
    pc = "idle" /\ stream[c] # <<>> /\ rx_idx[c] >= Head(stream[c]).bytes
      => rx_idx[c] = 4 /\ Head(stream[c]).bytes = 4

\* The broker drops only clients that have closed their end: no cutting of the
\* stream makes it run out of buffer and give up a client.
OnlyClosedAreDropped == [][\A c \in connected \ connected' : c \in hung]_vars

\* The ids a client is subscribed to.
Subs == [c \in Clients |-> {id \in Ids : \E r \in idList[id] : refClient[r] = c}]

Bus == INSTANCE PubSub WITH subs <- Subs, inbox <- tx

\* The broker implements PubSub: through the lists of references and the
\* parsing of cut streams, every packet reaches exactly the subscribers of the
\* moment, once and in the order of publication.
RefinesPubSub == Bus!Spec

\* Everything a client sends is parsed in the end, unless the client leaves, is
\* one that lost its epoll registration to the late EPOLL_CTL_DEL of a dropped
\* client, or the loop ends; but a packet without payload may stay behind, if it
\* is the last one.
EverythingIsParsed ==
  \A c \in Clients :
    []<>(\/ c \notin connected \ deaf \/ pc = "ended"
         \/ stream[c] = <<>>
         \/ unread[c] = 0 /\ rx_idx[c] = 4 /\ Head(stream[c]).bytes = 4)
=============================================================================
