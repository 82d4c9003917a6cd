---------------------------- MODULE SysbusClient ----------------------------
(***************************************************************************)
(* A client of the bus, apps/sysbus/lib_src/libsysbus.c as it is compiled  *)
(* (without LIBSYSBUS_USE_MIO): the receive thread that sysbus_connect     *)
(* starts, and the application, which disconnects either from a thread of  *)
(* its own or from the packet callback, as it has decided once and for     *)
(* all.  The broker is the environment: it sends packets, and closes the   *)
(* connection when it likes or when it sees the end of the stream.         *)
(*                                                                         *)
(* close(2) does not wake up a thread that is in read(2) on the same       *)
(* descriptor, and the socket stays open until that read returns.          *)
(***************************************************************************)
EXTENDS Naturals, Sequences

CONSTANTS Sizes,       \* lengths of packets on the wire, with the size field
          RxBuf,       \* sizeof(handle->rx_buff), SYSBUS_RX_BUF_SIZE
          MaxPkt,      \* largest packet, 65537
          MaxIn,       \* bound on the packets of a connection
          MaxConnects  \* bound on connections

ASSUME ClientAssumption ==
  /\ MaxPkt \in Nat /\ RxBuf \in Nat /\ RxBuf > MaxPkt
  /\ Sizes \subseteq 4..MaxPkt
  /\ MaxIn \in Nat /\ MaxConnects \in Nat

VARIABLES
  policy,         \* who disconnects: "thread" or "callback"
  handle,         \* "none", "live" or "freed"
  fd,             \* "open" or "closed"
  apc,            \* the application's thread
  rpc,            \* sysbus_rx_thread
  rx_total_size,  \* bytes in rx_buff from i on
  stream,         \* packets sent by the broker, from the one at i on
  unread,         \* bytes of them that are still in the socket
  hungup,         \* the broker has closed its end
  sent, connects, \* numbers of packets and connections
  interrupted,    \* a signal has ended the receive loop of this connection
  alive           \* no SIGPIPE yet

rx == <<rpc, rx_total_size>>
wire == <<stream, unread, sent>>
vars == <<policy, handle, fd, apc, rx, wire, hungup, connects, interrupted, alive>>

Init ==
  /\ policy \in {"thread", "callback"}
  /\ handle = "none" /\ fd = "closed" /\ apc = "idle"
  /\ rpc = "none" /\ rx_total_size = 0
  /\ stream = <<>> /\ unread = 0 /\ sent = 0
  /\ hungup = FALSE /\ connects = 0 /\ interrupted = FALSE /\ alive = TRUE
-----------------------------------------------------------------------------
(***************************************************************************)
(* The application's thread.                                               *)
(***************************************************************************)
\* sysbus_connect up to pthread_create; on failure nothing remains of it.
sysbus_connect ==
  /\ alive /\ apc = "idle" /\ rpc \in {"none", "done"} /\ connects < MaxConnects
  /\ handle' = "live" /\ fd' = "open"
  /\ rpc' = "read" /\ rx_total_size' = 0
  /\ stream' = <<>> /\ unread' = 0 /\ sent' = 0 /\ hungup' = FALSE
  /\ connects' = connects + 1 /\ interrupted' = FALSE
  /\ apc' = "name"
  /\ UNCHANGED <<policy, alive>>

\* sysbus_msg_send for the name, which the broker always takes.
NameSent ==
  /\ alive /\ apc = "name" /\ ~hungup
  /\ apc' = "up"
  /\ UNCHANGED <<policy, handle, fd, rx, wire, hungup, connects, interrupted, alive>>

\* A write that a signal cuts short: close, then pthread_join.
NameFails ==
  /\ alive /\ apc = "name" /\ ~hungup
  /\ fd' = "closed" /\ apc' = "join"
  /\ UNCHANGED <<policy, handle, rx, wire, hungup, connects, interrupted, alive>>

\* sysbus_msg_send, subscribe and unsubscribe, from any thread, leave the client
\* as it is; to a broker that has gone they raise SIGPIPE, which nothing ignores
\* (once the descriptor is closed they only fail).
sysbus_msg_send ==
  /\ alive /\ hungup
  /\ apc \in {"name", "up"}
  /\ alive' = FALSE
  /\ UNCHANGED <<policy, handle, fd, apc, rx, wire, hungup, connects, interrupted>>

\* Mutant: the handle is freed before the thread has ended.
MUT_sysbus_disconnect ==
  /\ alive /\ apc = "up" /\ policy = "thread"
  /\ fd' = "closed" /\ apc' = "join" /\ handle' = "freed"
  /\ UNCHANGED <<policy, rx, wire, hungup, connects, interrupted, alive>>

\* Mutant: the descriptor is left open.
MUT_disconnect_open ==
  /\ alive /\ apc = "up" /\ policy = "thread"
  /\ apc' = "join"
  /\ UNCHANGED <<policy, handle, fd, rx, wire, hungup, connects, interrupted, alive>>

sysbus_disconnect ==
  /\ alive /\ apc = "up" /\ policy = "thread"
  /\ fd' = "closed" /\ apc' = "join"
  /\ UNCHANGED <<policy, handle, rx, wire, hungup, connects, interrupted, alive>>

\* pthread_join returns, and the handle is freed.
Join ==
  /\ alive /\ apc = "join" /\ rpc = "done"
  /\ handle' = "freed" /\ apc' = "idle"
  /\ UNCHANGED <<policy, fd, rx, wire, hungup, connects, interrupted, alive>>
-----------------------------------------------------------------------------
(***************************************************************************)
(* sysbus_rx_thread.                                                       *)
(***************************************************************************)
Room == RxBuf - rx_total_size
Pkt == Head(stream)

\* read(2) is entered: it fails on a closed descriptor (no other file has got
\* its number in the meantime).
RxRead ==
  /\ alive /\ rpc = "read"
  /\ rpc' = IF fd = "open" THEN "blocked" ELSE "last"
  /\ UNCHANGED <<policy, handle, fd, apc, rx_total_size, wire, hungup, connects, interrupted, alive>>

\* It returns some of the bytes that have arrived.
RxData ==
  /\ alive /\ rpc = "blocked" /\ unread > 0
  /\ \E n \in 1..unread :
       /\ n <= Room
       /\ rx_total_size' = rx_total_size + n
       /\ unread' = unread - n
  /\ rpc' = "parse"
  /\ UNCHANGED <<policy, handle, fd, apc, stream, sent, hungup, connects, interrupted, alive>>

\* Mutant: the loop goes on after a read of 0 bytes.
MUT_RxEof ==
  /\ alive /\ rpc = "blocked"
  /\ Room = 0 \/ (unread = 0 /\ hungup)
  /\ rpc' = "read"
  /\ UNCHANGED <<policy, handle, fd, apc, rx_total_size, wire, hungup, connects, interrupted, alive>>

\* Without room it returns 0, as at the end of the stream.
RxEof ==
  /\ alive /\ rpc = "blocked"
  /\ Room = 0 \/ (unread = 0 /\ hungup)
  /\ rpc' = "last"
  /\ UNCHANGED <<policy, handle, fd, apc, rx_total_size, wire, hungup, connects, interrupted, alive>>

\* A signal ends a read that waits for bytes: it returns -1 (EINTR) on an open
\* descriptor, which ends the loop as well.
RxInterrupted ==
  /\ alive /\ rpc = "blocked" /\ unread = 0 /\ ~hungup
  /\ rpc' = "last" /\ interrupted' = TRUE
  /\ UNCHANGED <<policy, handle, fd, apc, rx_total_size, wire, hungup, connects, alive>>

\* Mutant: a packet without data is not recognised.
MUT_Complete == rx_total_size > 4 /\ Pkt <= rx_total_size

\* i + 3 < rx_total_size and i + pkt_size + 2 <= rx_total_size.
Complete == rx_total_size > 3 /\ Pkt <= rx_total_size

RxPacket ==
  /\ alive /\ rpc = "parse" /\ Complete
  /\ rpc' = "callback"
  /\ UNCHANGED <<policy, handle, fd, apc, rx_total_size, wire, hungup, connects, interrupted, alive>>

\* pkt_proc_fn returns; the packet is removed from the buffer (the memcpy of
\* what remains comes after the last complete packet).
CallbackReturns ==
  /\ alive /\ rpc = "callback"
  /\ stream' = Tail(stream)
  /\ rx_total_size' = rx_total_size - Pkt
  /\ rpc' = "parse"
  /\ UNCHANGED <<policy, handle, fd, apc, unread, sent, hungup, connects, interrupted, alive>>

RxMore ==
  /\ alive /\ rpc = "parse" /\ ~Complete
  /\ rpc' = "read"
  /\ UNCHANGED <<policy, handle, fd, apc, rx_total_size, wire, hungup, connects, interrupted, alive>>

\* pkt_proc_fn(0, NULL, 0) returns and the thread ends.
LastReturns ==
  /\ alive /\ rpc = "last"
  /\ rpc' = "done"
  /\ UNCHANGED <<policy, handle, fd, apc, rx_total_size, wire, hungup, connects, interrupted, alive>>

\* sysbus_disconnect in the callback: close, free and pthread_exit.
CallbackDisconnects ==
  /\ alive /\ rpc \in {"callback", "last"} /\ policy = "callback" /\ apc = "up"
  /\ fd' = "closed" /\ handle' = "freed" /\ apc' = "idle"
  /\ rpc' = "done"
  /\ UNCHANGED <<policy, rx_total_size, wire, hungup, connects, interrupted, alive>>
-----------------------------------------------------------------------------
(***************************************************************************)
(* The broker.                                                             *)
(***************************************************************************)
BrokerSends(n) ==
  /\ alive /\ handle = "live" /\ ~hungup /\ sent < MaxIn
  /\ fd = "open" \/ rpc = "blocked"
  /\ stream' = Append(stream, n)
  /\ unread' = unread + n /\ sent' = sent + 1
  /\ UNCHANGED <<policy, handle, fd, apc, rx, hungup, connects, interrupted, alive>>

BrokerCloses ==
  /\ alive /\ handle = "live" /\ ~hungup
  /\ hungup' = TRUE
  /\ UNCHANGED <<policy, handle, fd, apc, rx, wire, connects, interrupted, alive>>
-----------------------------------------------------------------------------
Receiver == \/ RxRead \/ RxData \/ RxEof \/ RxPacket \/ CallbackReturns
            \/ RxMore \/ LastReturns

Next == \/ sysbus_connect \/ NameSent \/ NameFails \/ sysbus_msg_send
        \/ sysbus_disconnect \/ Join
        \/ Receiver \/ RxInterrupted \/ CallbackDisconnects
        \/ \E n \in Sizes : BrokerSends(n)
        \/ BrokerCloses

Spec == Init /\ [][Next]_vars

\* The threads run; the broker, signals, and what the application wants, are
\* free.
Fairness == WF_vars(Receiver) /\ WF_vars(Join)
FairSpec == Spec /\ Fairness
-----------------------------------------------------------------------------
\* The receive thread never uses a handle that sysbus_disconnect has freed,
\* from whichever thread it was called: it has ended by then, or ends there.
NoUseAfterFree == rpc \notin {"none", "done"} => handle = "live"

\* Between reads the buffer holds less than a packet, headers without data
\* included: what has arrived was handed to pkt_proc_fn.  So rx_buff always has
\* room for the rest of a packet, a read of 0 bytes is never taken for the end,
\* and the receive loop ends only with the stream, when the descriptor was
\* closed, or when a signal interrupted the read.
NothingHeldBack ==
  /\ rpc \in {"read", "blocked"} => rx_total_size = 0 \/ rx_total_size < Pkt
  /\ rpc = "last" => hungup \/ fd = "closed" \/ interrupted

\* When the broker closes, the callback hears of it: the receive thread gets
\* to its last call, or was stopped by a disconnect.
EofIsReported == hungup ~> rpc \in {"last", "done"} \/ ~alive

\* sysbus_disconnect and a failing sysbus_connect return, except while the
\* receive thread sits in a read(2) it had entered before the close: as soon
\* as one packet, or the end of the stream, wakes it up, they do.
DisconnectReturns ==
  apc = "join" /\ ~(rpc = "blocked" /\ unread = 0 /\ ~hungup)
    ~> apc # "join"
=============================================================================
