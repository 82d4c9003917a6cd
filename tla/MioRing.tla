------------------------------ MODULE MioRing -------------------------------
(***************************************************************************)
(* The transmit ring of a handle in multiplex_io.c (mio_rb_t): writers put *)
(* whole packets into it under the handle's mutex, the epoll thread takes  *)
(* bytes out with write(2).  The thread snapshots both indices, drains     *)
(* without the lock and stores r_idx at the end, so writers work against   *)
(* an old r_idx meanwhile.  w_idx may rest at Size instead of 0, and so    *)
(* may r_idx.                                                              *)
(*                                                                         *)
(* A byte is modelled by its position in the stream of accepted bytes, so  *)
(* that losing, repeating, reordering or overwriting one shows.            *)
(***************************************************************************)
EXTENDS Integers

CONSTANTS Size,     \* sizeof(rb->data), MIO_RB_BUF_SIZE
          UIntMod,  \* 2^32 for the unsigned indices of the code
          MaxBytes  \* bound on the length of the stream

ASSUME RingAssumption ==
  /\ Size \in Nat /\ Size >= 2
  /\ UIntMod \in Nat /\ UIntMod > 2 * Size
  /\ MaxBytes \in Nat

VARIABLES r_idx, w_idx,  \* the indices shared by writers and the thread
          data,          \* the array
          accepted,      \* number of bytes ever put into the ring
          taken,         \* number of bytes handed to the socket (or reset)
          released,      \* value of taken when r_idx was last stored
          dpc, r, w,     \* the draining thread: where it is, its copies of the indices
          inOrder,       \* every byte handed to the socket was the next one
          intact         \* no write(2) has failed, no reset met a drain

shared == <<r_idx, w_idx, data, accepted>>
ringVars == <<r_idx, w_idx, data, accepted, taken, released, dpc, r, w,
              inOrder, intact>>

Slots == 0..(Size - 1)

\* Outside of the array the accesses of the code are undefined, and the model
\* ends.  This takes a failed write(2).
Defined == r_idx <= Size /\ w_idx <= Size

RingInit ==
  /\ r_idx = 0 /\ w_idx = 0
  /\ data = [i \in Slots |-> -1]
  /\ accepted = 0 /\ taken = 0 /\ released = 0
  /\ dpc = "idle" /\ r = 0 /\ w = 0
  /\ inOrder = TRUE /\ intact = TRUE
-----------------------------------------------------------------------------
(***************************************************************************)
(* multiplex_io_rb_write_data, called by multiplex_io_write with the       *)
(* handle's mutex held: all of the len bytes or none.                      *)
(***************************************************************************)
\* Mutant: no slot is kept free.
MUT_FreeSize == IF r_idx <= w_idx THEN Size - (w_idx - r_idx)
                              ELSE r_idx - w_idx - 1

FreeSize == IF r_idx <= w_idx THEN Size - 1 - (w_idx - r_idx)
                              ELSE r_idx - w_idx - 1

\* Bytes that fit in front of the end of the array or of the reader.
FreeAhead == IF r_idx <= w_idx THEN Size - w_idx ELSE FreeSize

\* The first copy starts at w_idx, the second (after the wrap) at slot 0.
Stored(len) ==
  LET ahead == IF FreeAhead >= len THEN len ELSE FreeAhead
  IN  [i \in Slots |->
         IF w_idx <= i /\ i < w_idx + ahead THEN accepted + (i - w_idx)
         ELSE IF i < len - ahead            THEN accepted + ahead + i
         ELSE data[i]]

rb_write_data(len) ==
  /\ Defined
  /\ accepted + len <= MaxBytes
  /\ FreeSize >= len
  /\ data' = Stored(len)
  /\ w_idx' = IF FreeAhead >= len THEN w_idx + len ELSE len - FreeAhead
  /\ accepted' = accepted + len
  /\ UNCHANGED <<r_idx, taken, released, dpc, r, w, inOrder, intact>>

\* multiplex_io_rb_get_data_size, the answer of MIO_CTL_OP_GET_WRITE_QUEUE_LEN.
rb_get_data_size == IF r_idx <= w_idx THEN w_idx - r_idx
                                      ELSE Size - r_idx + w_idx

\* MIO_CTL_OP_RESET_WRITE_QUEUE: multiplex_io_buf_list_free, without a lock.
reset_write_queue ==
  /\ Defined
  /\ r_idx' = w_idx
  /\ taken' = accepted
  /\ released' = accepted
  /\ intact' = (intact /\ dpc = "idle")
  /\ UNCHANGED <<w_idx, data, accepted, dpc, r, w, inOrder>>
-----------------------------------------------------------------------------
(***************************************************************************)
(* The EPOLLOUT branch of multiplex_io_thread.                             *)
(***************************************************************************)
Snapshot ==
  /\ Defined /\ dpc = "idle"
  /\ r' = r_idx /\ w' = w_idx
  /\ dpc' = IF r_idx # w_idx THEN "write" ELSE "idle"
  /\ UNCHANGED <<shared, taken, released, inOrder, intact>>

\* write(2) of n bytes from slot "from" takes between 1 and n of them.
SocketTakes(k, from, n) ==
  /\ IF n = 0 THEN k = 0 ELSE k >= 1 /\ k <= n
  /\ taken' = IF intact THEN taken + k ELSE taken
  /\ inOrder' = (inOrder /\ \A j \in 0..(k - 1) : data[from + j] = taken + j)
  /\ UNCHANGED intact

\* write(2) returns -1 (EAGAIN, EPIPE, EBADF), which the code adds to r_idx.
SocketFails(k) ==
  /\ k = -1
  /\ intact' = FALSE
  /\ UNCHANGED <<taken, inOrder>>

Written(k, from, n) == SocketTakes(k, from, n) \/ SocketFails(k)

\* unsigned addition of the return value
Advance(i, k) == (i + k) % UIntMod

WriteStraight ==
  /\ Defined /\ dpc = "write" /\ w > r
  /\ \E k \in -1..(w - r) :
       /\ Written(k, r, w - r)
       /\ r' = Advance(r, k)
  /\ dpc' = "store"
  /\ UNCHANGED <<shared, released, w>>

\* Mutant: the wrapped part follows a partial write, too.
MUT_WriteToEnd ==
  /\ Defined /\ dpc = "write" /\ w <= r
  /\ \E k \in -1..(Size - r) :
       /\ Written(k, r, Size - r)
       /\ r' = Advance(r, k) % Size
  /\ dpc' = "wrapped"
  /\ UNCHANGED <<shared, released, w>>

WriteToEnd ==
  /\ Defined /\ dpc = "write" /\ w <= r
  /\ \E k \in -1..(Size - r) :
       /\ Written(k, r, Size - r)
       /\ r' = Advance(r, k) % Size
  /\ dpc' = IF r' = 0 THEN "wrapped" ELSE "store"
  /\ UNCHANGED <<shared, released, w>>

WriteWrapped ==
  /\ Defined /\ dpc = "wrapped"
  /\ \E k \in -1..w :
       /\ Written(k, 0, w)
       /\ r' = Advance(0, k)
  /\ dpc' = "store"
  /\ UNCHANGED <<shared, released, w>>

Store ==
  /\ Defined /\ dpc = "store"
  /\ r_idx' = r
  /\ released' = taken
  /\ dpc' = "idle"
  /\ UNCHANGED <<w_idx, data, accepted, taken, r, w, inOrder, intact>>

Drain == Snapshot \/ WriteStraight \/ WriteToEnd \/ WriteWrapped \/ Store

RingNext == \/ \E len \in 1..Size : rb_write_data(len)
            \/ reset_write_queue
            \/ Drain

RingSpec == RingInit /\ [][RingNext]_ringVars
-----------------------------------------------------------------------------
TypeOK ==
  /\ r_idx \in Nat /\ w_idx \in Nat /\ r \in Nat /\ w \in Nat
  /\ data \in [Slots -> Int]
  /\ accepted \in Nat /\ taken \in Nat /\ released \in Nat
  /\ dpc \in {"idle", "write", "wrapped", "store"}
  /\ inOrder \in BOOLEAN /\ intact \in BOOLEAN

\* The slot j places after index i; i itself may be Size, an alias of slot 0.
Slot(i, j) == IF i + j >= Size THEN i + j - Size ELSE i + j

\* Queued bytes are where the reader will look for them, in stream order: a
\* writer never overwrites a byte the socket has not taken, not even one that
\* the thread is draining from an older snapshot.
QueuedIntact ==
  intact => \A j \in 0..(accepted - released - 1) :
              data[Slot(r_idx, j)] = released + j

\* The socket gets every accepted byte once and in order, across the wrap of
\* either index and while writers append.
StreamInOrder == intact => inOrder

\* The queue length reported through multiplex_io_handle_ctl is the number of
\* accepted bytes not yet released, and one slot always stays free, so that a
\* full ring is never mistaken for an empty one.
DataSizeExact ==
  intact => /\ rb_get_data_size = accepted - released
            /\ accepted - released <= Size - 1
-----------------------------------------------------------------------------
(***************************************************************************)
(* The inductive invariant behind the three properties.  d bytes have been *)
(* taken since r_idx was stored; the thread's r is d places after r_idx,   *)
(* and lies behind the wrap only if the shared w_idx does too.             *)
(***************************************************************************)
Indices ==
  /\ r_idx <= Size /\ w_idx <= Size
  /\ w_idx = 0 => r_idx = 0 /\ accepted = released
  /\ released <= taken /\ taken <= accepted

DrainInv ==
  LET d == taken - released IN
  /\ dpc = "idle" => d = 0
  /\ dpc = "write" =>
       /\ r = r_idx /\ d = 0 /\ w <= Size
       /\ w > r => w - r <= accepted - released
       /\ w <= r => w < r /\ w_idx < r_idx /\ Size - r + w <= accepted - released
  /\ dpc = "wrapped" =>
       /\ r = 0 /\ w_idx < r_idx
       /\ d = Size - r_idx /\ d + w <= accepted - released
  /\ dpc = "store" =>
       \/ r = r_idx + d /\ r <= Size
       \/ r = r_idx + d - Size /\ w_idx < r_idx

\* Everything that holds of the ring between any two steps of its users.
RingInv ==
  /\ TypeOK
  /\ intact => inOrder /\ Indices /\ DrainInv
  /\ DataSizeExact
  /\ QueuedIntact
=============================================================================
