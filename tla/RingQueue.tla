----------------------------- MODULE RingQueue ------------------------------
(***************************************************************************)
(* The queue of apps/vcar_sys_ringqueue/vcar_sys_ringqueue.c: a ring of    *)
(* item slots over one block of memory, one writing thread, and readers    *)
(* that each own a bit of the items' masks.  An item keeps its memory      *)
(* until every reader named in its mask has read it.                       *)
(*                                                                         *)
(* Addresses are offsets into the block; Null (below all of them) is the   *)
(* data pointer of a slot never used.  A memory cell holds the slot whose  *)
(* item was copied there last.  What happens under the write lock of an    *)
(* item or of the queue is one step.  valid and mask are also read and     *)
(* written under read locks only, so a reader's load of a mask and its     *)
(* store are separate steps.                                               *)
(***************************************************************************)
EXTENDS Integers, FiniteSets, FiniteSetsExt

CONSTANTS Loyal,    \* readers in initMask that only use ReadFromHead
          Guests,   \* readers that use any call and may set or clear their bit
          N,        \* queueSize
          MemSize,  \* memSize
          Lengths   \* the dataLen of writes

\* An item has data, and fits the block.  The code asks for neither: a write of
\* more than memSize never finds room, but releases every item that nobody claims
\* and then moves the head past the tail, away from readers that have not begun.
ASSUME RingQueueAssumption ==
  /\ Loyal \cap Guests = {}
  /\ N \in Nat /\ N > 1
  /\ MemSize \in Nat \ {0}
  /\ Lengths \subseteq 1..MemSize

Readers == Loyal \cup Guests
Slots == 0..(N - 1)
Cells == 0..(MemSize - 1)
Null == -1
None == -1     \* a ringIndex of 0

VARIABLES head, tail, wrPos, wrEnd, userMask,  \* VCAR_SYS_RingQueue
          data, len, mask, valid,              \* VCAR_SYS_RingQueueItemInfo
          cell,                                \* the memory
          wpc, wlen,                           \* the writer
          rpc, idx, item, loaded,              \* readers: place, *ringIndex, pItem, mask read
          passed,                              \* head has moved past tail
          revived                              \* a store of a mask has brought back a claim

queue  == <<head, tail, wrPos, wrEnd>>
items  == <<data, len, mask, valid>>
writer == <<wpc, wlen>>
reader == <<rpc, idx, item, loaded>>
ghost == <<passed, revived>>
vars == <<queue, userMask, items, cell, writer, reader, ghost>>

next(s) == (s + 1) % N
prev(s) == (s + N - 1) % N

\* VCAR_SYS_RingQueueCreat
Init ==
  /\ head = 0 /\ tail = 0 /\ wrPos = 0 /\ wrEnd = MemSize
  /\ userMask = Loyal
  /\ data = [s \in Slots |-> Null] /\ len = [s \in Slots |-> 0]
  /\ mask = [s \in Slots |-> {}] /\ valid = [s \in Slots |-> FALSE]
  /\ cell = [c \in Cells |-> None]
  /\ wpc = "idle" /\ wlen = 0
  /\ rpc = [r \in Readers |-> "idle"] /\ idx = [r \in Readers |-> None]
  /\ item = [r \in Readers |-> 0] /\ loaded = [r \in Readers |-> {}]
  /\ passed = FALSE /\ revived = FALSE
-----------------------------------------------------------------------------
(***************************************************************************)
(* The locks.  Only reads hold a lock across steps.                        *)
(***************************************************************************)
ItemLocked(s) == \E r \in Readers : rpc[r] \in {"locked", "copy"} /\ item[r] = s
QueueLocked == \E r \in Readers : rpc[r] = "found"
-----------------------------------------------------------------------------
(***************************************************************************)
(* VCAR_SYS_RingQueueWrite.                                                *)
(***************************************************************************)
Write(n) ==
  /\ wpc = "idle"
  /\ wpc' = "check" /\ wlen' = n
  /\ UNCHANGED <<queue, userMask, items, cell, reader, ghost>>

\* Mutant: the mask of the head is not looked at.
MUT_IfHeaderClean(onward) ==
  /\ ~ItemLocked(head)
  /\ wpc' = onward
  /\ UNCHANGED <<queue, wlen, userMask, items, cell, reader, ghost>>

\* isItemHeaderClean: on with the write if nobody claims the head, else FULL.
IfHeaderClean(onward) ==
  /\ ~ItemLocked(head)
  /\ wpc' = IF mask[head] = {} THEN onward ELSE "idle"
  /\ UNCHANGED <<queue, wlen, userMask, items, cell, reader, ghost>>

\* CHECK_MEM: the ring of slots.
CheckSlots ==
  /\ wpc = "check"
  /\ IF next(tail) = head
     THEN IfHeaderClean("moveFull")
     ELSE /\ wpc' = "fit"
          /\ UNCHANGED <<queue, wlen, userMask, items, cell, reader, ghost>>

\* The difference of an address and Null is not an amount of memory; the
\* model ends where the code would use it.
FreeMemSize == wrEnd - wrPos
Fits == FreeMemSize >= wlen

CheckFits ==
  /\ wpc = "fit" /\ wrEnd # Null /\ Fits
  /\ wpc' = "fill"
  /\ UNCHANGED <<queue, wlen, userMask, items, cell, reader, ghost>>

\* Behind the head, the rest of the block is free.
ExtendToEnd ==
  /\ wpc = "fit" /\ wrEnd # Null /\ ~Fits
  /\ wrPos > data[head] /\ wrEnd # MemSize
  /\ wrEnd' = MemSize
  /\ wpc' = "check"
  /\ UNCHANGED <<head, tail, wrPos, wlen, userMask, items, cell, reader, ghost>>

CheckWrap ==
  /\ wpc = "fit" /\ wrEnd # Null /\ ~Fits
  /\ wrPos > data[head] /\ wrEnd = MemSize
  /\ IfHeaderClean("moveWrap")

CheckAhead ==
  /\ wpc = "fit" /\ wrEnd # Null /\ ~Fits
  /\ wrPos <= data[head]
  /\ IfHeaderClean("moveAhead")

\* moveItemHeader, with the assignments to wrEnd and wrPos around it.
MoveHead ==
  /\ wpc \in {"moveFull", "moveWrap", "moveAhead"} /\ ~QueueLocked
  /\ valid' = [valid EXCEPT ![head] = FALSE]
  /\ head' = next(head)
  /\ wrEnd' = IF wpc = "moveFull" THEN wrEnd ELSE data[head] + len[head]
  /\ wrPos' = IF wpc = "moveWrap" THEN 0 ELSE wrPos
  /\ wpc' = IF wpc = "moveFull" THEN "fit" ELSE "check"
  /\ passed' = (passed \/ head = tail)
  /\ UNCHANGED <<tail, data, len, mask, wlen, userMask, cell, reader, revived>>

\* Mutant: the item keeps the mask of the one before it in the slot.
MUT_FillTail ==
  /\ wpc = "fill" /\ ~ItemLocked(tail)
  /\ data' = [data EXCEPT ![tail] = wrPos]
  /\ len' = [len EXCEPT ![tail] = wlen]
  /\ valid' = [valid EXCEPT ![tail] = TRUE]
  /\ cell' = [c \in Cells |-> IF c \in wrPos..(wrPos + wlen - 1) THEN tail ELSE cell[c]]
  /\ wpc' = "advance"
  /\ UNCHANGED <<queue, userMask, mask, wlen, reader, ghost>>

\* setItemTail under the lock of the item.
FillTail ==
  /\ wpc = "fill" /\ ~ItemLocked(tail)
  /\ data' = [data EXCEPT ![tail] = wrPos]
  /\ len' = [len EXCEPT ![tail] = wlen]
  /\ mask' = [mask EXCEPT ![tail] = userMask]
  /\ valid' = [valid EXCEPT ![tail] = TRUE]
  /\ cell' = [c \in Cells |-> IF c \in wrPos..(wrPos + wlen - 1) THEN tail ELSE cell[c]]
  /\ wpc' = "advance"
  /\ UNCHANGED <<queue, userMask, wlen, reader, ghost>>

\* setItemTail under the lock of the queue.
AdvanceTail ==
  /\ wpc = "advance" /\ ~QueueLocked
  /\ tail' = next(tail)
  /\ wrPos' = wrPos + wlen
  /\ wpc' = "idle" /\ wlen' = 0
  /\ UNCHANGED <<head, wrEnd, userMask, items, cell, reader, ghost>>
-----------------------------------------------------------------------------
(***************************************************************************)
(* _VCAR_SYS_RingQueueRead for the reader's own bit, from the given slot   *)
(* if the index is 0.  An unchanged state is VCAR_SYS_RQ_ERR_AGAIN.        *)
(***************************************************************************)
ReadPick(r, start) ==
  LET s == IF idx[r] = None THEN start ELSE idx[r] IN
  /\ rpc[r] = "idle"
  /\ s # tail
  /\ rpc' = [rpc EXCEPT ![r] = "locked"]
  /\ item' = [item EXCEPT ![r] = s]
  /\ UNCHANGED <<queue, userMask, items, cell, writer, idx, loaded, ghost>>

ReadFromHead(r) == ReadPick(r, head)
ReadFromTail(r) == ReadPick(r, prev(tail))

\* valid is tested, then mask is read.
ReadCheck(r) ==
  /\ rpc[r] = "locked"
  /\ IF valid[item[r]]
     THEN /\ rpc' = [rpc EXCEPT ![r] = "copy"]
          /\ loaded' = [loaded EXCEPT ![r] = mask[item[r]]]
     ELSE /\ rpc' = [rpc EXCEPT ![r] = "idle"]    \* VCAR_SYS_RQ_ERR_INVALID
          /\ UNCHANGED loaded
  /\ UNCHANGED <<queue, userMask, items, cell, writer, idx, item, ghost>>

\* The claim is given up, the data is copied, the index moves on; for a Find
\* this is the part after its loop.
Take(r) ==
  LET s == item[r] IN
  /\ rpc[r] \in {"copy", "found"}
  /\ mask' = IF r \in loaded[r] THEN [mask EXCEPT ![s] = loaded[r] \ {r}] ELSE mask
  /\ idx' = [idx EXCEPT ![r] = next(s)]
  /\ rpc' = [rpc EXCEPT ![r] = "idle"]
  /\ item' = [item EXCEPT ![r] = 0] /\ loaded' = [loaded EXCEPT ![r] = {}]
  /\ revived' = (revived \/ ~(mask'[s] \subseteq mask[s]))
  /\ UNCHANGED <<queue, userMask, data, len, valid, cell, writer, passed>>
-----------------------------------------------------------------------------
(***************************************************************************)
(* The calls that search, under the read lock of the queue.  The slots V   *)
(* are those whose header satisfies verify.                                *)
(***************************************************************************)
Found(r, s) ==
  /\ rpc' = [rpc EXCEPT ![r] = "found"]
  /\ item' = [item EXCEPT ![r] = s]
  /\ loaded' = [loaded EXCEPT ![r] = mask[s]]

\* VCAR_SYS_RingQueueFind: backwards, as far as items are valid.
Find(r, V) ==
  LET from == IF idx[r] = None THEN prev(tail) ELSE idx[r]
      back(k) == (from + N - k) % N
      Seen(k) == \A j \in 0..k : valid[back(j)] /\ back(j) # prev(head)
      hits == {k \in Slots : Seen(k) /\ back(k) \in V}
  IN  /\ rpc[r] = "idle" /\ hits # {}
      /\ Found(r, back(Min(hits)))
      /\ UNCHANGED <<queue, userMask, items, cell, writer, idx, ghost>>

Forward(r, k) == ((IF idx[r] = None THEN head ELSE idx[r]) + k) % N

\* Steps to the tail, which is in the ring.
ToTail(r) == CHOOSE k \in Slots : Forward(r, k) = tail

\* VCAR_SYS_RingQueueFindPost: forwards up to the tail; the index moves along.
FindPost(r, V) ==
  LET hits == {k \in 0..(ToTail(r) - 1) : Forward(r, k) \in V /\ valid[Forward(r, k)]} IN
  /\ rpc[r] = "idle"
  /\ IF hits # {}
     THEN /\ Found(r, Forward(r, Min(hits)))
          /\ UNCHANGED idx
     ELSE /\ ToTail(r) # 0
          /\ idx' = [idx EXCEPT ![r] = tail]
          /\ UNCHANGED <<rpc, item, loaded>>
  /\ UNCHANGED <<queue, userMask, items, cell, writer, ghost>>

\* VCAR_SYS_RingQueueGetNextValidIndex
GetNextValidIndex(r) ==
  LET hits == {k \in 0..(ToTail(r) - 1) : valid[Forward(r, k)]}
      stop == IF hits # {} THEN Min(hits) ELSE ToTail(r)
  IN  /\ rpc[r] = "idle" /\ stop # 0
      /\ idx' = [idx EXCEPT ![r] = Forward(r, stop)]
      /\ UNCHANGED <<queue, userMask, items, cell, writer, rpc, item, loaded, ghost>>

\* VCAR_SYS_RingQueueGetHeader and VCAR_SYS_RingQueueGetTail
GetIndex(r, s) ==
  /\ rpc[r] = "idle"
  /\ idx' = [idx EXCEPT ![r] = s]
  /\ UNCHANGED <<queue, userMask, items, cell, writer, rpc, item, loaded, ghost>>

\* VCAR_SYS_RingQueueSetMask and VCAR_SYS_RingQueueClearMask
ChangeMask(m) ==
  /\ ~QueueLocked
  /\ userMask' = m
  /\ UNCHANGED <<queue, items, cell, writer, reader, ghost>>
-----------------------------------------------------------------------------
WriterStep == \/ CheckSlots \/ CheckFits \/ ExtendToEnd \/ CheckWrap \/ CheckAhead
              \/ MoveHead \/ FillTail \/ AdvanceTail

ReaderStep(r) == ReadCheck(r) \/ Take(r)

LoyalCall(r) == ReadFromHead(r)

GuestCall(r) == \/ ReadFromHead(r) \/ ReadFromTail(r)
                \/ \E V \in SUBSET Slots : Find(r, V) \/ FindPost(r, V)
                \/ GetNextValidIndex(r) \/ GetIndex(r, head) \/ GetIndex(r, tail)
                \/ ChangeMask(userMask \cup {r}) \/ ChangeMask(userMask \ {r})

Next == \/ \E n \in Lengths : Write(n)
        \/ WriterStep
        \/ \E r \in Readers : ReaderStep(r)
        \/ \E r \in Loyal : LoyalCall(r)
        \/ \E r \in Guests : GuestCall(r)

Spec == Init /\ [][Next]_vars
-----------------------------------------------------------------------------
Intact(s) == \A c \in data[s]..(data[s] + len[s] - 1) : cell[c] = s

\* Items stay within the block of memory, and the memory of an item in the
\* queue is not reused: setItemTail only fills memory whose item moveItemHeader
\* has released.  This needs that the head has never passed the tail of an
\* empty queue, which it does when a write finds too little room up to the end
\* of a stale item; what it does with the data pointers of stale items later
\* can overwrite others.  Nor is the memory of an item reused while a reader is
\* about to copy it on the strength of its claim, in spite of the masks being
\* stored under a read lock, as long as no two readers of an item have
\* overlapped so that one brought back the claim that the other gave up.
ClaimedIntact ==
  /\ \A s \in Slots : data[s] + len[s] <= MemSize
  /\ ~passed => \A s \in Slots : valid[s] => Intact(s)
  /\ ~passed /\ ~revived =>
       \A r \in Readers : rpc[r] \in {"copy", "found"} /\ r \in loaded[r] => Intact(item[r])

Between(a, b) == {s \in Slots : (s - a + N) % N < (b - a + N) % N}

\* Where a reader that reads from the head goes on, and what it will find.
Start(r) == IF idx[r] = None THEN head ELSE idx[r]
Owed(r) == Between(Start(r), tail)

\* A loyal reader misses nothing: its index is never overtaken by the head,
\* and all items from its index to the tail are there and claimed for it,
\* whatever guests and the other readers do to the masks at the same time.
NothingMissed ==
  \A r \in Loyal :
    /\ Start(r) \in Between(head, tail) \cup {tail}
    /\ \A s \in Owed(r) : valid[s] /\ r \in mask[s]
=============================================================================
