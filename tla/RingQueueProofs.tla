-------------------------- MODULE RingQueueProofs ---------------------------
(***************************************************************************)
(* The ring queue, for any number of readers and slots and any size of     *)
(* memory: a loyal reader misses nothing, and the memory of an item is not *)
(* reused while the item is in the queue or is read by its right.          *)
(***************************************************************************)
EXTENDS RingQueue, TLAPS

\* Division by a positive number leaves a smaller remainder, and a number
\* that is smaller already is its own.
LEMMA Remainder ==
  ASSUME NEW m \in Nat, m > 0, NEW x \in Int
  PROVE  /\ x % m \in 0..(m - 1)
         /\ 0 <= x /\ x < m => x % m = x
         /\ m <= x /\ x < 2 * m => x % m = x - m
OBVIOUS

\* INCREASE_INDEX and DECREASE_INDEX stay in the ring.
LEMMA Neighbours ==
  ASSUME NEW s \in Slots
  PROVE  /\ s \in Int /\ 0 <= s /\ s < N
         /\ next(s) \in Slots /\ prev(s) \in Slots
         /\ next(s) = IF s = N - 1 THEN 0 ELSE s + 1
BY RingQueueAssumption, Remainder DEF next, prev, Slots

\* The distance between two slots.
LEMMA Distance ==
  ASSUME NEW a \in Slots, NEW b \in Slots
  PROVE  (b - a + N) % N = IF a <= b THEN b - a ELSE b - a + N
<1>1. /\ a \in Int /\ b \in Int /\ N \in Nat /\ N > 0 /\ b - a + N \in Int
      /\ 0 <= a /\ a < N /\ 0 <= b /\ b < N
  BY RingQueueAssumption DEF Slots
<1>2. /\ 0 <= b - a + N /\ b - a + N < N => (b - a + N) % N = b - a + N
      /\ N <= b - a + N /\ b - a + N < 2 * N => (b - a + N) % N = (b - a + N) - N
  BY <1>1, Remainder, Zenon
<1> QED BY <1>1, <1>2

\* Which slots lie between two others.
LEMMA InBetween ==
  ASSUME NEW a \in Slots, NEW b \in Slots
  PROVE  /\ Between(a, b) \subseteq Slots
         /\ \A s \in Slots :
              s \in Between(a, b) <=> (IF a <= b THEN a <= s /\ s < b
                                                 ELSE a <= s \/ s < b)
BY Distance, RingQueueAssumption DEF Between, Slots

\* What moving either end of an interval of the ring does to it.
LEMMA MoveTo ==
  ASSUME NEW a \in Slots, NEW t \in Slots, next(t) # a
  PROVE  Between(a, next(t)) = Between(a, t) \cup {t}
<1>1. next(t) \in Slots BY Neighbours, Zenon
<1>n. /\ a \in Int /\ 0 <= a /\ a < N /\ t \in Int /\ 0 <= t /\ t < N /\ N \in Int
      /\ next(t) = IF t = N - 1 THEN 0 ELSE t + 1
  BY Neighbours, RingQueueAssumption
<1>2. ASSUME NEW s \in Slots
      PROVE  s \in Between(a, next(t)) <=> s \in Between(a, t) \/ s = t
  <2>1. s \in Between(a, next(t)) <=> (IF a <= next(t) THEN a <= s /\ s < next(t)
                                                       ELSE a <= s \/ s < next(t))
    BY <1>1, InBetween, Zenon
  <2>2. s \in Between(a, t) <=> (IF a <= t THEN a <= s /\ s < t ELSE a <= s \/ s < t)
    BY InBetween, Zenon
  <2>3. s \in Int /\ 0 <= s /\ s < N BY Neighbours, Zenon
  <2> QED BY <1>n, <2>1, <2>2, <2>3
<1>3. Between(a, next(t)) \subseteq Slots /\ Between(a, t) \subseteq Slots
  BY <1>1, InBetween, Zenon
<1> QED BY <1>2, <1>3, Zenon

\* Moving head past the oldest slot takes that slot, and no other, out of the
\* range; a queue whose head has reached its tail is empty.
LEMMA MoveFrom ==
  ASSUME NEW a \in Slots, NEW t \in Slots
  PROVE  /\ a # t => Between(next(a), t) = Between(a, t) \ {a}
         /\ a \in Between(a, t) <=> a # t
         /\ t \notin Between(a, t)
         /\ Between(t, t) = {}
<1>1. next(a) \in Slots BY Neighbours, Zenon
<1>n. /\ a \in Int /\ 0 <= a /\ a < N /\ t \in Int /\ 0 <= t /\ t < N /\ N \in Int
      /\ next(a) = IF a = N - 1 THEN 0 ELSE a + 1
  BY Neighbours, RingQueueAssumption
<1>2. ASSUME NEW s \in Slots, a # t
      PROVE  s \in Between(next(a), t) <=> s \in Between(a, t) /\ s # a
  <2>1. s \in Between(next(a), t) <=> (IF next(a) <= t THEN next(a) <= s /\ s < t
                                                       ELSE next(a) <= s \/ s < t)
    BY <1>1, InBetween, Zenon
  <2>2. s \in Between(a, t) <=> (IF a <= t THEN a <= s /\ s < t ELSE a <= s \/ s < t)
    BY InBetween, Zenon
  <2>3. s \in Int /\ 0 <= s /\ s < N BY Neighbours, Zenon
  <2> QED BY <1>n, <1>2, <2>1, <2>2, <2>3
<1>3. Between(next(a), t) \subseteq Slots /\ Between(a, t) \subseteq Slots
  BY <1>1, InBetween, Zenon
<1>4. a \in Between(a, t) <=> a # t BY <1>n, InBetween
<1>5. t \notin Between(a, t) BY <1>n, InBetween
<1>6. Between(t, t) = {}
  <2>1. ASSUME NEW s \in Slots PROVE s \notin Between(t, t)
    <3>1. s \in Int BY Neighbours, Zenon
    <3> QED BY <1>n, <3>1, InBetween
  <2> QED BY <2>1, InBetween, Zenon
<1> QED BY <1>2, <1>3, <1>4, <1>5, <1>6, Zenon

\* A place between head and tail stays there when it moves forwards short of
\* the tail, when the tail moves without meeting the head, and when the head
\* moves off a slot that does not lie ahead of the place.
LEMMA Inside ==
  ASSUME NEW h \in Slots, NEW t \in Slots, NEW a \in Slots,
         a \in Between(h, t) \cup {t}
  PROVE  /\ a # t => next(a) \in Between(h, t) \cup {t}
         /\ next(t) # h => a # next(t) /\ a \in Between(h, next(t)) \cup {next(t)}
         /\ h \notin Between(a, t) => a \in Between(next(h), t) \cup {t}
         /\ Between(a, t) \subseteq Between(h, t)
<1>1. next(a) \in Slots /\ next(t) \in Slots /\ next(h) \in Slots BY Neighbours, Zenon
<1>2. a = t \/ (IF h <= t THEN h <= a /\ a < t ELSE h <= a \/ a < t)
  BY InBetween, Zenon
<1>3. ASSUME a # t PROVE next(a) \in Between(h, t) \cup {t}
  <2>1. next(a) \in Between(h, t) <=> (IF h <= t THEN h <= next(a) /\ next(a) < t
                                                 ELSE h <= next(a) \/ next(a) < t)
    BY <1>1, InBetween, Zenon
  <2>2. /\ a \in Int /\ 0 <= a /\ a < N /\ t \in Int /\ 0 <= t /\ t < N /\ N \in Int
        /\ h \in Int /\ 0 <= h /\ h < N /\ next(a) = IF a = N - 1 THEN 0 ELSE a + 1
    BY Neighbours, RingQueueAssumption
  <2> QED BY <1>2, <1>3, <2>1, <2>2
<1>4. ASSUME next(t) # h PROVE a # next(t) /\ a \in Between(h, next(t)) \cup {next(t)}
  <2>1. a \in Between(h, next(t))
    BY <1>4, MoveTo, Zenon
  <2> QED BY <2>1, <1>1, MoveFrom, Zenon
<1>5. ASSUME h \notin Between(a, t) PROVE a \in Between(next(h), t) \cup {t}
  <2>1. CASE a = t BY <2>1, Zenon
  <2>2. CASE a # t
    <3>1. h # a BY <1>5, <2>2, MoveFrom, Zenon
    <3>2. h # t BY <2>2, MoveFrom, Zenon
    <3> QED BY <2>2, <3>1, <3>2, MoveFrom
  <2> QED BY <2>1, <2>2, Zenon
<1>6. ASSUME NEW s \in Slots, s \in Between(a, t) PROVE s \in Between(h, t)
  <2>1. IF a <= t THEN a <= s /\ s < t ELSE a <= s \/ s < t
    BY <1>6, InBetween, Zenon
  <2>2. s \in Between(h, t) <=> (IF h <= t THEN h <= s /\ s < t ELSE h <= s \/ s < t)
    BY InBetween, Zenon
  <2>3. a # t BY <2>1, Neighbours
  <2> QED BY <1>2, <2>1, <2>2, <2>3, Neighbours
<1>7. Between(a, t) \subseteq Slots BY InBetween, Zenon
<1> QED BY <1>3, <1>4, <1>5, <1>6, <1>7, Zenon

\* What lies before a slot of an interval lies in the interval.
LEMMA Earlier ==
  ASSUME NEW h \in Slots, NEW e \in Slots, NEW t \in Between(h, e), NEW s \in Between(h, t)
  PROVE  s \in Slots /\ t \in Slots /\ s \in Between(h, e) /\ s # t
<1>1. t \in Slots BY InBetween, Zenon
<1>2. s \in Slots BY <1>1, InBetween, Zenon
<1>3. s \in Between(h, t) <=> (IF h <= t THEN h <= s /\ s < t ELSE h <= s \/ s < t)
  BY <1>1, <1>2, InBetween, Zenon
<1>4. /\ s \in Between(h, e) <=> (IF h <= e THEN h <= s /\ s < e ELSE h <= s \/ s < e)
      /\ t \in Between(h, e) <=> (IF h <= e THEN h <= t /\ t < e ELSE h <= t \/ t < e)
  BY <1>1, <1>2, InBetween, Zenon
<1>5. h \in Int /\ e \in Int /\ s \in Int /\ t \in Int BY <1>1, <1>2, Neighbours, Zenon
<1>6. s \in Between(h, e) BY <1>3, <1>4, <1>5
<1>7. s # t BY <1>1, MoveFrom
<1> QED BY <1>1, <1>2, <1>6, <1>7, Zenon
-----------------------------------------------------------------------------
(***************************************************************************)
(* The invariant.                                                          *)
(***************************************************************************)
TypeInv ==
  /\ head \in Slots /\ tail \in Slots /\ wlen \in Nat /\ userMask \in SUBSET Readers
  /\ mask \in [Slots -> SUBSET Readers] /\ valid \in [Slots -> BOOLEAN]
  /\ rpc \in [Readers -> {"idle", "locked", "copy", "found"}]
  /\ idx \in [Readers -> Slots \cup {None}]
  /\ item \in [Readers -> Slots] /\ loaded \in [Readers -> SUBSET Readers]

Moving == wpc \in {"moveFull", "moveWrap", "moveAhead"}

\* The item at the tail is filled, and about to be counted in.
Coming(s) == s = tail /\ wpc = "advance"

\* The writer has found or made a free slot, and only the items in the queue
\* are valid.
WriterInv ==
  /\ wpc # "idle" => wlen <= MemSize
  /\ wpc \in {"fit", "moveWrap", "moveAhead", "fill", "advance"} => next(tail) # head
  /\ wpc = "moveFull" => next(tail) = head
  /\ \A s \in Slots : valid[s] => s \in Between(head, tail) \/ Coming(s)

\* The head does not move off an item that is owed to a loyal reader.  One
\* that has never read has no index that would hold the head back in an empty
\* queue, but then nothing was ever written and all of the memory is free.
LoyalInv == \A r \in Loyal :
  /\ r \in userMask
  /\ rpc[r] # "found"
  /\ rpc[r] \in {"locked", "copy"} => item[r] = Start(r) /\ Start(r) # tail
  /\ Moving => head \notin Owed(r)
  /\ idx[r] = None /\ head = tail => wrPos = 0 /\ wrEnd = MemSize /\ ~Moving
  /\ wpc = "advance" => valid[tail] /\ r \in mask[tail]

\* A mask that was loaded and will be stored still names every loyal reader
\* the item is owed to.
LoadInv == \A q \in Readers :
  /\ rpc[q] = "found" => valid[item[q]]
  /\ rpc[q] \in {"copy", "found"} =>
       \A r \in Loyal : item[q] \in Owed(r) \/ Coming(item[q]) => r \in loaded[q]

ClaimInv == TypeInv /\ WriterInv /\ LoyalInv /\ LoadInv /\ NothingMissed
-----------------------------------------------------------------------------
\* The place a reader starts at is a slot, and what it is owed are slots.
LEMMA StartSlot ==
  ASSUME TypeInv, NEW r \in Readers
  PROVE  /\ Start(r) \in Slots /\ Owed(r) \subseteq Slots
         /\ Start(r) \in Owed(r) <=> Start(r) # tail
         /\ tail \notin Owed(r)
<1>1. Start(r) \in Slots BY Zenon DEF TypeInv, Start
<1> QED BY <1>1, InBetween, MoveFrom, Zenon DEF TypeInv, Owed

\* The queue starts empty, and nobody has read.
LEMMA ClaimInit == Init => ClaimInv
<1> SUFFICES ASSUME Init PROVE ClaimInv BY Zenon
<1> USE DEF Init
<1>1. 0 \in Slots BY RingQueueAssumption DEF Slots
<1>2. TypeInv BY <1>1, Zenon DEF TypeInv, Readers
<1>3. WriterInv BY Zenon DEF WriterInv
<1>4. \A r \in Readers : Start(r) = tail /\ Owed(r) = {}
  BY <1>1, MoveFrom, Zenon DEF Start, Owed
<1>5. LoyalInv BY <1>4, Zenon DEF LoyalInv, Moving, Readers
<1>6. LoadInv BY Zenon DEF LoadInv
<1>7. NothingMissed BY <1>4, Zenon DEF NothingMissed, Readers
<1> QED BY <1>2, <1>3, <1>5, <1>6, <1>7, Zenon DEF ClaimInv
-----------------------------------------------------------------------------
(***************************************************************************)
(* The writer.                                                             *)
(***************************************************************************)
\* What the checks of VCAR_SYS_RingQueueWrite leave alone, and what they have
\* found out when they send it on.
LEMMA CheckEffect ==
  ASSUME TypeInv, WriterInv,
         \/ \E n \in Lengths : Write(n)
         \/ CheckSlots \/ CheckFits \/ ExtendToEnd \/ CheckWrap \/ CheckAhead
  PROVE  /\ UNCHANGED <<head, tail, wrPos, userMask, items, reader>>
         /\ wrEnd' \in {wrEnd, MemSize}
         /\ wlen' \in Nat /\ wlen' <= MemSize
         /\ wpc # "advance" /\ wpc' # "advance"
         /\ wpc' \in {"fit", "moveWrap", "moveAhead", "fill"} => next(tail) # head
         /\ wpc' = "moveFull" => next(tail) = head
         /\ Moving' => mask[head] = {}
         /\ wpc' \in {"moveWrap", "moveAhead"} => ~Fits /\ wlen <= MemSize
<1> USE DEF items, reader, queue, Moving
<1>1. CASE \E n \in Lengths : Write(n)
  BY <1>1, RingQueueAssumption DEF Write
<1>2. CASE CheckSlots
  BY <1>2, Zenon DEF CheckSlots, IfHeaderClean, WriterInv, TypeInv
<1>3. CASE CheckFits
  BY <1>3, Zenon DEF CheckFits, WriterInv, TypeInv
<1>4. CASE ExtendToEnd
  BY <1>4, Zenon DEF ExtendToEnd, WriterInv, TypeInv
<1>5. CASE CheckWrap
  BY <1>5, Zenon DEF CheckWrap, IfHeaderClean, WriterInv, TypeInv
<1>6. CASE CheckAhead
  BY <1>6, Zenon DEF CheckAhead, IfHeaderClean, WriterInv, TypeInv
<1> QED BY <1>1, <1>2, <1>3, <1>4, <1>5, <1>6, Zenon

\* A check sends the writer on to move the head only if nobody claims the
\* item there, and then it is owed to no loyal reader.
LEMMA CheckStep ==
  ASSUME ClaimInv,
         \/ \E n \in Lengths : Write(n)
         \/ CheckSlots \/ CheckFits \/ ExtendToEnd \/ CheckWrap \/ CheckAhead
  PROVE  ClaimInv'
<1> USE DEF ClaimInv
<1>e. /\ UNCHANGED <<head, tail, wrPos, userMask, items, reader>>
      /\ wrEnd' \in {wrEnd, MemSize}
      /\ wlen' \in Nat /\ wlen' <= MemSize
      /\ wpc # "advance" /\ wpc' # "advance"
      /\ wpc' \in {"fit", "moveWrap", "moveAhead", "fill"} => next(tail) # head
      /\ wpc' = "moveFull" => next(tail) = head
      /\ Moving' => mask[head] = {}
      /\ wpc' \in {"moveWrap", "moveAhead"} => ~Fits /\ wlen <= MemSize
  BY CheckEffect, Zenon
<1>u. UNCHANGED <<head, tail, wrPos, userMask, mask, valid, rpc, idx, item, loaded>>
  BY <1>e, Zenon DEF items, reader
<1>s. /\ \A r \in Readers : Start(r)' = Start(r) /\ Owed(r)' = Owed(r)
      /\ Between(head, tail)' = Between(head, tail)
      /\ next(tail)' = next(tail)
      /\ \A s \in Slots : ~Coming(s) /\ ~Coming(s)'
  BY <1>e, <1>u, Zenon DEF Start, Owed, Between, Coming, next
<1>1. TypeInv' BY <1>e, <1>u, Zenon DEF TypeInv
<1>2. WriterInv' BY <1>e, <1>u, <1>s, Zenon DEF WriterInv
<1>3. LoyalInv'
  <2> SUFFICES ASSUME NEW r \in Loyal PROVE
        /\ Moving' => head \notin Owed(r)
        /\ idx[r] = None /\ head = tail => wrPos' = 0 /\ wrEnd' = MemSize /\ ~Moving'
    BY <1>e, <1>u, <1>s, Zenon DEF LoyalInv, Readers
  <2>1. Moving' => head \notin Owed(r)
    BY <1>e, Zenon DEF NothingMissed
  <2>2. ASSUME idx[r] = None, head = tail PROVE wrPos' = 0 /\ wrEnd' = MemSize /\ ~Moving'
    <3>1. wrPos = 0 /\ wrEnd = MemSize BY <2>2, Zenon DEF LoyalInv
    <3>2. next(tail) # head
      BY <2>2, Neighbours, RingQueueAssumption DEF TypeInv
    <3>3. wlen <= MemSize => Fits
      BY <3>1, RingQueueAssumption DEF Fits, FreeMemSize, TypeInv
    <3> QED BY <1>e, <1>u, <3>1, <3>2, <3>3, Zenon DEF Moving
  <2> QED BY <2>1, <2>2, Zenon
<1>4. LoadInv'
  BY <1>u, <1>s DEF LoadInv, Readers, TypeInv
<1>5. NothingMissed'
  BY <1>u, <1>s, Zenon DEF NothingMissed, Readers
<1> QED BY <1>1, <1>2, <1>3, <1>4, <1>5, Zenon

\* moveItemHeader releases a slot that is owed to no loyal reader, and no
\* reader that holds a found item lets it run.
LEMMA MoveStep ==
  ASSUME ClaimInv, MoveHead
  PROVE  ClaimInv'
<1> USE DEF ClaimInv
<1>u. /\ UNCHANGED <<tail, userMask, mask, rpc, idx, item, loaded, wlen>>
      /\ Moving /\ wpc # "idle" /\ wpc' \in {"fit", "check"} /\ head' = next(head)
      /\ wpc' = "fit" => wpc = "moveFull"
      /\ ~QueueLocked
  BY Zenon DEF MoveHead, reader, Moving
<1>v. valid' \in [Slots -> BOOLEAN] /\ \A s \in Slots : valid'[s] <=> valid[s] /\ s # head
  BY Zenon DEF MoveHead, TypeInv
<1>t. head \in Slots /\ tail \in Slots /\ next(head) \in Slots
  BY Neighbours, Zenon DEF TypeInv
<1>1. TypeInv' BY <1>u, <1>v, <1>t, Zenon DEF TypeInv
<1>c. \A s \in Slots : ~Coming(s) /\ ~Coming(s)'
  BY <1>u, Zenon DEF Coming, Moving
<1>b. Between(head, tail)' = Between(next(head), tail)
  BY <1>u, Zenon DEF Between
<1>2. WriterInv'
  <2>1. \A s \in Slots : valid'[s] => s \in Between(next(head), tail)
    BY <1>v, <1>c, <1>t, MoveFrom DEF WriterInv
  <2>2. wpc' = "fit" => next(tail) # next(head)
    <3>1. wpc' = "fit" => next(tail) = head /\ head # next(head)
      BY <1>u, <1>t, Neighbours, RingQueueAssumption DEF WriterInv
    <3> QED BY <3>1, Zenon
  <2>3. next(tail)' = next(tail) BY <1>u, Zenon DEF next
  <2> QED BY <1>u, <1>b, <2>1, <2>2, <2>3, Zenon DEF WriterInv
<1>s. \A r \in Loyal : /\ r \in Readers /\ idx[r] # None
                       /\ Start(r)' = Start(r) /\ Owed(r)' = Owed(r)
                       /\ head \notin Owed(r)
  <2> SUFFICES ASSUME NEW r \in Loyal PROVE
        /\ r \in Readers /\ idx[r] # None
        /\ Start(r)' = Start(r) /\ Owed(r)' = Owed(r)
        /\ head \notin Owed(r)
    BY Zenon
  <2>1. r \in Readers BY Zenon DEF Readers
  <2>2. head \notin Owed(r) BY <1>u, Zenon DEF LoyalInv
  <2>3. idx[r] # None
    BY <1>u, <2>1, <2>2, StartSlot, Zenon DEF LoyalInv, Start
  <2>4. Start(r)' = Start(r) BY <1>u, <2>3, Zenon DEF Start
  <2>5. Owed(r)' = Owed(r) BY <1>u, <2>4, Zenon DEF Owed, Between
  <2> QED BY <2>1, <2>2, <2>3, <2>4, <2>5, Zenon
<1>3. LoyalInv'
  BY <1>u, <1>s, Zenon DEF LoyalInv, Moving
<1>4. LoadInv'
  BY <1>u, <1>s, <1>c, <1>v DEF LoadInv, QueueLocked, TypeInv
<1>5. NothingMissed'
  <2> SUFFICES ASSUME NEW r \in Loyal
               PROVE  /\ Start(r) \in Between(next(head), tail) \cup {tail}
                      /\ \A s \in Owed(r) : valid'[s] /\ r \in mask'[s]
    BY <1>u, <1>b, <1>s, Zenon DEF NothingMissed
  <2>1. Start(r) \in Between(next(head), tail) \cup {tail}
    BY <1>s, <1>t, StartSlot, Inside, Zenon DEF NothingMissed, Owed
  <2>2. \A s \in Owed(r) : valid'[s] /\ r \in mask'[s]
    BY <1>u, <1>v, <1>s, StartSlot, Zenon DEF NothingMissed
  <2> QED BY <2>1, <2>2, Zenon
<1> QED BY <1>1, <1>2, <1>3, <1>4, <1>5, Zenon

\* setItemTail fills a slot that no reader has locked, so that no mask loaded
\* from the item before it can be stored into the new one.
LEMMA FillFree ==
  ASSUME ClaimInv, FillTail
  PROVE  \A q \in Readers : rpc[q] \in {"copy", "found"} => item[q] # tail
<1>1. \A q \in Readers : rpc[q] = "copy" => item[q] # tail
  BY Zenon DEF FillTail, ItemLocked
<1>2. ~valid[tail]
  BY MoveFrom, Zenon DEF FillTail, Coming, ClaimInv, WriterInv, TypeInv
<1> QED BY <1>1, <1>2, Zenon DEF ClaimInv, LoadInv

\* The item at the tail then carries the claims of all readers of the queue.
LEMMA FillStep ==
  ASSUME ClaimInv, FillTail
  PROVE  ClaimInv'
<1> USE DEF ClaimInv
<1>u. /\ UNCHANGED <<head, tail, wrPos, wrEnd, userMask, rpc, idx, item, loaded, wlen>>
      /\ wpc = "fill" /\ wpc' = "advance" /\ ~ItemLocked(tail)
  BY Zenon DEF FillTail, reader, queue
<1>v. valid' \in [Slots -> BOOLEAN] /\ \A s \in Slots : valid'[s] <=> valid[s] \/ s = tail
  BY Zenon DEF FillTail, TypeInv
<1>m. mask' = [mask EXCEPT ![tail] = userMask]
  BY Zenon DEF FillTail
<1>1. TypeInv' BY <1>u, <1>v, <1>m, Zenon DEF TypeInv
<1>s. /\ \A r \in Readers : Start(r)' = Start(r) /\ Owed(r)' = Owed(r)
      /\ Between(head, tail)' = Between(head, tail)
      /\ next(tail)' = next(tail)
      /\ \A s \in Slots : ~Coming(s) /\ (Coming(s)' <=> s = tail)
  BY <1>u, Zenon DEF Start, Owed, Between, Coming, next
<1>2. WriterInv' BY <1>u, <1>v, <1>s, Zenon DEF WriterInv
<1>3. LoyalInv'
  BY <1>u, <1>v, <1>m, <1>s DEF LoyalInv, Moving, TypeInv, Readers
<1>4. LoadInv'
  BY <1>u, <1>v, <1>s, FillFree DEF LoadInv, TypeInv, Readers
<1>5. NothingMissed'
  BY <1>u, <1>v, <1>m, <1>s, StartSlot DEF NothingMissed, Readers, TypeInv
<1> QED BY <1>1, <1>2, <1>3, <1>4, <1>5, Zenon

\* The new item is owed to every loyal reader once the tail has moved, which
\* does not bring the tail to the head or to the place of a loyal reader.
LEMMA AdvanceStep ==
  ASSUME ClaimInv, AdvanceTail
  PROVE  ClaimInv'
<1> USE DEF ClaimInv
<1>u. /\ UNCHANGED <<head, wrEnd, userMask, mask, valid, rpc, idx, item, loaded>>
      /\ wpc = "advance" /\ wpc' = "idle" /\ tail' = next(tail) /\ wlen' = 0
      /\ ~QueueLocked
  BY Zenon DEF AdvanceTail, reader, items
<1>t. /\ head \in Slots /\ tail \in Slots /\ next(tail) \in Slots /\ next(tail) # head
  BY <1>u, Neighbours, Zenon DEF TypeInv, WriterInv
<1>1. TypeInv' BY <1>u, <1>t, Zenon DEF TypeInv
<1>b. Between(head, tail)' = Between(head, tail) \cup {tail}
  <2>1. Between(head, tail)' = Between(head, next(tail)) BY <1>u, Zenon DEF Between
  <2> QED BY <2>1, <1>t, MoveTo, Zenon
<1>c. \A s \in Slots : ~Coming(s)' /\ (Coming(s) <=> s = tail)
  BY <1>u, Zenon DEF Coming
<1>2. WriterInv' BY <1>u, <1>t, <1>b, <1>c, Zenon DEF WriterInv
<1>s. \A r \in Loyal : /\ r \in Readers /\ Start(r)' = Start(r)
                       /\ Start(r) # next(tail)
                       /\ Start(r) \in Between(head, next(tail)) \cup {next(tail)}
                       /\ Owed(r)' = Owed(r) \cup {tail}
  <2> SUFFICES ASSUME NEW r \in Loyal PROVE
        /\ r \in Readers /\ Start(r)' = Start(r)
        /\ Start(r) # next(tail)
        /\ Start(r) \in Between(head, next(tail)) \cup {next(tail)}
        /\ Owed(r)' = Owed(r) \cup {tail}
    BY Zenon
  <2>1. r \in Readers /\ Start(r) \in Slots BY StartSlot, Zenon DEF Readers
  <2>2. Start(r)' = Start(r) BY <1>u, Zenon DEF Start
  <2>3. /\ Start(r) # next(tail)
        /\ Start(r) \in Between(head, next(tail)) \cup {next(tail)}
    BY <1>t, <2>1, Inside, Zenon DEF NothingMissed
  <2>4. Owed(r)' = Between(Start(r), next(tail)) BY <1>u, <2>2, Zenon DEF Owed, Between
  <2>5. Owed(r)' = Owed(r) \cup {tail} BY <1>t, <2>1, <2>3, <2>4, MoveTo, Zenon DEF Owed
  <2> QED BY <2>1, <2>2, <2>3, <2>5, Zenon
<1>3. LoyalInv'
  BY <1>u, <1>t, <1>s, Zenon DEF LoyalInv, Moving
<1>4. LoadInv'
  BY <1>u, <1>s, <1>c DEF LoadInv, TypeInv
<1>5. NothingMissed'
  <2>1. Between(head, tail)' = Between(head, next(tail)) BY <1>u, Zenon DEF Between
  <2> QED BY <1>u, <1>s, <2>1 DEF NothingMissed, LoyalInv
<1> QED BY <1>1, <1>2, <1>3, <1>4, <1>5, Zenon
-----------------------------------------------------------------------------
(***************************************************************************)
(* The readers.                                                            *)
(***************************************************************************)
\* Steps of a reader that leave the queue, the items and the indices alone
\* leave what is owed alone.
LEMMA SameQueue ==
  ASSUME UNCHANGED <<queue, valid, writer, userMask>>
  PROVE  /\ UNCHANGED <<head, tail, wrPos, wrEnd, wpc, wlen>>
         /\ Between(head, tail)' = Between(head, tail)
         /\ next(tail)' = next(tail)
         /\ \A s : Coming(s)' <=> Coming(s)
         /\ WriterInv => WriterInv'
         /\ Moving' <=> Moving
         /\ \A r : idx'[r] = idx[r] => Start(r)' = Start(r) /\ Owed(r)' = Owed(r)
<1>1. UNCHANGED <<head, tail, wrPos, wrEnd, wpc, wlen, valid>> BY Zenon DEF queue, writer
<1>2. /\ Between(head, tail)' = Between(head, tail)
      /\ next(tail)' = next(tail)
      /\ \A s : Coming(s)' <=> Coming(s)
      /\ Moving' <=> Moving
  BY <1>1, Zenon DEF Between, next, Coming, Moving
<1>3. WriterInv => WriterInv' BY <1>1, <1>2, Zenon DEF WriterInv
<1>4. \A r : idx'[r] = idx[r] => Start(r)' = Start(r) /\ Owed(r)' = Owed(r)
  BY <1>1, Zenon DEF Start, Owed, Between
<1> QED BY <1>1, <1>2, <1>3, <1>4, Zenon

\* A read picks the slot of its index, or one that is not the tail.
LEMMA PickStep ==
  ASSUME ClaimInv, NEW q \in Readers, NEW start \in Slots, ReadPick(q, start),
         q \in Loyal => start = head
  PROVE  ClaimInv'
<1> USE DEF ClaimInv
<1>e. PICK s \in Slots : /\ s # tail
                         /\ rpc' = [rpc EXCEPT ![q] = "locked"]
                         /\ item' = [item EXCEPT ![q] = s]
                         /\ q \in Loyal => s = Start(q)
  BY Zenon DEF ReadPick, Start, TypeInv
<1>u. UNCHANGED <<queue, userMask, mask, valid, writer, idx, loaded>>
  BY Zenon DEF ReadPick, items
<1>s. /\ UNCHANGED <<head, tail, wrPos, wrEnd, wpc, wlen>>
      /\ Between(head, tail)' = Between(head, tail)
      /\ \A x : Coming(x)' <=> Coming(x)
      /\ Moving' <=> Moving
      /\ \A r : Start(r)' = Start(r) /\ Owed(r)' = Owed(r)
  BY <1>u, SameQueue, Zenon
<1>1. TypeInv' BY <1>e, <1>u, <1>s, Zenon DEF TypeInv
<1>2. WriterInv' BY <1>u, SameQueue, Zenon
<1>3. LoyalInv' BY <1>e, <1>u, <1>s, Zenon DEF LoyalInv, TypeInv, Readers
<1>4. LoadInv' BY <1>e, <1>u, <1>s, Zenon DEF LoadInv, TypeInv
<1>5. NothingMissed' BY <1>u, <1>s, Zenon DEF NothingMissed
<1> QED BY <1>1, <1>2, <1>3, <1>4, <1>5, Zenon

\* A loyal reader finds the item at its place, with its claim.
LEMMA ReadCheckStep ==
  ASSUME ClaimInv, NEW q \in Readers, ReadCheck(q)
  PROVE  ClaimInv'
<1> USE DEF ClaimInv
<1>e. /\ rpc[q] = "locked"
      /\ \/ /\ rpc' = [rpc EXCEPT ![q] = "copy"]
            /\ loaded' = [loaded EXCEPT ![q] = mask[item[q]]]
         \/ rpc' = [rpc EXCEPT ![q] = "idle"] /\ loaded' = loaded
  BY Zenon DEF ReadCheck
<1>u. UNCHANGED <<queue, userMask, mask, valid, writer, idx, item>>
  BY Zenon DEF ReadCheck, items
<1>s. /\ UNCHANGED <<head, tail, wrPos, wrEnd, wpc, wlen>>
      /\ Between(head, tail)' = Between(head, tail)
      /\ \A x : Coming(x)' <=> Coming(x)
      /\ Moving' <=> Moving
      /\ \A r : Start(r)' = Start(r) /\ Owed(r)' = Owed(r)
  BY <1>u, SameQueue, Zenon
<1>1. TypeInv' BY <1>e, <1>u, <1>s DEF TypeInv
<1>2. WriterInv' BY <1>u, SameQueue, Zenon
<1>3. LoyalInv' BY <1>e, <1>u, <1>s, Zenon DEF LoyalInv, TypeInv, Readers
<1>4. LoadInv'
  <2>1. \A r \in Loyal : item[q] \in Owed(r) \/ Coming(item[q]) => r \in mask[item[q]]
    BY Zenon DEF NothingMissed, LoyalInv, Coming
  <2> QED BY <1>e, <1>u, <1>s, <2>1 DEF LoadInv, TypeInv
<1>5. NothingMissed' BY <1>u, <1>s, Zenon DEF NothingMissed
<1> QED BY <1>1, <1>2, <1>3, <1>4, <1>5, Zenon

\* The store of a mask takes no claim of a loyal reader but the reader's own,
\* and its index moves past the item it gives up.
LEMMA TakeStep ==
  ASSUME ClaimInv, NEW q \in Readers, Take(q)
  PROVE  ClaimInv'
<1> USE DEF ClaimInv
<1>e. /\ rpc[q] \in {"copy", "found"}
      /\ rpc' = [rpc EXCEPT ![q] = "idle"]
      /\ idx' = [idx EXCEPT ![q] = next(item[q])]
      /\ item' = [item EXCEPT ![q] = 0] /\ loaded' = [loaded EXCEPT ![q] = {}]
      /\ mask' \in {mask, [mask EXCEPT ![item[q]] = loaded[q] \ {q}]}
  BY Zenon DEF Take
<1>u. UNCHANGED <<queue, userMask, valid, writer>>
  BY Zenon DEF Take
<1>t. /\ 0 \in Slots /\ item[q] \in Slots /\ next(item[q]) \in Slots
      /\ head \in Slots /\ tail \in Slots
  BY Neighbours, RingQueueAssumption DEF TypeInv, Slots
<1>s. /\ UNCHANGED <<head, tail, wrPos, wrEnd, wpc, wlen>>
      /\ Between(head, tail)' = Between(head, tail)
      /\ \A x : Coming(x)' <=> Coming(x)
      /\ Moving' <=> Moving
      /\ \A r : idx'[r] = idx[r] => Start(r)' = Start(r) /\ Owed(r)' = Owed(r)
  BY <1>u, SameQueue, Zenon
<1>1. TypeInv' BY <1>e, <1>u, <1>s, <1>t DEF TypeInv
<1>2. WriterInv' BY <1>u, SameQueue, Zenon
<1>l. ASSUME q \in Loyal
      PROVE  /\ item[q] = Start(q) /\ item[q] # tail /\ idx'[q] # None
             /\ Start(q)' = next(Start(q))
             /\ Owed(q)' = Owed(q) \ {item[q]}
             /\ Start(q)' \in Between(head, tail) \cup {tail}
  <2>1. item[q] = Start(q) /\ item[q] # tail
    BY <1>e, <1>l, Zenon DEF LoyalInv
  <2>2. idx'[q] = next(item[q]) /\ next(item[q]) # None
    BY <1>e, <1>t, RingQueueAssumption DEF TypeInv, None, Slots
  <2>3. Start(q)' = next(Start(q)) BY <2>1, <2>2, Zenon DEF Start
  <2>4. Owed(q)' = Between(next(Start(q)), tail) BY <1>s, <2>3, Zenon DEF Owed, Between
  <2>5. Owed(q)' = Owed(q) \ {item[q]} BY <1>t, <2>1, <2>4, MoveFrom, Zenon DEF Owed
  <2>6. Start(q)' \in Between(head, tail) \cup {tail}
    BY <1>l, <1>t, <2>1, <2>3, Inside DEF NothingMissed
  <2> QED BY <2>1, <2>2, <2>3, <2>5, <2>6, Zenon
<1>o. \A r \in Loyal : r # q => Start(r)' = Start(r) /\ Owed(r)' = Owed(r) /\ idx'[r] = idx[r]
  BY <1>e, <1>s, Zenon DEF TypeInv, Readers
<1>p. \A r \in Loyal : Owed(r)' \subseteq Owed(r) /\ (r = q => item[q] \notin Owed(r)')
  BY <1>l, <1>o, Zenon
<1>m. ASSUME NEW r \in Loyal, NEW s \in Slots, s \in Owed(r)' \/ Coming(s), r \in mask[s]
      PROVE  r \in mask'[s]
  <2>1. CASE s # item[q] BY <1>e, <1>t, <1>m, <2>1, Zenon DEF TypeInv
  <2>2. CASE s = item[q]
    <3>1. r \in loaded[q] BY <1>e, <1>m, <1>p, <2>2, Zenon DEF LoadInv
    <3>2. r # q BY <1>l, <1>m, <1>p, <2>2, Zenon DEF Coming
    <3> QED BY <1>e, <1>t, <1>m, <2>2, <3>1, <3>2 DEF TypeInv
  <2> QED BY <2>1, <2>2, Zenon
<1>3. LoyalInv'
  <2> SUFFICES ASSUME NEW r \in Loyal
               PROVE  /\ r \in userMask'
                      /\ rpc'[r] # "found"
                      /\ rpc'[r] \in {"locked", "copy"} => item'[r] = Start(r)' /\ Start(r)' # tail'
                      /\ Moving' => head' \notin Owed(r)'
                      /\ idx'[r] = None /\ head' = tail' => wrPos' = 0 /\ wrEnd' = MemSize /\ ~Moving'
                      /\ wpc' = "advance" => valid'[tail'] /\ r \in mask'[tail']
    BY Zenon DEF LoyalInv
  <2>1. r \in userMask' /\ (Moving' => head' \notin Owed(r)')
    BY <1>u, <1>s, <1>p, Zenon DEF LoyalInv
  <2>2. wpc' = "advance" => valid'[tail'] /\ r \in mask'[tail']
    BY <1>u, <1>s, <1>t, <1>m, Zenon DEF LoyalInv, Coming
  <2>3. CASE r = q
    BY <1>e, <1>l, <2>1, <2>2, <2>3, Zenon DEF TypeInv
  <2>4. CASE r # q
    <3>1. rpc'[r] = rpc[r] /\ item'[r] = item[r] BY <1>e, <2>4, Zenon DEF TypeInv, Readers
    <3> QED BY <1>s, <1>o, <2>1, <2>2, <2>4, <3>1, Zenon DEF LoyalInv
  <2> QED BY <2>3, <2>4, Zenon
<1>4. LoadInv'
  BY <1>e, <1>u, <1>s, <1>p DEF LoadInv, TypeInv
<1>5. NothingMissed'
  <2> SUFFICES ASSUME NEW r \in Loyal
               PROVE  /\ Start(r)' \in Between(head, tail) \cup {tail}
                      /\ \A s \in Owed(r)' : valid'[s] /\ r \in mask'[s]
    BY <1>s, Zenon DEF NothingMissed
  <2>1. Start(r)' \in Between(head, tail) \cup {tail}
    BY <1>l, <1>o, Zenon DEF NothingMissed
  <2>2. Owed(r)' \subseteq Slots BY <1>p, StartSlot, Zenon DEF Readers
  <2> QED BY <1>u, <1>m, <1>p, <2>1, <2>2, Zenon DEF NothingMissed
<1> QED BY <1>1, <1>2, <1>3, <1>4, <1>5, Zenon

\* A search that succeeds holds a valid item; a loyal reader does not search.
LEMMA FoundStep ==
  ASSUME ClaimInv, NEW q \in Guests, NEW s \in Slots, valid[s], Found(q, s),
         UNCHANGED <<queue, userMask, items, cell, writer, idx, ghost>>
  PROVE  ClaimInv'
<1> USE DEF ClaimInv
<1>e. /\ q \in Readers /\ q \notin Loyal
      /\ rpc' = [rpc EXCEPT ![q] = "found"]
      /\ item' = [item EXCEPT ![q] = s]
      /\ loaded' = [loaded EXCEPT ![q] = mask[s]]
  BY RingQueueAssumption, Zenon DEF Found, Readers
<1>u. UNCHANGED <<queue, userMask, mask, valid, writer, idx>>
  BY Zenon DEF items
<1>s. /\ UNCHANGED <<head, tail, wrPos, wrEnd, wpc, wlen>>
      /\ Between(head, tail)' = Between(head, tail)
      /\ \A x : Coming(x)' <=> Coming(x)
      /\ Moving' <=> Moving
      /\ \A r : Start(r)' = Start(r) /\ Owed(r)' = Owed(r)
  BY <1>u, SameQueue, Zenon
<1>1. TypeInv' BY <1>e, <1>u, <1>s, Zenon DEF TypeInv
<1>2. WriterInv' BY <1>u, SameQueue, Zenon
<1>3. LoyalInv' BY <1>e, <1>u, <1>s, Zenon DEF LoyalInv, TypeInv, Readers
<1>4. LoadInv'
  <2>1. \A r \in Loyal : s \in Owed(r) \/ Coming(s) => r \in mask[s]
    BY Zenon DEF NothingMissed, LoyalInv, Coming
  <2> QED BY <1>e, <1>u, <1>s, <2>1 DEF LoadInv, TypeInv
<1>5. NothingMissed' BY <1>u, <1>s, Zenon DEF NothingMissed
<1> QED BY <1>1, <1>2, <1>3, <1>4, <1>5, Zenon

\* The index of a guest, and the claims of guests on later items, are no
\* concern of a loyal reader.
LEMMA IndexStep ==
  ASSUME ClaimInv, NEW q \in Guests, NEW s \in Slots, GetIndex(q, s)
  PROVE  ClaimInv'
<1> USE DEF ClaimInv
<1>e. q \in Readers /\ q \notin Loyal /\ idx' = [idx EXCEPT ![q] = s]
  BY RingQueueAssumption, Zenon DEF GetIndex, Readers
<1>u. UNCHANGED <<queue, userMask, mask, valid, writer, rpc, item, loaded>>
  BY Zenon DEF GetIndex, items
<1>s. /\ UNCHANGED <<head, tail, wrPos, wrEnd, wpc, wlen>>
      /\ Between(head, tail)' = Between(head, tail)
      /\ \A x : Coming(x)' <=> Coming(x)
      /\ Moving' <=> Moving
      /\ \A r : idx'[r] = idx[r] => Start(r)' = Start(r) /\ Owed(r)' = Owed(r)
  BY <1>u, SameQueue, Zenon
<1>l. \A r \in Loyal : idx'[r] = idx[r] /\ Start(r)' = Start(r) /\ Owed(r)' = Owed(r)
  BY <1>e, <1>s, Zenon DEF TypeInv, Readers
<1>1. TypeInv' BY <1>e, <1>u, <1>s, Zenon DEF TypeInv
<1>2. WriterInv' BY <1>u, SameQueue, Zenon
<1>3. LoyalInv' BY <1>u, <1>s, <1>l, Zenon DEF LoyalInv
<1>4. LoadInv' BY <1>u, <1>s, <1>l, Zenon DEF LoadInv
<1>5. NothingMissed' BY <1>u, <1>s, <1>l, Zenon DEF NothingMissed
<1> QED BY <1>1, <1>2, <1>3, <1>4, <1>5, Zenon

\* Enabling a user, or disabling a guest, touches no item that is already queued.
LEMMA MaskStep ==
  ASSUME ClaimInv, NEW m \in SUBSET Readers, Loyal \cap userMask \subseteq m, ChangeMask(m)
  PROVE  ClaimInv'
<1> USE DEF ClaimInv
<1>u. /\ UNCHANGED <<head, tail, wrPos, wrEnd, mask, valid, wpc, wlen, rpc, idx, item, loaded>>
      /\ userMask' = m
  BY Zenon DEF ChangeMask, queue, items, writer, reader
<1>s. /\ Between(head, tail)' = Between(head, tail) /\ next(tail)' = next(tail)
      /\ \A x : Coming(x)' <=> Coming(x)
      /\ Moving' <=> Moving
      /\ \A r : Start(r)' = Start(r) /\ Owed(r)' = Owed(r)
  BY <1>u, Zenon DEF Between, next, Coming, Moving, Start, Owed
<1>1. TypeInv' BY <1>u, Zenon DEF TypeInv
<1>2. WriterInv' BY <1>u, <1>s, Zenon DEF WriterInv
<1>3. LoyalInv' BY <1>u, <1>s, Zenon DEF LoyalInv
<1>4. LoadInv' BY <1>u, <1>s, Zenon DEF LoadInv
<1>5. NothingMissed' BY <1>u, <1>s, Zenon DEF NothingMissed
<1> QED BY <1>1, <1>2, <1>3, <1>4, <1>5, Zenon

INSTANCE WellFoundedInduction

\* A set of natural numbers that is not empty has a least member, which Min
\* returns.
LEMMA LeastSlot ==
  ASSUME NEW S \in SUBSET Nat, S # {}
  PROVE  Min(S) \in S
<1> DEFINE R == OpToRel(<, Nat)
<1>1. IsWellFoundedOn(R, Nat)
  BY NatLessThanWellFounded, Zenon
<1> HIDE DEF R
<1>2. PICK n \in S : \A m \in S : ~(<<m, n>> \in R)
  BY <1>1, WFMin, Zenon
<1>3. ASSUME NEW m \in S PROVE n <= m
  <2>1. m < n => <<m, n>> \in R BY Zenon DEF R, OpToRel
  <2> QED BY <1>2, <2>1
<1> QED BY <1>3, Zenon DEF Min

\* The loops of the searches end at a slot of the ring; Find and FindPost
\* return the first valid one they look for.
LEMMA FindEffect ==
  ASSUME TypeInv, NEW q \in Guests, NEW V \in SUBSET Slots, Find(q, V)
  PROVE  \E s \in Slots : /\ valid[s] /\ Found(q, s)
                          /\ UNCHANGED <<queue, userMask, items, cell, writer, idx, ghost>>
<1> DEFINE from == IF idx[q] = None THEN prev(tail) ELSE idx[q]
           back(k) == (from + N - k) % N
           Seen(k) == \A j \in 0..k : valid[back(j)] /\ back(j) # prev(head)
           hits == {k \in Slots : Seen(k) /\ back(k) \in V}
<1>1. /\ hits # {} /\ Found(q, back(Min(hits)))
      /\ UNCHANGED <<queue, userMask, items, cell, writer, idx, ghost>>
  BY Zenon DEF Find
<1>2. Min(hits) \in hits
  <2>1. hits \in SUBSET Nat BY RingQueueAssumption DEF Slots
  <2> HIDE DEF hits
  <2> QED BY <1>1, <2>1, LeastSlot, Zenon
<1>3. Min(hits) \in 0..Min(hits) /\ Seen(Min(hits)) /\ back(Min(hits)) \in V
  <2>1. Min(hits) \in Slots /\ Seen(Min(hits)) /\ back(Min(hits)) \in V BY <1>2, Zenon
  <2>2. \A n \in Slots : n \in 0..n BY RingQueueAssumption DEF Slots
  <2> QED BY <2>1, <2>2, Zenon
<1>4. valid[back(Min(hits))] /\ back(Min(hits)) \in Slots
  BY <1>3, Zenon
<1> QED BY <1>1, <1>4, Zenon

\* Counting forward from the index of a guest stays in the ring, and reaches
\* tail after ToTail steps.
LEMMA ForwardEffect ==
  ASSUME TypeInv, NEW q \in Guests
  PROVE  /\ \A k \in Int : Forward(q, k) \in Slots
         /\ ToTail(q) \in Slots /\ Forward(q, ToTail(q)) = tail
<1> DEFINE a == IF idx[q] = None THEN head ELSE idx[q]
           d == (tail - a + N) % N
<1>1. a \in Slots /\ tail \in Slots BY Zenon DEF TypeInv, Readers
<1>2. /\ a \in Int /\ 0 <= a /\ a < N /\ tail \in Int /\ 0 <= tail /\ tail < N
      /\ N \in Nat /\ N > 0
  BY <1>1, RingQueueAssumption DEF Slots
<1>3. \A k \in Int : (a + k) % N \in Slots
  <2> TAKE k \in Int
  <2>1. a + k \in Int BY <1>2
  <2> QED BY <1>2, <2>1, Remainder, Zenon DEF Slots
<1>4. d = IF a <= tail THEN tail - a ELSE tail - a + N
  BY <1>1, Distance, Zenon
<1>5. \A k : Forward(q, k) = (a + k) % N BY Zenon DEF Forward
<1> HIDE DEF a, d
<1>6. d \in Slots /\ (a + d) % N = tail
  <2>1. d \in Slots BY <1>2, <1>4 DEF Slots
  <2>2. a + d \in Int /\ (a + d = tail \/ a + d = tail + N) BY <1>2, <1>4
  <2>3. /\ 0 <= a + d /\ a + d < N => (a + d) % N = a + d
        /\ N <= a + d /\ a + d < 2 * N => (a + d) % N = (a + d) - N
    BY <1>2, <2>2, Remainder, Zenon
  <2>4. (a + d) % N = tail BY <1>2, <2>2, <2>3
  <2> QED BY <2>1, <2>4, Zenon
<1>7. \E k \in Slots : Forward(q, k) = tail BY <1>6, <1>5, Zenon
<1> QED BY <1>3, <1>5, <1>7, Zenon DEF ToTail

\* Each call a guest makes is a read, a search that finds a valid item, a move
\* of its index, or a change of its own bit.
LEMMA GuestEffect ==
  ASSUME TypeInv, NEW q \in Guests, GuestCall(q)
  PROVE  \/ \E start \in Slots : ReadPick(q, start)
         \/ \E s \in Slots : /\ valid[s] /\ Found(q, s)
                             /\ UNCHANGED <<queue, userMask, items, cell, writer, idx, ghost>>
         \/ \E s \in Slots : GetIndex(q, s)
         \/ \E m \in SUBSET Readers : Loyal \cap userMask \subseteq m /\ ChangeMask(m)
<1>t. /\ head \in Slots /\ tail \in Slots /\ prev(tail) \in Slots
      /\ q \in Readers /\ q \notin Loyal
  BY Neighbours, RingQueueAssumption, Zenon DEF TypeInv, Readers
<1>1. CASE ReadFromHead(q) \/ ReadFromTail(q)
  BY <1>t, <1>1, Zenon DEF ReadFromHead, ReadFromTail
<1>2. CASE \E V \in SUBSET Slots : Find(q, V)
  BY <1>2, FindEffect, Zenon
<1>3. CASE \E V \in SUBSET Slots : FindPost(q, V)
  <2>1. PICK V \in SUBSET Slots : FindPost(q, V) BY <1>3, Zenon
  <2> DEFINE hits == {k \in 0..(ToTail(q) - 1) : Forward(q, k) \in V /\ valid[Forward(q, k)]}
  <2>2. CASE hits # {}
    <3>1. Min(hits) \in hits BY <2>2, LeastSlot
    <3>2. valid[Forward(q, Min(hits))] /\ Forward(q, Min(hits)) \in Slots
      BY <3>1, ForwardEffect, Zenon
    <3>3. /\ Found(q, Forward(q, Min(hits)))
          /\ UNCHANGED <<queue, userMask, items, cell, writer, idx, ghost>>
      BY <2>1, <2>2, Zenon DEF FindPost
    <3> QED BY <3>2, <3>3, Zenon
  <2>3. CASE hits = {}
    BY <1>t, <2>1, <2>3, Zenon DEF FindPost, GetIndex
  <2> QED BY <2>2, <2>3, Zenon
<1>4. CASE GetNextValidIndex(q)
  <2> DEFINE hits == {k \in 0..(ToTail(q) - 1) : valid[Forward(q, k)]}
             stop == IF hits # {} THEN Min(hits) ELSE ToTail(q)
  <2>1. stop \in Int
    <3>1. hits # {} => Min(hits) \in hits BY LeastSlot
    <3> QED BY <3>1, ForwardEffect DEF Slots
  <2>2. GetIndex(q, Forward(q, stop))
    BY <1>4, Zenon DEF GetNextValidIndex, GetIndex
  <2> QED BY <2>1, <2>2, ForwardEffect, Zenon
<1>5. CASE GetIndex(q, head) \/ GetIndex(q, tail)
  BY <1>t, <1>5, Zenon
<1>6. CASE ChangeMask(userMask \cup {q}) \/ ChangeMask(userMask \ {q})
  <2>1. /\ userMask \cup {q} \in SUBSET Readers /\ userMask \ {q} \in SUBSET Readers
        /\ Loyal \cap userMask \subseteq userMask \cup {q}
        /\ Loyal \cap userMask \subseteq userMask \ {q}
    BY <1>t, Zenon DEF TypeInv
  <2> QED BY <1>6, <2>1, Zenon
<1> QED BY <1>1, <1>2, <1>3, <1>4, <1>5, <1>6, Zenon DEF GuestCall

\* The steps of the queue, by what they do to it.
LEMMA NextCases ==
  ASSUME TypeInv, [Next]_vars
  PROVE  \/ \E n \in Lengths : Write(n)
         \/ CheckSlots \/ CheckFits \/ ExtendToEnd \/ CheckWrap \/ CheckAhead
         \/ MoveHead \/ FillTail \/ AdvanceTail
         \/ \E q \in Readers : \E start \in Slots :
              ReadPick(q, start) /\ (q \in Loyal => start = head)
         \/ \E q \in Readers : ReadCheck(q) \/ Take(q)
         \/ \E q \in Guests : \E s \in Slots :
              /\ valid[s] /\ Found(q, s)
              /\ UNCHANGED <<queue, userMask, items, cell, writer, idx, ghost>>
         \/ \E q \in Guests : \E s \in Slots : GetIndex(q, s)
         \/ \E m \in SUBSET Readers : Loyal \cap userMask \subseteq m /\ ChangeMask(m)
         \/ UNCHANGED vars
<1>1. CASE \E r \in Guests : GuestCall(r)
  <2>1. PICK q \in Guests : GuestCall(q) BY <1>1, Zenon
  <2>2. q \in Readers /\ q \notin Loyal BY RingQueueAssumption, Zenon DEF Readers
  <2> QED BY <2>1, <2>2, GuestEffect, Zenon
<1>2. CASE \E r \in Loyal : LoyalCall(r)
  BY <1>2, Zenon DEF LoyalCall, ReadFromHead, Readers, TypeInv
<1>3. CASE WriterStep BY <1>3, Zenon DEF WriterStep
<1>4. CASE \E r \in Readers : ReaderStep(r) BY <1>4, Zenon DEF ReaderStep
<1> QED BY <1>1, <1>2, <1>3, <1>4, Zenon DEF Next

\* Every step of the queue keeps the claims of the loyal readers.
LEMMA ClaimStep ==
  ASSUME ClaimInv, [Next]_vars
  PROVE  ClaimInv'
<1>1. CASE UNCHANGED vars
  <2>u. UNCHANGED <<head, tail, wrPos, wrEnd, userMask, mask, valid, wpc, wlen, rpc, idx, item, loaded>>
    BY <1>1, Zenon DEF vars, queue, items, writer, reader
  <2>s. /\ Between(head, tail)' = Between(head, tail) /\ next(tail)' = next(tail)
        /\ \A x : Coming(x)' <=> Coming(x)
        /\ Moving' <=> Moving
        /\ \A r : Start(r)' = Start(r) /\ Owed(r)' = Owed(r)
    BY <2>u, Zenon DEF Between, next, Coming, Moving, Start, Owed
  <2>1. TypeInv' BY <2>u, Zenon DEF TypeInv, ClaimInv
  <2>2. WriterInv' BY <2>u, <2>s, Zenon DEF WriterInv, ClaimInv
  <2>3. LoyalInv' BY <2>u, <2>s, Zenon DEF LoyalInv, ClaimInv
  <2>4. LoadInv' BY <2>u, <2>s, Zenon DEF LoadInv, ClaimInv
  <2>5. NothingMissed' BY <2>u, <2>s, Zenon DEF NothingMissed, ClaimInv
  <2> QED BY <2>1, <2>2, <2>3, <2>4, <2>5, Zenon DEF ClaimInv
<1>2. TypeInv BY Zenon DEF ClaimInv
<1> QED BY <1>1, <1>2, NextCases, CheckStep, MoveStep, FillStep, AdvanceStep, PickStep,
           ReadCheckStep, TakeStep, FoundStep, IndexStep, MaskStep, Zenon

-----------------------------------------------------------------------------
(***************************************************************************)
(* Claims that readers act on.                                             *)
(***************************************************************************)
Pending(q) == rpc[q] \in {"copy", "found"}

\* Without a claim brought back, masks only lose members while an item is in
\* the queue, a reader that has loaded its claim still has it, and the head
\* that is about to move is still released.
PendInv == ~revived =>
  /\ \A q \in Readers : Pending(q) => mask[item[q]] \subseteq loaded[q]
  /\ \A q \in Readers : Pending(q) /\ q \in loaded[q] => q \in mask[item[q]] /\ valid[item[q]]
  /\ Moving => mask[head] = {}


\* A mask only gains a claim when the slot is filled, and then nobody is
\* reading it, or when a store brings one back.
LEMMA PendStep ==
  ASSUME ClaimInv, PendInv, [Next]_vars
  PROVE  PendInv'
<1> SUFFICES ASSUME ~revived'
             PROVE  /\ \A q \in Readers : Pending(q)' => mask'[item'[q]] \subseteq loaded'[q]
                    /\ \A q \in Readers : Pending(q)' /\ q \in loaded'[q] =>
                         q \in mask'[item'[q]] /\ valid'[item'[q]]
                    /\ Moving' => mask'[head'] = {}
  BY Zenon DEF PendInv
<1>t. TypeInv /\ WriterInv BY Zenon DEF ClaimInv
<1>1. CASE \/ \E n \in Lengths : Write(n)
           \/ CheckSlots \/ CheckFits \/ ExtendToEnd \/ CheckWrap \/ CheckAhead
  <2>1. /\ UNCHANGED <<head, items, reader>> /\ (Moving' => mask[head] = {})
    BY <1>t, <1>1, CheckEffect, Zenon
  <2>2. UNCHANGED revived
    BY <1>1, Zenon DEF Write, CheckSlots, CheckFits, ExtendToEnd, CheckWrap, CheckAhead,
                IfHeaderClean, ghost
  <2> QED BY <2>1, <2>2, Zenon DEF PendInv, Pending, items, reader
<1>2. CASE MoveHead
  <2>1. /\ UNCHANGED <<revived, mask, rpc, item, loaded>> /\ Moving /\ ~Moving'
    BY <1>2, Zenon DEF MoveHead, reader, Moving
  <2>2. \A s \in Slots : valid'[s] <=> valid[s] /\ s # head
    BY <1>t, <1>2, Zenon DEF MoveHead, TypeInv
  <2> QED BY <1>t, <2>1, <2>2, Zenon DEF PendInv, Pending, TypeInv
<1>3. CASE FillTail
  <2>1. /\ UNCHANGED <<revived, rpc, item, loaded>> /\ ~Moving'
        /\ mask' = [mask EXCEPT ![tail] = userMask]
    BY <1>3, Zenon DEF FillTail, reader, ghost, Moving
  <2>2. \A s \in Slots : valid[s] => valid'[s]
    BY <1>t, <1>3, Zenon DEF FillTail, TypeInv
  <2> QED BY <1>t, <1>3, <2>1, <2>2, FillFree, Zenon DEF PendInv, Pending, TypeInv
<1>4. CASE AdvanceTail
  BY <1>4, Zenon DEF AdvanceTail, PendInv, Pending, items, reader, ghost, Moving
<1>5. ASSUME NEW q \in Readers, NEW start \in Slots, ReadPick(q, start)
      PROVE  PendInv'
  <2>1. /\ UNCHANGED <<revived, mask, valid, head, wpc, loaded>>
        /\ rpc' = [rpc EXCEPT ![q] = "locked"]
        /\ \A r \in Readers : r # q => item'[r] = item[r]
    BY <1>t, <1>5, Zenon DEF ReadPick, TypeInv, items, queue, writer, ghost
  <2> QED BY <1>t, <2>1, Zenon DEF PendInv, Pending, Moving, TypeInv
<1>6. ASSUME NEW q \in Readers, ReadCheck(q)
      PROVE  PendInv'
  <2>1. /\ UNCHANGED <<revived, mask, valid, head, wpc, item>>
        /\ \A r \in Readers : r # q => rpc'[r] = rpc[r] /\ loaded'[r] = loaded[r]
        /\ rpc'[q] = "idle" \/ (valid[item[q]] /\ loaded'[q] = mask[item[q]])
    BY <1>t, <1>6, Zenon DEF ReadCheck, TypeInv, items, queue, writer, ghost
  <2> QED BY <2>1, Zenon DEF PendInv, Pending, Moving
<1>7. ASSUME NEW q \in Readers, Take(q)
      PROVE  PendInv'
  <2>1. /\ UNCHANGED <<valid, head, wpc>> /\ Pending(q)
        /\ rpc' = [rpc EXCEPT ![q] = "idle"]
        /\ \A r \in Readers : r # q => item'[r] = item[r] /\ loaded'[r] = loaded[r]
        /\ mask' \in {mask, [mask EXCEPT ![item[q]] = loaded[q] \ {q}]}
        /\ ~revived /\ mask'[item[q]] \subseteq mask[item[q]]
    BY <1>t, <1>7, Zenon DEF Take, TypeInv, queue, writer, Pending
  <2>2. \A s \in Slots : mask'[s] \subseteq mask[s] /\ mask[s] \ {q} \subseteq mask'[s]
    BY <1>t, <2>1 DEF PendInv, TypeInv
  <2>3. head \in Slots /\ \A r \in Readers : item[r] \in Slots BY <1>t, Zenon DEF TypeInv
  <2>4. \A r \in Readers : r # q => rpc'[r] = rpc[r] BY <1>t, <2>1, Zenon DEF TypeInv
  <2>5. rpc'[q] = "idle" BY <1>t, <2>1, Zenon DEF TypeInv
  <2> QED BY <2>1, <2>2, <2>3, <2>4, <2>5, Zenon DEF PendInv, Pending, Moving
<1>8. ASSUME NEW q \in Guests, NEW s \in Slots, valid[s], Found(q, s),
             UNCHANGED <<queue, userMask, items, cell, writer, idx, ghost>>
      PROVE  PendInv'
  <2>1. /\ UNCHANGED <<revived, mask, valid, head, wpc>>
        /\ \A r \in Readers : r # q => /\ rpc'[r] = rpc[r] /\ loaded'[r] = loaded[r]
                                        /\ item'[r] = item[r]
        /\ loaded'[q] = mask[s] /\ item'[q] = s
    BY <1>t, <1>8, Zenon DEF Found, TypeInv, items, queue, writer, ghost, Readers
  <2> QED BY <1>8, <2>1, Zenon DEF PendInv, Pending, Moving
<1>9. ASSUME \/ \E q \in Guests : \E s \in Slots : GetIndex(q, s)
             \/ \E m \in SUBSET Readers : Loyal \cap userMask \subseteq m /\ ChangeMask(m)
             \/ UNCHANGED vars
      PROVE  PendInv'
  <2>1. UNCHANGED <<revived, mask, valid, head, wpc, rpc, item, loaded>>
    BY <1>9, Zenon DEF GetIndex, ChangeMask, vars, items, queue, writer, reader, ghost
  <2> QED BY <2>1, Zenon DEF PendInv, Pending, Moving
<1> QED BY <1>t, <1>1, <1>2, <1>3, <1>4, <1>5, <1>6, <1>7, <1>8, <1>9, NextCases, Zenon DEF PendInv
-----------------------------------------------------------------------------
(***************************************************************************)
(* The memory.                                                             *)
(***************************************************************************)
End(s) == data[s] + len[s]
Live == Between(head, tail)

\* Every address is in the block, and the writer has room before it fills.
MemType ==
  /\ data \in [Slots -> Int] /\ len \in [Slots -> Nat]
  /\ \A s \in Slots : Null <= data[s] /\ End(s) <= MemSize
  /\ wrPos \in Nat /\ wrEnd \in Int /\ wrEnd <= MemSize
  /\ cell \in [Cells -> Int]
  /\ wpc # "idle" => wlen > 0
  /\ wpc \in {"fill", "advance"} => wrPos + wlen <= wrEnd
  /\ wpc = "advance" => data[tail] = wrPos /\ len[tail] = wlen

\* The writer has compared its position with the head.
MoveInv ==
  /\ wpc = "moveWrap" => wrPos > data[head] /\ wrEnd = MemSize
  /\ wpc = "moveAhead" => wrPos <= data[head]

\* The items in the queue lie in order around the free memory between wrPos
\* and wrEnd: first those above it, then those below it.
LayoutInv ==
  /\ wrPos <= wrEnd
  /\ \A s \in Live : /\ data[s] >= 0 /\ len[s] > 0
                     /\ End(s) <= wrPos \/ wrEnd <= data[s]
  /\ \A t \in Live : \A s \in Between(head, t) :
       /\ End(s) <= data[t] \/ (End(t) <= wrPos /\ wrEnd <= data[s])
       /\ End(s) <= wrPos => End(t) <= wrPos
  /\ \A s \in Live : Intact(s)
  /\ wpc = "advance" => Intact(tail)

MemInv == MemType /\ MoveInv /\ (~passed => LayoutInv)

\* An empty queue with all of its memory free.
LEMMA MemInit == Init => MemInv
<1> SUFFICES ASSUME Init PROVE MemInv BY Zenon
<1>1. 0 \in Slots BY RingQueueAssumption DEF Slots
<1>2. Live = {} BY <1>1, MoveFrom, Zenon DEF Init, Live
<1>3. MemType
  BY <1>1, RingQueueAssumption DEF Init, MemType, End, Null, None
<1>4. MoveInv /\ LayoutInv
  BY <1>2, RingQueueAssumption DEF Init, MoveInv, LayoutInv
<1> QED BY <1>3, <1>4, Zenon DEF MemInv

\* Steps that move nothing and fill nothing.
LEMMA SameLayout ==
  ASSUME MemInv, UNCHANGED <<queue, data, len, cell, passed>>,
         wpc' = "advance" => wpc = "advance"
  PROVE  ~passed' => LayoutInv'
<1>1. UNCHANGED <<head, tail, wrPos, wrEnd>> BY Zenon DEF queue
<1>2. Live' = Live /\ \A t : Between(head, t)' = Between(head', t')
  BY <1>1, Zenon DEF Live, Between
<1>3. /\ \A s : End(s)' = End(s) /\ (Intact(s)' <=> Intact(s))
      /\ \A t : Between(head', t) = Between(head, t)
      /\ Intact(tail)' <=> Intact(tail)
  BY <1>1, Zenon DEF End, Intact
<1> QED BY <1>1, <1>2, <1>3, Zenon DEF MemInv, LayoutInv

\* What the checks of the writer find out about its position.
LEMMA CheckMem ==
  ASSUME TypeInv, WriterInv, MemInv,
         \/ \E n \in Lengths : Write(n)
         \/ CheckSlots \/ CheckFits \/ CheckWrap \/ CheckAhead
  PROVE  MemInv'
<1>u. /\ UNCHANGED <<queue, head, tail, wrPos, wrEnd, data, len, cell, passed>>
      /\ wpc' # "advance" /\ wlen' \in Nat /\ wlen' > 0
      /\ wpc' = "fill" => wlen' = wlen /\ wrEnd - wrPos >= wlen
      /\ wpc' = "moveWrap" => wrPos > data[head] /\ wrEnd = MemSize
      /\ wpc' = "moveAhead" => wrPos <= data[head]
  <2> USE DEF queue, items, ghost
  <2>1. CASE \E n \in Lengths : Write(n)
    BY <2>1, RingQueueAssumption DEF Write
  <2>2. CASE CheckSlots
    BY <2>2, Zenon DEF CheckSlots, IfHeaderClean, TypeInv, MemInv, MemType
  <2>3. CASE CheckFits
    BY <2>3, Zenon DEF CheckFits, TypeInv, MemInv, MemType, Fits, FreeMemSize
  <2>4. CASE CheckWrap
    BY <2>4, Zenon DEF CheckWrap, IfHeaderClean, TypeInv, MemInv, MemType
  <2>5. CASE CheckAhead
    BY <2>5, Zenon DEF CheckAhead, IfHeaderClean, TypeInv, MemInv, MemType
  <2> QED BY <2>1, <2>2, <2>3, <2>4, <2>5, Zenon
<1>1. MemType'
  <2>1. \A s : End(s)' = End(s) BY <1>u, Zenon DEF End
  <2>2. wpc' = "fill" => wrPos + wlen <= wrEnd
    BY <1>u DEF MemInv, MemType, TypeInv
  <2> QED BY <1>u, <2>1, <2>2, Zenon DEF MemInv, MemType
<1>2. MoveInv' BY <1>u, Zenon DEF MoveInv
<1>3. ~passed' => LayoutInv' BY <1>u, SameLayout, Zenon
<1> QED BY <1>1, <1>2, <1>3, Zenon DEF MemInv

\* When the writer is past the head, no item lies above the free memory, and
\* the rest of the block is free as well.
LEMMA ExtendMem ==
  ASSUME TypeInv, MemInv, ExtendToEnd
  PROVE  MemInv'
<1>u. /\ UNCHANGED <<head, tail, wrPos, data, len, cell, passed, wlen>>
      /\ wpc = "fit" /\ wpc' = "check" /\ wrEnd' = MemSize /\ wrPos > data[head]
  BY Zenon DEF ExtendToEnd, items, ghost
<1>e. /\ Live' = Live
      /\ \A s : End(s)' = End(s) /\ (Intact(s)' <=> Intact(s))
      /\ \A t : Between(head', t) = Between(head, t)
  BY <1>u, Zenon DEF Live, Between, End, Intact
<1>1. MemType' BY <1>u, <1>e, RingQueueAssumption DEF MemInv, MemType
<1>2. MoveInv' BY <1>u, Zenon DEF MoveInv
<1>3. ASSUME ~passed PROVE LayoutInv'
  <2> USE <1>3 DEF MemInv, LayoutInv
  <2>t. /\ wrPos \in Nat /\ wrEnd \in Int /\ head \in Slots /\ tail \in Slots
        /\ \A s \in Live : data[s] \in Int /\ len[s] \in Nat /\ End(s) \in Int /\ s \in Slots
        /\ \A s \in Live : End(s) <= MemSize
    BY InBetween DEF MemType, TypeInv, End, Live
  <2>1. \A s \in Live : End(s) <= wrPos
    <3> SUFFICES ASSUME NEW s \in Live PROVE End(s) <= wrPos BY Zenon
    <3>1. head # tail BY <2>t, MoveFrom, Zenon DEF Live
    <3>2. head \in Live BY <2>t, <3>1, MoveFrom, Zenon DEF Live
    <3>3. End(head) <= wrPos
      BY <1>u, <2>t, <3>2
    <3>4. s = head \/ head \in Between(head, s) BY <2>t, MoveFrom, Zenon
    <3> QED BY <3>3, <3>4, Zenon
  <2>2. \A t \in Live : \A s \in Between(head, t) : s \in Live
    BY <2>t, Earlier, Zenon DEF Live
  <2>3. \A t \in Live : \A s \in Between(head, t) : End(s) <= data[t]
    <3> SUFFICES ASSUME NEW t \in Live, NEW s \in Between(head, t) PROVE End(s) <= data[t] BY Zenon
    <3>1. s \in Live /\ End(s) <= wrPos /\ len[s] > 0 BY <2>1, <2>2, Zenon
    <3>2. ~(wrEnd <= data[s]) BY <2>t, <3>1 DEF End
    <3> QED BY <3>2, Zenon
  <2>4. wrPos <= MemSize BY <2>t, RingQueueAssumption DEF MemType
  <2>5. wrPos' <= wrEnd' BY <1>u, <2>4, Zenon
  <2> QED BY <1>u, <1>e, <2>1, <2>3, <2>5, Zenon
<1> QED BY <1>u, <1>1, <1>2, <1>3, Zenon DEF MemInv

\* The types of what the layout is about.
LEMMA LiveType ==
  ASSUME TypeInv, MemType
  PROVE  /\ wrPos \in Nat /\ wrEnd \in Int /\ head \in Slots /\ tail \in Slots /\ MemSize \in Nat
         /\ \A s \in Slots : data[s] \in Int /\ len[s] \in Nat /\ End(s) \in Int /\ End(s) <= MemSize
         /\ \A s \in Slots : End(s) = data[s] + len[s]
         /\ Live \subseteq Slots
         /\ \A t \in Live : \A s \in Between(head, t) : s \in Live
BY InBetween, Earlier, RingQueueAssumption DEF MemType, TypeInv, End, Live

\* moveItemHeader: the memory of the head joins the free memory below it, or,
\* if the writer is past the head, all items lie above the head and the free
\* memory is what is below them.
LEMMA MoveMem ==
  ASSUME TypeInv, MemInv, MoveHead
  PROVE  MemInv'
<1>u. /\ UNCHANGED <<tail, data, len, cell, wlen>>
      /\ head' = next(head) /\ Moving /\ wpc' \in {"fit", "check"}
      /\ wrEnd' = IF wpc = "moveFull" THEN wrEnd ELSE End(head)
      /\ wrPos' = IF wpc = "moveWrap" THEN 0 ELSE wrPos
  BY Zenon DEF MoveHead, End, Moving
<1>p. ~passed' => ~passed /\ head # tail
  BY Zenon DEF MoveHead
<1>t. /\ wrPos \in Nat /\ wrEnd \in Int /\ head \in Slots /\ tail \in Slots /\ MemSize \in Nat
      /\ \A s \in Slots : data[s] \in Int /\ len[s] \in Nat /\ End(s) \in Int /\ End(s) <= MemSize
      /\ \A s \in Slots : End(s) = data[s] + len[s]
      /\ Live \subseteq Slots
      /\ \A t \in Live : \A s \in Between(head, t) : s \in Live
  BY LiveType, Zenon DEF MemInv
<1>e. \A s : End(s)' = End(s) /\ (Intact(s)' <=> Intact(s))
  BY <1>u, Zenon DEF End, Intact
<1>1. MemType' BY <1>u, <1>t, <1>e, Zenon DEF MemInv, MemType, Moving
<1>2. MoveInv' BY <1>u, Zenon DEF MoveInv
<1>3. ASSUME ~passed, head # tail PROVE LayoutInv'
  <2> USE <1>3 DEF MemInv, LayoutInv
  <2>l. Live' = Live \ {head}
    <3>1. Live' = Between(next(head), tail) BY <1>u, Zenon DEF Live, Between
    <3> QED BY <1>t, <3>1, MoveFrom, Zenon DEF Live
  <2>h. head \in Live BY <1>t, MoveFrom, Zenon DEF Live
  <2>b. \A t \in Live' : /\ Between(head', t) = Between(head, t) \ {head}
                         /\ head \in Between(head, t)
    BY <1>u, <1>t, <2>l, MoveFrom, Zenon
  <2>d. \A s \in Live : ~(End(s) <= wrPos /\ wrEnd <= data[s])
    BY <1>t
  <2>1. CASE wpc = "moveFull"
    BY <1>u, <1>e, <2>l, <2>b, <2>1
  <2>2. CASE wpc = "moveWrap"
    <3>1. wrPos' = 0 /\ wrEnd' = End(head) /\ wrEnd = MemSize /\ wrPos > data[head]
      BY <1>u, <2>2, Zenon DEF MoveInv
    <3>2. \A s \in Live : ~(wrEnd <= data[s])
      BY <1>t, <3>1
    <3>3. \A t \in Live' : End(head) <= data[t]
      BY <2>b, <2>l, <2>h, <3>2, Zenon
    <3>4. \A t \in Live' : \A s \in Between(head', t) : End(s) <= data[t]
      BY <1>t, <2>b, <2>l, <3>2
    <3>5. \A s \in Live' : ~(End(s) <= 0)
      BY <1>t, <2>l
    <3>6. 0 <= End(head) BY <1>t, <2>h
    <3>7. \A t \in Live' : \A s \in Between(head', t) : s \in Live'
      BY <1>t, <2>b, <2>l, Zenon
    <3> QED BY <1>u, <1>e, <2>l, <2>2, <3>1, <3>3, <3>4, <3>5, <3>6, <3>7, Zenon
  <2>3. CASE wpc = "moveAhead"
    <3>1. wrPos' = wrPos /\ wrEnd' = End(head) /\ wrPos <= data[head]
      BY <1>u, <2>3, Zenon DEF MoveInv
    <3>2. wrEnd <= data[head] /\ wrPos <= End(head)
      BY <1>t, <2>h, <3>1
    <3>3. \A t \in Live' : End(head) <= data[t] \/ End(t) <= wrPos
      BY <2>b, <2>l, Zenon
    <3>4. ASSUME NEW t \in Live', NEW s \in Between(head', t)
          PROVE  End(s) <= data[t] \/ (End(t) <= wrPos /\ End(head) <= data[s])
      <4>1. s \in Between(head, t) /\ s \in Live' /\ t \in Live
        BY <1>t, <2>b, <2>l, Zenon
      <4>2. CASE End(s) <= data[t] BY <4>2, Zenon
      <4>3. CASE End(t) <= wrPos /\ wrEnd <= data[s]
        BY <4>1, <4>3, <2>d, <2>l, <3>3, Zenon
      <4> QED BY <4>1, <4>2, <4>3, Zenon
    <3>5. \A t \in Live' : \A s \in Between(head', t) : End(s) <= wrPos => End(t) <= wrPos
      BY <2>b, <2>l
    <3> QED BY <1>u, <1>e, <2>l, <2>3, <3>1, <3>2, <3>3, <3>4, <3>5
  <2> QED BY <1>u, <2>1, <2>2, <2>3, Zenon DEF Moving
<1> QED BY <1>p, <1>1, <1>2, <1>3, Zenon DEF MemInv

\* setItemTail fills free memory only.
LEMMA FillMem ==
  ASSUME TypeInv, MemInv, FillTail
  PROVE  MemInv'
<1>u. /\ UNCHANGED <<head, tail, wrPos, wrEnd, wlen, passed>>
      /\ wpc = "fill" /\ wpc' = "advance"
      /\ data' = [data EXCEPT ![tail] = wrPos] /\ len' = [len EXCEPT ![tail] = wlen]
      /\ cell' = [c \in Cells |-> IF c \in wrPos..(wrPos + wlen - 1) THEN tail ELSE cell[c]]
  BY Zenon DEF FillTail, queue, ghost
<1>t. /\ wrPos \in Nat /\ wrEnd \in Int /\ head \in Slots /\ tail \in Slots /\ MemSize \in Nat
      /\ \A s \in Slots : data[s] \in Int /\ len[s] \in Nat /\ End(s) \in Int /\ End(s) <= MemSize
      /\ \A s \in Slots : End(s) = data[s] + len[s]
      /\ Live \subseteq Slots
      /\ \A t \in Live : \A s \in Between(head, t) : s \in Live
  BY LiveType, Zenon DEF MemInv
<1>w. wlen \in Nat /\ wlen > 0 /\ wrPos + wlen <= wrEnd /\ wrEnd <= MemSize
  BY <1>u, Zenon DEF TypeInv, MemInv, MemType
<1>e. /\ \A s \in Slots : s # tail => data'[s] = data[s] /\ len'[s] = len[s] /\ End(s)' = End(s)
      /\ data'[tail] = wrPos /\ len'[tail] = wlen /\ End(tail)' = wrPos + wlen
  BY <1>u, <1>t, Zenon DEF End, MemInv, MemType
<1>1. MemType'
  <2>1. data' \in [Slots -> Int] /\ len' \in [Slots -> Nat]
    BY <1>u, <1>t, <1>w DEF MemInv, MemType
  <2>2. cell' \in [Cells -> Int]
    BY <1>u, <1>t DEF MemInv, MemType, Slots
  <2>3. \A s \in Slots : Null <= data'[s] /\ End(s)' <= MemSize
    <3> SUFFICES ASSUME NEW s \in Slots PROVE Null <= data'[s] /\ End(s)' <= MemSize BY Zenon
    <3>1. CASE s = tail BY <1>t, <1>w, <1>e, <3>1 DEF Null, End
    <3>2. CASE s # tail BY <1>e, <3>2, Zenon DEF MemInv, MemType
    <3> QED BY <3>1, <3>2, Zenon
  <2> QED BY <1>u, <1>t, <1>w, <1>e, <2>1, <2>2, <2>3, Zenon DEF MemType
<1>2. MoveInv' BY <1>u, Zenon DEF MoveInv
<1>3. ASSUME ~passed PROVE LayoutInv'
  <2> USE <1>3 DEF MemInv, LayoutInv
  <2>l. /\ Live' = Live /\ tail \notin Live
        /\ \A t : Between(head', t) = Between(head, t)
    BY <1>u, <1>t, MoveFrom DEF Live, Between
  <2>s. \A s \in Live : s # tail /\ data'[s] = data[s] /\ len'[s] = len[s] /\ End(s)' = End(s)
    BY <1>t, <1>e, <2>l, Zenon
  <2>1. ASSUME NEW s \in Live PROVE Intact(s)'
    <3>i. Intact(s) /\ data'[s] = data[s] /\ len'[s] = len[s] /\ s \in Slots
      BY <1>t, <2>s, Zenon
    <3> SUFFICES ASSUME NEW c \in data[s]..(data[s] + len[s] - 1) PROVE cell'[c] = s
      BY <3>i, Zenon DEF Intact
    <3>1. c \in Cells /\ c \in Int BY <1>t DEF Cells
    <3>2. c \notin wrPos..(wrPos + wlen - 1) BY <1>t, <1>w
    <3>3. cell[c] = s BY <3>i, Zenon DEF Intact
    <3> QED BY <1>u, <3>1, <3>2, <3>3, Zenon
  <2>2. Intact(tail)'
    <3> SUFFICES ASSUME NEW c \in wrPos..(wrPos + wlen - 1) PROVE cell'[c] = tail
      BY <1>u, <1>e, Zenon DEF Intact
    <3>1. c \in Cells BY <1>t, <1>w DEF Cells
    <3> QED BY <1>u, <3>1, Zenon
  <2> QED BY <1>u, <1>t, <2>l, <2>s, <2>1, <2>2
<1> QED BY <1>u, <1>1, <1>2, <1>3, Zenon DEF MemInv

\* The new item lies below the free memory, and after all others.
LEMMA AdvanceMem ==
  ASSUME TypeInv, WriterInv, MemInv, AdvanceTail
  PROVE  MemInv'
<1>u. /\ UNCHANGED <<head, wrEnd, data, len, cell, passed>>
      /\ wpc = "advance" /\ wpc' = "idle" /\ tail' = next(tail) /\ wrPos' = wrPos + wlen
  BY Zenon DEF AdvanceTail, items, ghost
<1>t. /\ wrPos \in Nat /\ wrEnd \in Int /\ head \in Slots /\ tail \in Slots /\ MemSize \in Nat
      /\ \A s \in Slots : data[s] \in Int /\ len[s] \in Nat /\ End(s) \in Int /\ End(s) <= MemSize
      /\ \A s \in Slots : End(s) = data[s] + len[s]
      /\ Live \subseteq Slots
      /\ \A t \in Live : \A s \in Between(head, t) : s \in Live
  BY LiveType, Zenon DEF MemInv
<1>w. /\ wlen \in Nat /\ wlen > 0 /\ wrPos + wlen <= wrEnd
      /\ data[tail] = wrPos /\ len[tail] = wlen /\ End(tail) = wrPos'
  BY <1>u, Zenon DEF TypeInv, MemInv, MemType, End
<1>e. \A s : End(s)' = End(s) /\ (Intact(s)' <=> Intact(s))
  BY <1>u, Zenon DEF End, Intact
<1>1. MemType' BY <1>u, <1>t, <1>w, <1>e DEF MemInv, MemType
<1>2. MoveInv' BY <1>u, Zenon DEF MoveInv
<1>3. ASSUME ~passed PROVE LayoutInv'
  <2> USE <1>3 DEF MemInv, LayoutInv
  <2>l. /\ Live' = Live \cup {tail}
        /\ \A t : Between(head', t) = Between(head, t)
        /\ Between(head, tail) = Live
    <3>1. Live' = Between(head, next(tail)) BY <1>u, Zenon DEF Live, Between
    <3> QED BY <1>u, <1>t, <3>1, MoveTo, Zenon DEF Live, WriterInv
  <2>1. \A s \in Live : End(s) <= wrPos => End(s) <= wrPos' BY <1>u, <1>t, <1>w
  <2>2. \A s \in Live : End(s) <= wrPos' => End(s) <= wrPos BY <1>u, <1>t, <1>w
  <2>3. \A s \in Live' : data[s] >= 0 /\ len[s] > 0 /\ (End(s) <= wrPos' \/ wrEnd <= data[s])
    BY <1>t, <1>w, <2>l, <2>1
  <2>4. ASSUME NEW t \in Live', NEW s \in Between(head, t)
        PROVE  /\ End(s) <= data[t] \/ (End(t) <= wrPos' /\ wrEnd <= data[s])
               /\ End(s) <= wrPos' => End(t) <= wrPos'
    <3>1. CASE t \in Live BY <1>t, <2>1, <2>2, <3>1, Zenon
    <3>2. CASE t = tail
      <4>1. s \in Live BY <2>l, <3>2, Zenon
      <4>2. End(t) <= wrPos' /\ data[t] = wrPos BY <1>u, <1>t, <1>w, <3>2
      <4> QED BY <4>1, <4>2, Zenon
    <3> QED BY <2>l, <3>1, <3>2, Zenon
  <2> QED BY <1>u, <1>w, <1>e, <2>l, <2>3, <2>4, Zenon
<1> QED BY <1>u, <1>1, <1>2, <1>3, Zenon DEF MemInv

\* The readers leave the memory alone.
LEMMA ReaderMem ==
  ASSUME MemInv, UNCHANGED <<queue, data, len, cell, writer, passed>>
  PROVE  MemInv'
<1>1. UNCHANGED <<head, tail, wrPos, wrEnd, wpc, wlen>> BY Zenon DEF queue, writer
<1>2. MemType' BY <1>1, Zenon DEF MemInv, MemType, End
<1>3. MoveInv' BY <1>1, Zenon DEF MemInv, MoveInv
<1>4. ~passed' => LayoutInv' BY <1>1, SameLayout, Zenon
<1> QED BY <1>2, <1>3, <1>4, Zenon DEF MemInv

\* Every step keeps the layout of the memory.
LEMMA MemStep ==
  ASSUME ClaimInv, MemInv, [Next]_vars
  PROVE  MemInv'
<1>t. TypeInv /\ WriterInv BY Zenon DEF ClaimInv
<1>1. ASSUME \/ \E q \in Readers : \E start \in Slots : ReadPick(q, start)
             \/ \E q \in Readers : ReadCheck(q) \/ Take(q)
             \/ UNCHANGED <<queue, userMask, items, cell, writer, idx, ghost>>
             \/ \E q \in Guests : \E s \in Slots : GetIndex(q, s)
             \/ \E m \in SUBSET Readers : ChangeMask(m)
             \/ UNCHANGED vars
      PROVE  MemInv'
  <2>1. UNCHANGED <<queue, data, len, cell, writer, passed>>
    BY <1>1, Zenon DEF ReadPick, ReadCheck, Take, GetIndex, ChangeMask, vars, items, ghost
  <2> QED BY <2>1, ReaderMem, Zenon
<1> QED BY <1>t, <1>1, NextCases, CheckMem, ExtendMem, MoveMem, FillMem, AdvanceMem, Zenon

\* Everything that holds of the queue between any two steps.
QueueInv == ClaimInv /\ PendInv /\ MemInv

\* The claims of the readers and the layout of the memory hold throughout.
THEOREM QueueInvariance == Spec => []QueueInv
<1>1. Init => QueueInv
  <2>1. Init => PendInv BY Zenon DEF Init, PendInv, Pending, Moving
  <2> QED BY <2>1, ClaimInit, MemInit, Zenon DEF QueueInv
<1>2. QueueInv /\ [Next]_vars => QueueInv'
  BY ClaimStep, PendStep, MemStep, Zenon DEF QueueInv
<1> QED BY <1>1, <1>2, PTL DEF Spec

\* A reader that is named in the mask the queue was created with, and only
\* reads from the head, misses no item: VCAR_SYS_RingQueueWrite never releases
\* one that is owed to it, and no store of a mask by another reader drops its
\* claim.
THEOREM NothingIsMissed == Spec => []NothingMissed
<1>1. QueueInv => NothingMissed BY Zenon DEF QueueInv, ClaimInv
<1> QED BY <1>1, QueueInvariance, PTL

\* VCAR_SYS_RingQueueWrite never reuses the memory of an item in the queue, or
\* of one that a reader is copying on the strength of its claim, as long as
\* the head has not passed the tail and no claim was brought back.
THEOREM ClaimedStaysIntact == Spec => []ClaimedIntact
<1>1. ASSUME QueueInv PROVE ClaimedIntact
  <2> USE DEF QueueInv, ClaimInv
  <2>1. \A s \in Slots : data[s] + len[s] <= MemSize
    BY <1>1, Zenon DEF MemInv, MemType, End
  <2>2. ~passed => \A s \in Slots : valid[s] => Intact(s)
    BY <1>1, Zenon DEF MemInv, LayoutInv, Live, WriterInv, Coming
  <2>3. ~revived => \A r \in Readers : rpc[r] \in {"copy", "found"} /\ r \in loaded[r] =>
                      valid[item[r]] /\ item[r] \in Slots
    BY <1>1, Zenon DEF PendInv, Pending, TypeInv
  <2> QED BY <2>1, <2>2, <2>3, Zenon DEF ClaimedIntact
<1> QED BY <1>1, QueueInvariance, PTL
=============================================================================
