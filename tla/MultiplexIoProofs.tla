-------------------------- MODULE MultiplexIoProofs -------------------------
(***************************************************************************)
(* The event loop, for any number of handles and descriptors, any ring and *)
(* any length of a batch: the inductive invariant, that every step of the  *)
(* peers, the writers and the epoll thread keeps it, and what follows.     *)
(***************************************************************************)
EXTENDS MultiplexIo, TLAPS

Places == {"top", "wait", "event", "in", "out", "send", "rearm", "reap", "done", "killed",
           "undefined"}
AtWork == pc \in {"in", "out", "send", "rearm"}
Events == [h : Handles, in : BOOLEAN, out : BOOLEAN]

TypeInv ==
  /\ where \in [Handles -> {"free", "io", "del"}]
  /\ fd \in [Handles -> Fds]
  /\ evOut \in [Handles -> BOOLEAN]
  /\ queued \in [Handles -> 0..Cap]
  /\ kernel \in [Fds -> {<<>>} \cup (Handles \X BOOLEAN)]
  /\ open \subseteq Fds
  /\ pc \in Places
  /\ batch \in Seq(Events)
  /\ cur \in Events
  /\ snap \in Nat

\* Handles, descriptors and registrations belong to each other.  A handle in
\* use shares its descriptor at most with deleted ones, and then counts as reused.
\* A late write can put a deleted handle into the registration of such a one.
RegisteredInv ==
  /\ \A f \in Fds : kernel[f] # <<>> => /\ where[kernel[f][1]] # "free" /\ fd[kernel[f][1]] = f
                                        /\ kernel[f][2] <=> evOut[kernel[f][1]]
  /\ \A h \in Handles : Live(h) => fd[h] \in open
  /\ \A h, g \in Handles : Live(h) /\ Live(g) /\ fd[h] = fd[g] => h = g
  /\ \A h, g \in Handles : where[h] = "del" /\ Live(g) /\ fd[g] = fd[h] => g \in reused
  /\ \A h \in Handles : Live(h) /\ h \notin reused => kernel[fd[h]] # <<>>

\* The handle in hand is not freed.  If its callback has deleted it, nobody has
\* got its descriptor yet, so that re-arming it does not touch another one.
CurrentInv ==
  AtWork =>
    /\ where[cur.h] # "free"
    /\ pc = "in" => Live(cur.h)
    /\ ~Live(cur.h) => kernel[fd[cur.h]] = <<>>
    /\ pc = "send" => snap \in 1..queued[cur.h]

\* The events still to be looked at are of different handles, none of them freed.
BatchInv ==
  /\ pc \in {"top", "wait", "reap", "done"} => batch = <<>>
  /\ \A i \in 1..Len(batch) :
       /\ where[batch[i].h] # "free"
       /\ AtWork => batch[i].h # cur.h
       /\ \A j \in 1..Len(batch) : batch[i].h = batch[j].h => i = j

\* What is deleted had its event in the current batch: no other handle of this
\* batch has its descriptor, and it is freed before the next one.
DeletedInv ==
  /\ pc \in {"top", "wait"} => \A h \in Handles : where[h] # "del"
  /\ \A h \in Handles : where[h] = "del" =>
       /\ \A i \in 1..Len(batch) : batch[i].h # h => fd[batch[i].h] # fd[h]
       /\ AtWork /\ cur.h # h => fd[cur.h] # fd[h]

\* A handle with something to send asks for EPOLLOUT.
ArmedInv == \A h \in Handles : Live(h) /\ queued[h] # 0 => evOut[h]

MioInv == TypeInv /\ RegisteredInv /\ CurrentInv /\ BatchInv /\ DeletedInv /\ ArmedInv

\* The events of the batch are about handles.
LEMMA BatchHandles ==
  ASSUME TypeInv
  PROVE  \A i \in 1..Len(batch) : batch[i] \in Events /\ batch[i].h \in Handles
<1>1. \A i \in 1..Len(batch) : batch[i] \in Events
  BY DEF TypeInv
<1>2. \A e \in Events : e.h \in Handles
  BY Zenon DEF Events
<1> QED
  BY <1>1, <1>2, Zenon

\* The invariant holds when the loop starts with the listening socket.
LEMMA MioInit == Init => MioInv
<1> SUFFICES ASSUME Init PROVE MioInv
  BY Zenon
<1> USE MioAssumption
<1>1. TypeInv
  <2>1. evOut \in [Handles -> BOOLEAN]
    BY Zenon DEF Init
  <2>2. kernel \in [Fds -> {<<>>} \cup (Handles \X BOOLEAN)]
    BY Zenon DEF Init
  <2>3. cur \in Events
    <3>1. cur = [h |-> Listener, in |-> FALSE, out |-> FALSE]
      BY Zenon DEF Init, NoEvent
    <3>2. [h |-> Listener, in |-> FALSE, out |-> FALSE] \in Events
      BY Zenon DEF Events
    <3> QED
      BY <3>1, <3>2, Zenon
  <2>4. fd \in [Handles -> Fds] /\ open \subseteq Fds /\ queued \in [Handles -> 0..Cap]
    BY DEF Init, Fds
  <2>5. where \in [Handles -> {"free", "io", "del"}] /\ pc \in Places /\ snap \in Nat
    BY Zenon DEF Init, Places
  <2>6. batch \in Seq(Events)
    BY DEF Init
  <2> QED
    BY <2>1, <2>2, <2>3, <2>4, <2>5, <2>6, Zenon DEF TypeInv
<1>2. RegisteredInv
  <2>1. where[Listener] = "io" /\ fd[Listener] = 0 /\ 0 \in open
    BY Zenon DEF Init
  <2>2. \A h \in Handles : Live(h) <=> h = Listener
    BY Zenon DEF Init, Live
  <2>3. \A f \in Fds : kernel[f] # <<>> => f = 0
    BY Zenon DEF Init
  <2>4. 0 \in Fds
    BY DEF Fds
  <2>5. kernel[0] = <<Listener, TRUE>>
    BY <2>4, Zenon DEF Init
  <2>6. evOut[Listener] = TRUE /\ \A h \in Handles : where[h] # "del"
    BY Zenon DEF Init
  <2>7. kernel[0][1] = Listener /\ kernel[0][2] = TRUE /\ kernel[0] # <<>>
    BY <2>5
  <2>8. \A f \in Fds : kernel[f] # <<>> => /\ where[kernel[f][1]] # "free" /\ fd[kernel[f][1]] = f
                                           /\ kernel[f][2] <=> evOut[kernel[f][1]]
    <3>1. where[kernel[0][1]] # "free"
      BY <2>1, <2>7, Zenon
    <3> QED
      BY <2>1, <2>3, <2>6, <2>7, <3>1, Zenon
  <2>9. \A h \in Handles : Live(h) => h = Listener /\ fd[h] \in open /\ kernel[fd[h]] # <<>>
    BY <2>1, <2>2, <2>7, Zenon
  <2>10. \A h, g \in Handles : Live(h) /\ Live(g) => h = g
    BY <2>9, Zenon
  <2>11. /\ \A h \in Handles : Live(h) => fd[h] \in open
         /\ \A h, g \in Handles : Live(h) /\ Live(g) /\ fd[h] = fd[g] => h = g
         /\ \A h, g \in Handles : where[h] = "del" /\ Live(g) /\ fd[g] = fd[h] => g \in reused
         /\ \A h \in Handles : Live(h) /\ h \notin reused => kernel[fd[h]] # <<>>
    BY <2>6, <2>9, <2>10, Zenon
  <2> QED
    BY <2>8, <2>11, Zenon DEF RegisteredInv
<1>3. CurrentInv /\ BatchInv /\ ArmedInv /\ DeletedInv
  BY DEF Init, CurrentInv, BatchInv, ArmedInv, DeletedInv, AtWork
<1> QED
  BY <1>1, <1>2, <1>3, Zenon DEF MioInv

\* multiplex_io_write keeps every registration, adds to rings without exceeding
\* their capacity, and arms the handles it adds to.
LEMMA WriteArms ==
  ASSUME TypeInv, RegisteredInv, NEW S \in SUBSET Handles, MioWrite(S),
         \A h \in S : where[h] # "free"
  PROVE  /\ queued' \in [Handles -> 0..Cap]
         /\ evOut' \in [Handles -> BOOLEAN]
         /\ kernel' \in [Fds -> {<<>>} \cup (Handles \X BOOLEAN)]
         /\ \A h \in Handles : /\ queued[h] <= queued'[h]
                               /\ evOut[h] => evOut'[h]
                               /\ queued'[h] # queued[h] => evOut'[h]
         /\ \A f \in Fds : /\ kernel[f] = <<>> <=> kernel'[f] = <<>>
                           /\ kernel[f] # <<>> => /\ where[kernel'[f][1]] # "free"
                                                  /\ fd[kernel'[f][1]] = f
                                                  /\ kernel'[f][2] <=> evOut'[kernel'[f][1]]
<1> DEFINE W == {h \in S : queued[h] < Cap}
<1>1. queued' = [h \in Handles |-> IF h \in W THEN queued[h] + 1 ELSE queued[h]]
  BY Zenon DEF MioWrite
<1>2. evOut' = [h \in Handles |-> h \in W \/ evOut[h]]
  BY Zenon DEF MioWrite
<1>3. kernel' = [f \in Fds |-> IF kernel[f] # <<>> /\ \E h \in W : fd[h] = f
                               THEN <<CHOOSE h \in W : fd[h] = f, TRUE>>
                               ELSE kernel[f]]
  BY Zenon DEF MioWrite
<1>4. W \subseteq Handles /\ \A h \in W : where[h] # "free" /\ queued[h] < Cap
  BY Zenon
<1> HIDE DEF W
<1>5. queued' \in [Handles -> 0..Cap]
  BY <1>1, <1>4, MioAssumption DEF TypeInv
<1>6. evOut' \in [Handles -> BOOLEAN]
  BY <1>2, Zenon
<1>7. ASSUME NEW h \in Handles
      PROVE  queued[h] <= queued'[h] /\ (evOut[h] => evOut'[h]) /\ (queued'[h] # queued[h] => evOut'[h])
  <2>1. evOut'[h] <=> h \in W \/ evOut[h]
    BY <1>2, Zenon
  <2>2. queued'[h] = IF h \in W THEN queued[h] + 1 ELSE queued[h]
    BY <1>1, Zenon
  <2>3. queued[h] \in Nat
    BY MioAssumption DEF TypeInv
  <2> QED
    BY <2>1, <2>2, <2>3
<1>10. ASSUME NEW f \in Fds, ~(kernel[f] # <<>> /\ \E h \in W : fd[h] = f)
       PROVE  kernel'[f] = kernel[f]
  BY <1>3, <1>10, Zenon
<1>11. ASSUME NEW f \in Fds
       PROVE  /\ kernel'[f] \in {<<>>} \cup (Handles \X BOOLEAN)
              /\ kernel[f] = <<>> <=> kernel'[f] = <<>>
              /\ kernel[f] # <<>> => /\ where[kernel'[f][1]] # "free"
                                     /\ fd[kernel'[f][1]] = f
                                     /\ kernel'[f][2] <=> evOut'[kernel'[f][1]]
  <2>1. CASE kernel[f] # <<>> /\ \E h \in W : fd[h] = f
    <3>1. PICK h \in W : h = CHOOSE g \in W : fd[g] = f
      BY <2>1, Zenon
    <3>6. fd[h] = f
      BY <2>1, <3>1, Zenon
    <3>2. kernel'[f] = <<h, TRUE>>
      BY <1>3, <2>1, <3>1, Zenon
    <3>3. <<h, TRUE>> \in Handles \X BOOLEAN
      BY <1>4, Zenon
    <3>4. <<h, TRUE>> # <<>> /\ <<h, TRUE>>[1] = h /\ <<h, TRUE>>[2] = TRUE
      BY Zenon
    <3>5. evOut'[h] /\ where[h] # "free"
      BY <1>2, <1>4, Zenon
    <3> QED
      BY <2>1, <3>2, <3>3, <3>4, <3>5, <3>6, Zenon
  <2>2. CASE ~(kernel[f] # <<>> /\ \E h \in W : fd[h] = f)
    <3>1. kernel'[f] = kernel[f] /\ kernel[f] \in {<<>>} \cup (Handles \X BOOLEAN)
      BY <1>10, <2>2, Zenon DEF TypeInv
    <3>2. ASSUME kernel[f] # <<>>
          PROVE  /\ where[kernel[f][1]] # "free" /\ fd[kernel[f][1]] = f
                 /\ kernel[f][2] <=> evOut'[kernel[f][1]]
      <4>1. kernel[f][1] \in Handles
        BY <3>1, <3>2, Zenon
      <4>2. /\ where[kernel[f][1]] # "free" /\ fd[kernel[f][1]] = f
            /\ kernel[f][2] <=> evOut[kernel[f][1]]
        BY <3>2, Zenon DEF RegisteredInv
      <4>3. kernel[f][1] \notin W
        BY <2>2, <3>2, <4>2, Zenon
      <4> QED
        BY <1>2, <4>1, <4>2, <4>3, Zenon
    <3> QED
      BY <3>1, <3>2, Zenon
  <2> QED
    BY <2>1, <2>2, Zenon
<1>12. kernel' \in [Fds -> {<<>>} \cup (Handles \X BOOLEAN)]
  <2>1. kernel' = [f \in Fds |-> kernel'[f]]
    BY <1>3, Zenon
  <2> QED
    BY <1>11, <2>1, Zenon
<1> QED
  BY <1>5, <1>6, <1>7, <1>11, <1>12, Zenon

\* A write from any thread, also to a handle deleted meanwhile, and a callback
\* that forwards what it has read, keep the invariant.
LEMMA WriteSteps ==
  ASSUME MioInv, NEW S \in SUBSET Handles, MioWrite(S), \A h \in S : where[h] # "free",
         UNCHANGED <<where, fd, reused, open, batch, cur, snap>>,
         pc' = pc \/ (pc = "in" /\ pc' = AfterIn(cur))
  PROVE  MioInv'
<1> USE DEF MioInv
<1>1. /\ \A h \in Handles : Live(h)' <=> Live(h)
      /\ AtWork' <=> AtWork
  BY Zenon DEF Live, AfterIn, AtWork
<1>2. TypeInv'
  <2>1. pc' \in Places
    BY Zenon DEF TypeInv, AfterIn, Places
  <2> QED
    BY <2>1, WriteArms, Zenon DEF TypeInv
<1>3. RegisteredInv'
  <2>2. \A f \in Fds : kernel'[f] # <<>> => /\ where[kernel'[f][1]] # "free" /\ fd[kernel'[f][1]] = f
                                            /\ kernel'[f][2] <=> evOut'[kernel'[f][1]]
    BY WriteArms, Zenon
  <2>3. \A h \in Handles : Live(h)' /\ h \notin reused' => kernel'[fd'[h]] # <<>>
    BY <1>1, WriteArms, Zenon DEF RegisteredInv, TypeInv
  <2>4. /\ \A h \in Handles : Live(h)' => fd'[h] \in open'
        /\ \A h, g \in Handles : Live(h)' /\ Live(g)' /\ fd'[h] = fd'[g] => h = g
        /\ \A h, g \in Handles : where'[h] = "del" /\ Live(g)' /\ fd'[g] = fd'[h] => g \in reused'
    BY <1>1, Zenon DEF RegisteredInv
  <2>5. where' = where /\ fd' = fd
    BY Zenon
  <2> QED
    BY <2>2, <2>3, <2>4, <2>5, Zenon DEF RegisteredInv
<1>4. CurrentInv'
  <2> SUFFICES ASSUME AtWork' PROVE CurrentInv'
    BY Zenon DEF CurrentInv
  <2>1. cur.h \in Handles /\ fd[cur.h] \in Fds
    BY Zenon DEF TypeInv, Events
  <2>2. /\ where[cur.h] # "free"
        /\ pc = "in" => Live(cur.h)
        /\ ~Live(cur.h) => kernel[fd[cur.h]] = <<>>
        /\ pc = "send" => snap \in 1..queued[cur.h]
    BY <1>1, Zenon DEF CurrentInv
  <2>3. pc' = "in" => Live(cur.h)'
    BY <1>1, <2>1, <2>2, Zenon DEF AfterIn
  <2>4. ~Live(cur.h)' => kernel'[fd'[cur.h]] = <<>>
    BY <1>1, <2>1, <2>2, WriteArms, Zenon
  <2>5. pc' = "send" => snap' \in 1..queued'[cur.h]
    <3>1. queued[cur.h] <= queued'[cur.h] /\ queued[cur.h] \in Int /\ queued'[cur.h] \in Int
      BY <2>1, WriteArms, MioAssumption DEF TypeInv
    <3> QED
      BY <2>2, <3>1 DEF AfterIn
  <2> QED
    BY <2>2, <2>3, <2>4, <2>5, Zenon DEF CurrentInv
<1>5. BatchInv' /\ DeletedInv'
  <2>3. /\ pc' \in {"top", "wait", "reap", "done"} => pc' = pc
    BY Zenon DEF AfterIn
  <2> QED
    BY <1>1, <2>3, Zenon DEF BatchInv, DeletedInv
<1>6. ArmedInv'
  <2>1. \A h \in Handles : /\ evOut[h] => evOut'[h]
                           /\ queued'[h] # queued[h] => evOut'[h]
    BY WriteArms, Zenon
  <2> QED
    BY <1>1, <2>1, Zenon DEF ArmedInv
<1> QED
  BY <1>2, <1>3, <1>4, <1>5, <1>6, Zenon

\* What leaves the handles and descriptors alone keeps them consistent.
LEMMA SameObjects ==
  ASSUME RegisteredInv, UNCHANGED <<objs, open>>
  PROVE  RegisteredInv'
BY Zenon DEF RegisteredInv, objs, Live

\* So do the peers, and the steps of the thread that only move on.
LEMMA MoveSteps ==
  ASSUME MioInv,
         \/ LoopTop \/ EpollFails \/ BatchDone \/ AcceptFails \/ AcceptNoFd
         \/ OutSnapshot \/ SendClosed \/ SendPipe \/ SendWrapped \/ ReapDone \/ Peers \/ AppStop
         \/ (\E h \in Handles : FreedWrite(h)) \/ UNCHANGED vars
  PROVE  MioInv'
<1> USE DEF MioInv
<1> DEFINE moves == LoopTop \/ EpollFails \/ BatchDone \/ AcceptFails \/ AcceptNoFd
                    \/ OutSnapshot \/ SendClosed \/ SendPipe \/ SendWrapped \/ ReapDone
<1>1. CASE moves
  <2>1. UNCHANGED <<objs, open, batch, cur>>
    BY <1>1, Zenon DEF LoopTop, EpollFails, BatchDone, AcceptFails, AcceptNoFd, OutSnapshot, SendClosed,
                SendPipe, SendWrapped, ReapDone, env
  <2>2. UNCHANGED <<where, fd, evOut, queued, kernel, reused>>
    BY <2>1, Zenon DEF objs
  <2>3. cur.h \in Handles /\ queued[cur.h] \in 0..Cap /\ Cap \in Nat
    BY MioAssumption, Zenon DEF TypeInv, Events
  <2>4. \/ pc = "top" /\ pc' \in {"wait", "done"} /\ snap' = snap
        \/ pc = "wait" /\ pc' = "done" /\ snap' = snap
        \/ pc = "event" /\ batch = <<>> /\ pc' = "reap" /\ snap' = snap
        \/ pc = "in" /\ pc' = AfterIn(cur) /\ snap' = snap
        \/ pc = "out" /\ snap' = queued[cur.h] /\ pc' = IF queued[cur.h] = 0 THEN "rearm" ELSE "send"
        \/ pc = "send" /\ pc' \in {"rearm", "killed", "undefined"} /\ snap' = snap
        \/ pc = "reap" /\ pc' = "top" /\ snap' = snap /\ \A h \in Handles : where[h] # "del"
    BY <1>1 DEF LoopTop, EpollFails, BatchDone, AcceptFails, AcceptNoFd, OutSnapshot, SendClosed,
                SendPipe, SendWrapped, ReapDone
  <2> HIDE DEF moves
  <2>5. TypeInv'
    BY <2>1, <2>2, <2>3, <2>4 DEF TypeInv, Places, AfterIn
  <2>6. CurrentInv'
    BY <2>1, <2>2, <2>3, <2>4 DEF CurrentInv, AtWork, AfterIn, Live
  <2>7. BatchInv'
    BY <2>1, <2>2, <2>4, Zenon DEF BatchInv, AtWork, AfterIn
  <2>8. ArmedInv'
    BY <2>2, Zenon DEF ArmedInv, Live
  <2>9. DeletedInv'
    BY <2>1, <2>2, <2>4, Zenon DEF DeletedInv, AtWork, AfterIn
  <2> QED
    BY <2>1, <2>5, <2>6, <2>7, <2>8, <2>9, SameObjects, Zenon
<1>2. CASE Peers \/ AppStop \/ UNCHANGED vars
  <2>1. UNCHANGED <<objs, open, loop>>
    BY <1>2, Zenon DEF Peers, Connect, PeerSends, PeerCloses, PeerReads, AppStop, vars, env
  <2>2. UNCHANGED <<where, fd, evOut, queued, kernel, reused, pc, batch, cur, snap>>
    BY <2>1, Zenon DEF objs, loop
  <2>3. TypeInv' /\ CurrentInv' /\ BatchInv' /\ DeletedInv' /\ ArmedInv'
    BY <2>1, <2>2 DEF TypeInv, CurrentInv, BatchInv, DeletedInv, ArmedInv, AtWork, Live
  <2> QED
    BY <2>1, <2>3, SameObjects, Zenon
<1>3. CASE \E h \in Handles : FreedWrite(h)
  <2>1. UNCHANGED <<objs, open>> /\ UNCHANGED <<batch, cur, snap>> /\ pc' = "undefined"
    BY <1>3, Zenon DEF FreedWrite, env
  <2>2. UNCHANGED <<where, fd, evOut, queued, kernel, reused>>
    BY <2>1, Zenon DEF objs
  <2>3. TypeInv' /\ CurrentInv' /\ BatchInv' /\ DeletedInv' /\ ArmedInv'
    BY <2>1, <2>2, Zenon DEF TypeInv, Places, CurrentInv, BatchInv, DeletedInv, ArmedInv, AtWork, Live
  <2> QED
    BY <2>1, <2>3, SameObjects, Zenon
<1> QED
  BY <1>1, <1>2, <1>3, Zenon

\* The next event is taken up, or skipped if its handle has been deleted.
LEMMA NextEventStep ==
  ASSUME MioInv, NextEvent
  PROVE  MioInv'
<1> USE DEF MioInv
<1> DEFINE e == Head(batch)
<1>1. pc = "event" /\ batch # <<>> /\ batch' = Tail(batch)
  BY Zenon DEF NextEvent
<1>2. UNCHANGED <<where, fd, evOut, queued, kernel, reused, open, snap>> /\ UNCHANGED <<objs, open>>
  BY Zenon DEF NextEvent, objs, env
<1>3. /\ Len(batch') = Len(batch) - 1 /\ Len(batch) \in Nat \ {0} /\ e = batch[1]
      /\ \A i \in 1..Len(batch') : batch'[i] = batch[i + 1] /\ i + 1 \in 1..Len(batch)
      /\ batch' \in Seq(Events)
  BY <1>1 DEF TypeInv
<1>4. e \in Events /\ e.h \in Handles /\ 1 \in 1..Len(batch)
  BY <1>3, BatchHandles
<1>5. where[e.h] # "free"
  BY <1>3, <1>4, Zenon DEF BatchInv
<1>6. \A i \in 1..Len(batch') :
        /\ where[batch'[i].h] # "free"
        /\ batch'[i].h # e.h
        /\ \A j \in 1..Len(batch') : batch'[i].h = batch'[j].h => i = j
  <2> SUFFICES ASSUME NEW i \in 1..Len(batch')
               PROVE  /\ where[batch'[i].h] # "free"
                                    /\ batch'[i].h # e.h
                      /\ \A j \in 1..Len(batch') : batch'[i].h = batch'[j].h => i = j
    BY Zenon
  <2>1. batch'[i] = batch[i + 1] /\ i + 1 \in 1..Len(batch) /\ i + 1 # 1
    BY <1>3
  <2>2. where[batch'[i].h] # "free"
    BY <2>1, Zenon DEF BatchInv
  <2>3. batch'[i].h # e.h
    BY <1>3, <1>4, <2>1, Zenon DEF BatchInv
  <2>4. \A j \in 1..Len(batch') : batch'[i].h = batch'[j].h => i + 1 = j + 1
    BY <1>3, <2>1 DEF BatchInv
  <2> QED
    BY <2>2, <2>3, <2>4
<1>9. \A h \in Handles : where[h] = "del" =>
        /\ \A i \in 1..Len(batch') : batch'[i].h # h => fd[batch'[i].h] # fd[h]
        /\ e.h # h => fd[e.h] # fd[h]
  BY <1>3, <1>4 DEF DeletedInv
<1> HIDE DEF e
<1>7. CASE where[e.h] = "io"
  <2>1. cur' = e /\ pc' = IF e.in THEN "in" ELSE AfterIn(e)
    BY <1>7, Zenon DEF NextEvent, e
  <2>2. TypeInv'
    BY <1>2, <1>3, <1>4, <2>1, Zenon DEF TypeInv, AfterIn, Places
  <2>3. CurrentInv'
    BY <1>2, <1>5, <1>7, <2>1, Zenon DEF CurrentInv, AfterIn, Live
  <2>4. BatchInv'
    BY <1>2, <1>6, <2>1, Zenon DEF BatchInv, AfterIn
  <2>5. ArmedInv'
    BY <1>2, Zenon DEF ArmedInv, Live
  <2>6. DeletedInv'
    BY <1>2, <1>9, <2>1, Zenon DEF DeletedInv, AfterIn
  <2> QED
    BY <1>2, <2>2, <2>3, <2>4, <2>5, <2>6, SameObjects, Zenon
<1>8. CASE where[e.h] # "io"
  <2>1. UNCHANGED <<cur, pc>>
    BY <1>8, Zenon DEF NextEvent, e
  <2>2. TypeInv'
    BY <1>2, <1>3, <2>1, Zenon DEF TypeInv
  <2>3. CurrentInv' /\ ArmedInv'
    BY <1>1, <1>2, <2>1, Zenon DEF CurrentInv, ArmedInv, AtWork, Live
  <2>4. BatchInv'
    BY <1>1, <1>2, <1>6, <2>1, Zenon DEF BatchInv, AtWork
  <2>5. DeletedInv'
    BY <1>1, <1>2, <1>9, <2>1, Zenon DEF DeletedInv, AtWork
  <2> QED
    BY <1>2, <2>2, <2>3, <2>4, <2>5, SameObjects, Zenon
<1> QED
  BY <1>7, <1>8, Zenon

\* A client has hung up: its handle is put aside and its descriptor closed.
LEMMA HangUpStep ==
  ASSUME MioInv, HangUp
  PROVE  MioInv'
<1> USE DEF MioInv
<1> DEFINE f == fd[cur.h]
<1>1. /\ where' = [where EXCEPT ![cur.h] = "del"]
      /\ open' = open \ {f}
      /\ kernel' = [kernel EXCEPT ![f] = <<>>]
      /\ UNCHANGED <<fd, evOut, queued, reused, batch, cur, snap>>
      /\ pc = "in" /\ pc' = AfterIn(cur)
  BY Zenon DEF HangUp
<1>2. /\ cur.h \in Handles /\ f \in Fds /\ Live(cur.h)
  BY <1>1, Zenon DEF CurrentInv, AtWork, TypeInv, Events
<1>3. \A g \in Handles : where'[g] = IF g = cur.h THEN "del" ELSE where[g]
  BY <1>1, <1>2, Zenon DEF TypeInv
<1>4. \A g \in Fds : kernel'[g] = IF g = f THEN <<>> ELSE kernel[g]
  BY <1>1, <1>2, Zenon DEF TypeInv
<1>5. \A g \in Handles : where'[g] = "io" => Live(g) /\ g # cur.h /\ fd[g] # f
  BY <1>2, <1>3 DEF RegisteredInv, Live
<1> HIDE DEF f
<1>6. TypeInv'
  BY <1>1, Zenon DEF TypeInv, Places, AfterIn
<1>7. RegisteredInv'
  <2>1. ASSUME NEW g \in Fds, kernel'[g] # <<>>
        PROVE  /\ where'[kernel'[g][1]] # "free" /\ fd'[kernel'[g][1]] = g
               /\ kernel'[g][2] <=> evOut'[kernel'[g][1]]
    <3>1. g # f /\ kernel'[g] = kernel[g] /\ kernel[g][1] \in Handles
      BY <1>4, <2>1, Zenon DEF TypeInv
    <3>2. where[kernel[g][1]] # "free" /\ fd[kernel[g][1]] = g /\ (kernel[g][2] <=> evOut[kernel[g][1]])
      BY <2>1, <3>1, Zenon DEF RegisteredInv
    <3>3. kernel[g][1] # cur.h
      BY <3>1, <3>2, Zenon DEF f
    <3>4. where'[kernel[g][1]] # "free"
      BY <1>3, <3>1, <3>2, <3>3, Zenon
    <3> QED
      BY <1>1, <3>1, <3>2, <3>4, Zenon
  <2>2. \A g \in Handles : where'[g] = "io" => fd'[g] \in open'
    BY <1>1, <1>5, Zenon DEF RegisteredInv
  <2>3. \A g, k \in Handles : where'[g] = "io" /\ where'[k] = "io" /\ fd'[g] = fd'[k] => g = k
    BY <1>1, <1>5, Zenon DEF RegisteredInv
  <2>4. \A g, k \in Handles : where'[g] = "del" /\ where'[k] = "io" /\ fd'[k] = fd'[g] => k \in reused'
    <3> SUFFICES ASSUME NEW g \in Handles, NEW k \in Handles,
                        where'[g] = "del", where'[k] = "io", fd'[k] = fd'[g]
                 PROVE  k \in reused'
      BY Zenon
    <3>1. Live(k) /\ fd[k] # f /\ fd[k] = fd[g]
      BY <1>1, <1>5, Zenon
    <3>2. where[g] = "del"
      BY <1>3, <3>1, Zenon DEF f
    <3> QED
      BY <1>1, <3>1, <3>2, Zenon DEF RegisteredInv
  <2>5. \A g \in Handles : where'[g] = "io" /\ g \notin reused' => kernel'[fd'[g]] # <<>>
    BY <1>1, <1>4, <1>5, Zenon DEF RegisteredInv, TypeInv
  <2> QED
    BY <2>1, <2>2, <2>3, <2>4, <2>5, Zenon DEF RegisteredInv, Live
<1>8. CurrentInv'
  <2>1. where'[cur.h] = "del" /\ kernel'[fd'[cur.h]] = <<>>
    BY <1>1, <1>2, <1>3, <1>4, Zenon DEF f
  <2> QED
    BY <1>1, <1>2, <2>1, Zenon DEF CurrentInv, AfterIn, Live
<1>9. BatchInv'
  <2>1. AtWork /\ pc' \notin {"top", "wait", "reap", "done"}
    BY <1>1, Zenon DEF AtWork, AfterIn
  <2>2. \A i \in 1..Len(batch) : where'[batch[i].h] # "free"
    BY <1>3, BatchHandles, Zenon DEF BatchInv
  <2> QED
    BY <1>1, <2>1, <2>2 DEF BatchInv
<1>10. ArmedInv'
  BY <1>1, <1>5, Zenon DEF ArmedInv, Live
<1>11. DeletedInv'
  <2>1. AtWork /\ pc' \notin {"top", "wait"}
    BY <1>1, Zenon DEF AtWork, AfterIn
  <2> SUFFICES ASSUME NEW g \in Handles, where'[g] = "del"
               PROVE  /\ \A i \in 1..Len(batch) : batch[i].h # g => fd[batch[i].h] # fd[g]
                      /\ cur.h # g => fd[cur.h] # fd[g]
    BY <1>1, <2>1, Zenon DEF DeletedInv
  <2>2. CASE where[g] = "del"
    BY <2>1, <2>2, Zenon DEF DeletedInv
  <2>3. CASE where[g] # "del"
    <3>1. g = cur.h
      BY <1>3, <2>3, Zenon
    <3>2. ASSUME NEW i \in 1..Len(batch), batch[i].h # cur.h PROVE fd[batch[i].h] # fd[cur.h]
      <4>1. batch[i].h \in Handles /\ where[batch[i].h] \in {"io", "del"}
        BY BatchHandles, Zenon DEF BatchInv, TypeInv
      <4>2. CASE where[batch[i].h] = "io"
        BY <1>2, <3>2, <4>1, <4>2, Zenon DEF RegisteredInv, Live
      <4>3. CASE where[batch[i].h] = "del"
        BY <1>2, <2>1, <3>2, <4>1, <4>3, Zenon DEF DeletedInv
      <4> QED
        BY <4>1, <4>2, <4>3, Zenon
    <3> QED
      BY <3>1, <3>2, Zenon
  <2> QED
    BY <2>2, <2>3, Zenon
<1> QED
  BY <1>6, <1>7, <1>8, <1>9, <1>10, <1>11, Zenon

\* write(2) takes at most what was in the ring when the indices were read.
LEMMA SendStep ==
  ASSUME MioInv, Send
  PROVE  MioInv'
<1> USE DEF MioInv
<1>1. PICK k \in 1..snap : queued' = [queued EXCEPT ![cur.h] = @ - k]
  BY Zenon DEF Send
<1>2. /\ UNCHANGED <<where, fd, evOut, kernel, reused, open, batch, cur, snap>>
      /\ pc = "send" /\ pc' = "rearm"
  BY Zenon DEF Send
<1>3. cur.h \in Handles /\ snap \in 1..queued[cur.h] /\ queued[cur.h] \in 0..Cap /\ Cap \in Nat
  BY <1>2, MioAssumption, Zenon DEF CurrentInv, AtWork, TypeInv, Events
<1>4. queued' \in [Handles -> 0..Cap]
  <2>1. queued[cur.h] - k \in 0..Cap
    BY <1>3
  <2> QED
    BY <1>1, <2>1, Zenon DEF TypeInv
<1>5. TypeInv'
  BY <1>2, <1>4, Zenon DEF TypeInv, Places
<1>6. RegisteredInv'
  BY <1>2, Zenon DEF RegisteredInv, Live
<1>7. CurrentInv' /\ BatchInv' /\ DeletedInv'
  BY <1>2, Zenon DEF CurrentInv, BatchInv, DeletedInv, AtWork, Live
<1>8. ArmedInv'
  <2>1. \A h \in Handles : queued'[h] # queued[h] => h = cur.h /\ queued[h] # 0
    BY <1>1, <1>3 DEF TypeInv
  <2> QED
    BY <1>2, <2>1, Zenon DEF ArmedInv, Live
<1> QED
  BY <1>5, <1>6, <1>7, <1>8, Zenon

\* The thread stores what it wants of epoll, having looked at the ring again.
LEMMA RearmStep ==
  ASSUME MioInv, Rearm
  PROVE  MioInv'
<1> USE DEF MioInv
<1> DEFINE h == cur.h
           f == fd[cur.h]
           out == tmpOut \/ queued[h] # 0
<1>1. UNCHANGED <<where, fd, queued, reused, open, batch, cur, snap>> /\ pc = "rearm" /\ pc' = "event"
  BY Zenon DEF Rearm, env
<1>2. h \in Handles /\ f \in Fds /\ (~Live(h) => kernel[f] = <<>>) /\ AtWork
  BY <1>1, Zenon DEF CurrentInv, AtWork, TypeInv, Events
<1>3. out \in BOOLEAN /\ (queued[h] # 0 => out) /\ evOut[h] \in BOOLEAN
  <2>1. out \in BOOLEAN
    BY Zenon
  <2>2. evOut[h] \in BOOLEAN
    BY <1>2, Zenon DEF TypeInv
  <2> QED
    BY <2>1, <2>2, Zenon
<1>4. /\ evOut' \in [Handles -> BOOLEAN] /\ evOut'[h] = out
      /\ \A g \in Handles \ {h} : evOut'[g] = evOut[g]
      /\ kernel' = kernel \/ kernel' = [kernel EXCEPT ![f] = IF @ = <<>> THEN @ ELSE <<h, out>>]
      /\ kernel' = kernel => evOut' = evOut \/ kernel[f] = <<>> \/ kernel[f] = <<h, out>>
  <2> HIDE DEF out
  <2>1. CASE out # evOut[h]
    <3>1. /\ evOut' = [evOut EXCEPT ![h] = out]
          /\ kernel' = [kernel EXCEPT ![f] = IF @ = <<>> THEN @ ELSE <<h, out>>]
      BY <2>1, Zenon DEF Rearm, out
    <3>2. kernel' = kernel => kernel[f] = <<>> \/ kernel[f] = <<h, out>>
      BY <1>2, <3>1, Zenon DEF TypeInv
    <3> QED
      BY <1>2, <1>3, <3>1, <3>2, Zenon DEF TypeInv
  <2>2. CASE out = evOut[h]
    <3>1. UNCHANGED <<evOut, kernel>>
      BY <2>2, Zenon DEF Rearm, out
    <3> QED
      BY <1>2, <2>2, <3>1, Zenon DEF TypeInv
  <2> QED
    BY <2>1, <2>2, Zenon
<1> HIDE DEF out
<1>5. <<h, out>> # <<>> /\ <<h, out>>[1] = h /\ <<h, out>>[2] = out
  BY Zenon
<1>6. /\ \A g \in Fds \ {f} : kernel'[g] = kernel[g]
      /\ kernel[f] = <<>> => kernel'[f] = <<>>
      /\ kernel[f] # <<>> => kernel'[f] # <<>> /\ kernel'[f][1] = h /\ kernel'[f][2] = out
  <2>1. CASE kernel' = kernel /\ evOut' = evOut
    <3>1. ASSUME kernel[f] # <<>> PROVE kernel[f][1] = h /\ kernel[f][2] = out
      <4>1. kernel[f] \in Handles \X BOOLEAN
        BY <1>2, <3>1, Zenon DEF TypeInv
      <4>2. where[kernel[f][1]] # "free" /\ fd[kernel[f][1]] = f /\ kernel[f][1] \in Handles
        BY <1>2, <3>1, <4>1, Zenon DEF RegisteredInv
      <4>5. where[kernel[f][1]] \in {"io", "del"}
        BY <4>2, Zenon DEF TypeInv
      <4>6. where[kernel[f][1]] = "del" => kernel[f][1] = h
        BY <1>2, <4>2, Zenon DEF DeletedInv
      <4>7. where[kernel[f][1]] = "io" => kernel[f][1] = h
        BY <1>2, <3>1, <4>2, Zenon DEF RegisteredInv, Live
      <4>3. kernel[f][1] = h
        BY <4>5, <4>6, <4>7, Zenon
      <4>4. kernel[f][2] \in BOOLEAN /\ (kernel[f][2] <=> evOut[h])
        BY <1>2, <3>1, <4>1, <4>3, Zenon DEF RegisteredInv
      <4> QED
        BY <1>3, <1>4, <2>1, <4>3, <4>4, Zenon
    <3> QED
      BY <2>1, <3>1, Zenon
  <2>2. CASE kernel' = [kernel EXCEPT ![f] = IF @ = <<>> THEN @ ELSE <<h, out>>]
    BY <1>2, <1>5, <2>2, Zenon DEF TypeInv
  <2>3. CASE kernel' = kernel /\ (kernel[f] = <<>> \/ kernel[f] = <<h, out>>)
    BY <1>5, <2>3, Zenon
  <2> QED
    BY <1>4, <2>1, <2>2, <2>3, Zenon
<1>7. kernel' \in [Fds -> {<<>>} \cup (Handles \X BOOLEAN)]
  <2>1. <<h, out>> \in {<<>>} \cup (Handles \X BOOLEAN)
    BY <1>2, <1>3, Zenon
  <2> QED
    BY <1>4, <2>1 DEF TypeInv
<1>8. TypeInv'
  BY <1>1, <1>4, <1>7, Zenon DEF TypeInv, Places
<1>9. RegisteredInv'
  <2>1. ASSUME NEW g \in Fds, kernel'[g] # <<>>
        PROVE  /\ where'[kernel'[g][1]] # "free" /\ fd'[kernel'[g][1]] = g
               /\ kernel'[g][2] <=> evOut'[kernel'[g][1]]
    <3>1. CASE g = f
      <4>1. Live(h) /\ kernel'[f][1] = h /\ kernel'[f][2] = out
        BY <1>2, <1>6, <2>1, <3>1, Zenon
      <4>2. where'[h] # "free"
        BY <1>1, <4>1, Zenon DEF Live
      <4> QED
        BY <1>1, <1>4, <3>1, <4>1, <4>2, Zenon
    <3>2. CASE g # f
      <4>1. kernel'[g] = kernel[g] /\ kernel[g] # <<>> /\ kernel[g][1] \in Handles
        BY <1>6, <2>1, <3>2 DEF TypeInv
      <4>2. where[kernel[g][1]] # "free" /\ fd[kernel[g][1]] = g /\ (kernel[g][2] <=> evOut[kernel[g][1]])
        BY <4>1, Zenon DEF RegisteredInv
      <4>3. kernel[g][1] \in Handles \ {h}
        BY <3>2, <4>1, <4>2, Zenon
      <4> QED
        BY <1>1, <1>4, <4>1, <4>2, <4>3, Zenon
    <3> QED
      BY <3>1, <3>2, Zenon
  <2>2. \A g \in Handles : Live(g)' /\ g \notin reused' => kernel'[fd'[g]] # <<>>
    BY <1>1, <1>6, Zenon DEF RegisteredInv, Live, TypeInv
  <2>3. /\ \A g \in Handles : Live(g)' => fd'[g] \in open'
        /\ \A g, k \in Handles : Live(g)' /\ Live(k)' /\ fd'[g] = fd'[k] => g = k
        /\ \A g, k \in Handles : where'[g] = "del" /\ Live(k)' /\ fd'[k] = fd'[g] => k \in reused'
    BY <1>1, Zenon DEF RegisteredInv, Live
  <2> QED
    BY <2>1, <2>2, <2>3, Zenon DEF RegisteredInv, Live
<1>10. CurrentInv'
  BY <1>1, Zenon DEF CurrentInv, AtWork
<1>11. BatchInv' /\ DeletedInv'
  <2>1. ~AtWork' /\ AtWork
    BY <1>1, Zenon DEF AtWork
  <2> QED
    BY <1>1, <2>1, Zenon DEF BatchInv, DeletedInv
<1>12. ArmedInv'
  BY <1>1, <1>3, <1>4, Zenon DEF ArmedInv, Live
<1> QED
  BY <1>8, <1>9, <1>10, <1>11, <1>12, Zenon

\* Deleted handles are freed between two batches; multiplex_io_close frees all.
LEMMA ReleaseSteps ==
  ASSUME MioInv, Reap \/ AppRelease
  PROVE  MioInv'
<1> USE DEF MioInv
<1>1. /\ UNCHANGED <<fd, evOut, queued, open, pc, batch, cur, snap>>
      /\ ~AtWork /\ batch = <<>> /\ pc \notin {"top", "wait"}
  BY Zenon DEF Reap, AppRelease, env, loop, AtWork, BatchInv
<1>2. CurrentInv' /\ BatchInv' /\ DeletedInv'
  <2>1. ~AtWork' /\ batch' = <<>> /\ Len(<<>>) = 0
    BY <1>1, Zenon DEF AtWork
  <2>2. CurrentInv'
    BY <2>1, Zenon DEF CurrentInv
  <2>3. 1..Len(batch') = {}
    BY <2>1
  <2>4. BatchInv'
    BY <2>1, <2>3, Zenon DEF BatchInv
  <2>5. DeletedInv'
    BY <1>1, <2>1, <2>3, Zenon DEF DeletedInv
  <2> QED
    BY <2>2, <2>4, <2>5, Zenon
<1>3. CASE Reap
  <2>1. PICK h \in Handles : /\ where[h] = "del"
                             /\ where' = [where EXCEPT ![h] = "free"]
                             /\ kernel' = [kernel EXCEPT ![fd[h]] = <<>>]
                             /\ reused' = reused \ {h}
    BY <1>3, Zenon DEF Reap
  <2>2. \A g \in Handles : where'[g] = IF g = h THEN "free" ELSE where[g]
    BY <2>1, Zenon DEF TypeInv
  <2>3. \A g \in Fds : kernel'[g] = IF g = fd[h] THEN <<>> ELSE kernel[g]
    BY <2>1, Zenon DEF TypeInv
  <2>4. TypeInv'
    BY <1>1, <2>1, Zenon DEF TypeInv
  <2>5. RegisteredInv'
    <3>1. ASSUME NEW g \in Fds, kernel'[g] # <<>>
          PROVE  /\ where'[kernel'[g][1]] # "free" /\ fd'[kernel'[g][1]] = g
                 /\ kernel'[g][2] <=> evOut'[kernel'[g][1]]
      <4>1. kernel'[g] = kernel[g] /\ kernel[g] # <<>> /\ kernel[g][1] \in Handles
        BY <2>3, <3>1, Zenon DEF TypeInv
      <4>2. where[kernel[g][1]] # "free" /\ fd[kernel[g][1]] = g /\ (kernel[g][2] <=> evOut[kernel[g][1]])
        BY <4>1, Zenon DEF RegisteredInv
      <4>4. g # fd[h]
        BY <2>3, <3>1, Zenon
      <4>3. where'[kernel[g][1]] # "free"
        BY <2>2, <4>1, <4>2, <4>4, Zenon
      <4> QED
        BY <1>1, <4>1, <4>2, <4>3, Zenon
    <3>2. \A g \in Handles : where'[g] = "io" => where[g] = "io" /\ g # h
      BY <2>2, Zenon
    <3>3. \A g, k \in Handles : where'[g] = "del" => where[g] = "del"
      BY <2>2, Zenon
    <3>4. /\ \A g \in Handles : where'[g] = "io" => fd'[g] \in open'
          /\ \A g, k \in Handles : where'[g] = "io" /\ where'[k] = "io" /\ fd'[g] = fd'[k] => g = k
          /\ \A g, k \in Handles : where'[g] = "del" /\ where'[k] = "io" /\ fd'[k] = fd'[g] => k \in reused'
      BY <1>1, <2>1, <3>2, <3>3, Zenon DEF RegisteredInv, Live
    <3>5. \A g \in Handles : where'[g] = "io" /\ g \notin reused' => kernel'[fd'[g]] # <<>>
      BY <1>1, <2>1, <2>3, <3>2, Zenon DEF RegisteredInv, Live, TypeInv
    <3> QED
      BY <3>1, <3>4, <3>5, Zenon DEF RegisteredInv, Live
  <2>6. ArmedInv'
    BY <1>1, <2>2, Zenon DEF ArmedInv, Live
  <2> QED
    BY <1>2, <2>4, <2>5, <2>6, Zenon
<1>4. CASE AppRelease
  <2>1. where' = [h \in Handles |-> "free"] /\ kernel' = [f \in Fds |-> <<>>]
    BY <1>4, Zenon DEF AppRelease
  <2>2. TypeInv'
    BY <1>1, <2>1, Zenon DEF TypeInv
  <2>3. RegisteredInv' /\ ArmedInv'
    BY <2>1, Zenon DEF RegisteredInv, ArmedInv, Live
  <2> QED
    BY <1>2, <2>2, <2>3, Zenon
<1> QED
  BY <1>3, <1>4, Zenon

-----------------------------------------------------------------------------
\* epoll_wait counts descriptors and accept takes the least free one.
INSTANCE FiniteSetTheorems
INSTANCE WellFoundedInduction

\* A set of natural numbers that is not empty has a least member, which Min
\* returns.
LEMMA MinOfNaturals ==
  ASSUME NEW S \in SUBSET Nat, S # {}
  PROVE  Min(S) \in S
<1> DEFINE R == OpToRel(<, Nat)
<1>1. IsWellFoundedOn(R, Nat)
  BY NatLessThanWellFounded, Zenon
<1> HIDE DEF R
<1>2. PICK n \in S : \A m \in S : ~(<<m, n>> \in R)
  BY <1>1, WFMin, Zenon
<1>3. ASSUME NEW m \in S PROVE n <= m
  <2>1. m \in Nat /\ n \in Nat
    BY Zenon
  <2>2. m < n => <<m, n>> \in R
    BY <2>1, Zenon DEF R, OpToRel
  <2> QED
    BY <1>2, <2>1, <2>2
<1> QED
  BY <1>3, Zenon DEF Min

\* epoll_wait reports each registered handle at most once, whichever descriptors
\* it chooses and in whichever order.
LEMMA WaitStep ==
  ASSUME MioInv, EpollWait
  PROVE  MioInv'
<1> USE DEF MioInv
<1> DEFINE ready == {f \in Fds : Ready(f)}
           n == IF Cardinality(ready) < MaxEvents THEN Cardinality(ready) ELSE MaxEvents
<1>1. n \in Nat
  <2>1. IsFiniteSet(Fds)
    BY FS_Interval, MioAssumption DEF Fds
  <2>2. Cardinality(ready) \in Nat
    BY <2>1, FS_Subset, FS_CardinalityType, Zenon
  <2> QED
    BY <2>2, MioAssumption, Zenon
<1>2. PICK order \in Injection(1..n, ready) : batch' = [i \in 1..n |-> Event(order[i])]
  BY Zenon DEF EpollWait
<1>3. order \in [1..n -> ready] /\ IsInjective(order)
  BY <1>2, Zenon DEF Injection
<1>4. /\ \A i \in 1..n : order[i] \in ready
      /\ \A i, j \in 1..n : order[i] = order[j] => i = j
  BY <1>3, Zenon DEF IsInjective
<1>5. batch' = [i \in 1..n |-> Event(order[i])]
  BY <1>2, Zenon
<1>6. UNCHANGED <<where, fd, evOut, queued, kernel, reused, open, cur, snap>>
      /\ pc = "wait" /\ pc' = "event" /\ UNCHANGED <<objs, open>>
  BY Zenon DEF EpollWait, objs, env
<1>7. ASSUME NEW f \in ready
      PROVE  /\ Event(f) \in Events
             /\ Event(f).h = kernel[f][1] /\ Live(kernel[f][1]) /\ fd[kernel[f][1]] = f
  <2>1. f \in Fds /\ kernel[f] # <<>>
    BY Zenon DEF Ready
  <2>2. kernel[f][1] \in Handles /\ kernel[f] \in Handles \X BOOLEAN
    BY <2>1, Zenon DEF TypeInv
  <2>3. Event(f) \in Events /\ Event(f).h = kernel[f][1]
    <3> DEFINE in == Readable(f)
               out == kernel[f][2] /\ ~full[f]
    <3>1. Event(f) = [h |-> kernel[f][1], in |-> in, out |-> out]
      BY Zenon DEF Event
    <3>2. in \in BOOLEAN
      <4>1. (backlog > 0) \in BOOLEAN /\ (rd[f] # "none") \in BOOLEAN
        OBVIOUS
      <4>2. in = (backlog > 0) \/ in = (rd[f] # "none")
        BY Zenon DEF Readable
      <4> QED
        BY <4>1, <4>2, Zenon
    <3>3. out \in BOOLEAN
      BY Zenon
    <3> HIDE DEF in, out
    <3>4. Event(f) \in Events
      BY <2>2, <3>1, <3>2, <3>3 DEF Events
    <3>5. Event(f).h = kernel[f][1]
      BY <3>1
    <3> QED
      BY <3>4, <3>5, Zenon
  <2>4. Live(kernel[f][1]) /\ fd[kernel[f][1]] = f
    BY <1>6, <2>1, <2>2 DEF RegisteredInv, DeletedInv, TypeInv, Live
  <2> QED
    BY <2>3, <2>4, Zenon
<1> HIDE DEF ready, n
<1>8. batch' \in Seq(Events) /\ Len(batch') = n
  BY <1>1, <1>4, <1>5, <1>7
<1>9. \A i \in 1..n : batch'[i] = Event(order[i])
  BY <1>5, Zenon
<1>10. TypeInv'
  BY <1>6, <1>8, Zenon DEF TypeInv, Places
<1>11. CurrentInv'
  BY <1>6, Zenon DEF CurrentInv, AtWork
<1>12. BatchInv'
  <2>1. ~AtWork'
    BY <1>6, Zenon DEF AtWork
  <2>2. ASSUME NEW i \in 1..n
        PROVE  /\ where'[batch'[i].h] # "free"
               /\ \A j \in 1..n : batch'[i].h = batch'[j].h => i = j
    <3>1. batch'[i].h = kernel[order[i]][1] /\ Live(kernel[order[i]][1])
      <4>1. order[i] \in ready /\ batch'[i] = Event(order[i])
        BY <1>4, <1>9, Zenon
      <4> QED
        BY <1>7, <4>1, Zenon
    <3>2. \A j \in 1..n : fd[batch'[j].h] = order[j]
      BY <1>4, <1>7, <1>9, Zenon
    <3>3. \A j \in 1..n : batch'[i].h = batch'[j].h => i = j
      BY <1>4, <3>2, Zenon
    <3> QED
      BY <1>6, <3>1, <3>3, Zenon DEF Live
  <2> QED
    BY <1>6, <1>8, <2>1, <2>2, Zenon DEF BatchInv
<1>13. ArmedInv'
  BY <1>6, Zenon DEF ArmedInv, Live
<1>14. DeletedInv'
  BY <1>6, Zenon DEF DeletedInv
<1> QED
  BY <1>6, <1>10, <1>11, <1>12, <1>13, <1>14, SameObjects, Zenon


\* The callback of the listening socket: the new handle gets a descriptor that no
\* handle in use has.
LEMMA AcceptStep ==
  ASSUME MioInv, Accept
  PROVE  MioInv'
<1> USE DEF MioInv
<1> DEFINE f == Min(Fds \ open)
<1>1. f \in Fds \ open
  <2>1. Fds \ open \in SUBSET Nat /\ Fds \ open # {}
    <3>1. open # Fds /\ open \subseteq Fds
      BY Zenon DEF Accept, TypeInv
    <3>2. Fds \subseteq Nat
      BY MioAssumption DEF Fds
    <3> QED
      BY <3>1, <3>2, Zenon
  <2> QED
    BY <2>1, MinOfNaturals, Zenon
<1>2. PICK h \in Handles :
        /\ where[h] = "free"
        /\ open' = open \cup {f}
        /\ where' = [where EXCEPT ![h] = "io"]
        /\ fd' = [fd EXCEPT ![h] = f]
        /\ evOut' = [evOut EXCEPT ![h] = TRUE]
        /\ queued' = [queued EXCEPT ![h] = 0]
        /\ kernel' = [kernel EXCEPT ![f] = <<h, TRUE>>]
        /\ reused' = IF \E g \in Handles : where[g] = "del" /\ fd[g] = f
                     THEN reused \cup {h} ELSE reused
  BY Zenon DEF Accept
<1>3. pc = "in" /\ pc' = AfterIn(cur) /\ UNCHANGED <<batch, cur, snap>>
  BY Zenon DEF Accept
<1> HIDE DEF f
<1>4. cur.h \in Handles /\ Live(cur.h) /\ cur.h # h
  BY <1>2, <1>3, Zenon DEF CurrentInv, AtWork, TypeInv, Events, Live
<1>5. \A g \in Handles : Live(g)' <=> Live(g) \/ g = h
  BY <1>2, Zenon DEF TypeInv, Live
<1>6. \A g \in Handles \ {h} : where'[g] = where[g] /\ fd'[g] = fd[g]
                               /\ evOut'[g] = evOut[g] /\ queued'[g] = queued[g]
  BY <1>2, Zenon DEF TypeInv
<1>7. /\ where'[h] = "io" /\ fd'[h] = f /\ evOut'[h] = TRUE /\ queued'[h] = 0
      /\ kernel'[f] = <<h, TRUE>> /\ \A g \in Fds \ {f} : kernel'[g] = kernel[g]
  BY <1>1, <1>2, Zenon DEF TypeInv
<1>8. <<h, TRUE>> # <<>> /\ <<h, TRUE>>[1] = h /\ <<h, TRUE>>[2] = TRUE
  BY Zenon
<1>9. TypeInv'
  <2>1. evOut' \in [Handles -> BOOLEAN]
    BY <1>2, Zenon DEF TypeInv
  <2>2. kernel' \in [Fds -> {<<>>} \cup (Handles \X BOOLEAN)]
    <3>1. <<h, TRUE>> \in {<<>>} \cup (Handles \X BOOLEAN)
      BY Zenon
    <3> QED
      BY <1>2, <3>1, Zenon DEF TypeInv
  <2>3. where' \in [Handles -> {"free", "io", "del"}] /\ queued' \in [Handles -> 0..Cap]
    BY <1>2, MioAssumption DEF TypeInv
  <2>4. fd' \in [Handles -> Fds] /\ open' \subseteq Fds
    BY <1>1, <1>2, Zenon DEF TypeInv
  <2> QED
    BY <1>3, <2>1, <2>2, <2>3, <2>4, Zenon DEF TypeInv, Places, AfterIn
<1>10. RegisteredInv'
  <2>1. ASSUME NEW g \in Fds, kernel'[g] # <<>>
        PROVE  /\ where'[kernel'[g][1]] # "free" /\ fd'[kernel'[g][1]] = g
               /\ kernel'[g][2] <=> evOut'[kernel'[g][1]]
    <3>1. CASE g = f
      <4>1. where'[h] # "free"
        BY <1>7, Zenon
      <4> QED
        BY <1>7, <1>8, <3>1, <4>1, Zenon
    <3>2. CASE g # f
      <4>1. kernel'[g] = kernel[g] /\ kernel[g][1] \in Handles
        BY <1>7, <2>1, <3>2, Zenon DEF TypeInv
      <4>2. where[kernel[g][1]] # "free" /\ fd[kernel[g][1]] = g /\ (kernel[g][2] <=> evOut[kernel[g][1]])
        BY <2>1, <4>1, Zenon DEF RegisteredInv
      <4>3. kernel[g][1] \in Handles \ {h}
        BY <1>2, <4>1, <4>2, Zenon
      <4> QED
        BY <1>6, <4>1, <4>2, <4>3, Zenon
    <3> QED
      BY <3>1, <3>2, Zenon
  <2>2. \A g \in Handles : Live(g)' => fd'[g] \in open' /\ (g # h => fd'[g] # f)
    <3> SUFFICES ASSUME NEW g \in Handles, Live(g)'
                 PROVE  fd'[g] \in open' /\ (g # h => fd'[g] # f)
      BY Zenon
    <3>1. CASE g = h
      BY <1>2, <1>7, <3>1
    <3>2. CASE g # h
      <4>1. fd[g] \in open /\ fd'[g] = fd[g]
        BY <1>5, <1>6, <3>2, Zenon DEF RegisteredInv
      <4> QED
        BY <1>1, <1>2, <4>1
    <3> QED
      BY <3>1, <3>2, Zenon
  <2>3. \A g, k \in Handles : Live(g)' /\ Live(k)' /\ fd'[g] = fd'[k] => g = k
    <3> SUFFICES ASSUME NEW g \in Handles, NEW k \in Handles, Live(g)', Live(k)', fd'[g] = fd'[k], g # k
                 PROVE  FALSE
      BY Zenon
    <3>1. g # h /\ k # h
      BY <1>7, <2>2, Zenon
    <3>2. Live(g) /\ Live(k) /\ fd[g] = fd[k]
      BY <1>5, <1>6, <3>1, Zenon
    <3> QED
      BY <3>2, Zenon DEF RegisteredInv
  <2>4. \A g, k \in Handles : where'[g] = "del" /\ Live(k)' /\ fd'[k] = fd'[g] => k \in reused'
    <3> SUFFICES ASSUME NEW g \in Handles, NEW k \in Handles, where'[g] = "del", Live(k)', fd'[k] = fd'[g]
                 PROVE  k \in reused'
      BY Zenon
    <3>1. g # h /\ where[g] = "del" /\ fd'[g] = fd[g]
      BY <1>6, <1>7, Zenon
    <3>2. CASE k = h
      BY <1>2, <1>7, <3>1, <3>2, Zenon
    <3>3. CASE k # h
      BY <1>2, <1>5, <1>6, <3>1, <3>3 DEF RegisteredInv
    <3> QED
      BY <3>2, <3>3, Zenon
  <2>5. \A g \in Handles : Live(g)' /\ g \notin reused' => kernel'[fd'[g]] # <<>>
    <3> SUFFICES ASSUME NEW g \in Handles, Live(g)', g \notin reused' PROVE kernel'[fd'[g]] # <<>>
      BY Zenon
    <3>1. CASE g = h
      BY <1>7, <1>8, <3>1, Zenon
    <3>2. CASE g # h
      <4>1. Live(g) /\ g \notin reused /\ fd'[g] = fd[g] /\ fd[g] \in Fds \ {f}
        <5>1. Live(g) /\ fd'[g] = fd[g] /\ fd'[g] # f
          BY <1>5, <1>6, <2>2, <3>2, Zenon
        <5>2. g \notin reused
          BY <1>2, Zenon
        <5> QED
          BY <5>1, <5>2, Zenon DEF TypeInv
      <4>2. kernel[fd[g]] # <<>>
        BY <4>1, Zenon DEF RegisteredInv
      <4> QED
        BY <1>7, <4>1, <4>2, Zenon
    <3> QED
      BY <3>1, <3>2, Zenon
  <2> QED
    BY <2>1, <2>2, <2>3, <2>4, <2>5, Zenon DEF RegisteredInv, Live
<1>11. CurrentInv'
  BY <1>3, <1>4, <1>5, <1>6, Zenon DEF CurrentInv, AfterIn, Live
<1>12. BatchInv'
  <2>1. \A i \in 1..Len(batch) : batch[i].h \in Handles \ {h}
    BY <1>2, BatchHandles, Zenon DEF BatchInv
  <2>2. AtWork /\ pc' \notin {"top", "wait", "reap", "done"}
    BY <1>3, Zenon DEF AtWork, AfterIn
  <2> QED
    BY <1>3, <1>6, <2>1, <2>2 DEF BatchInv
<1>13. ArmedInv'
  BY <1>5, <1>6, <1>7, Zenon DEF ArmedInv
<1>14. DeletedInv'
  <2>1. \A i \in 1..Len(batch) : batch[i].h \in Handles \ {h}
    BY <1>2, BatchHandles, Zenon DEF BatchInv
  <2>2. AtWork /\ pc' \notin {"top", "wait"}
    BY <1>3, Zenon DEF AtWork, AfterIn
  <2> SUFFICES ASSUME NEW g \in Handles, where'[g] = "del"
               PROVE  /\ \A i \in 1..Len(batch) : batch[i].h # g => fd'[batch[i].h] # fd'[g]
                      /\ cur.h # g => fd'[cur.h] # fd'[g]
    BY <1>3, <2>2, Zenon DEF DeletedInv
  <2>3. g # h /\ where[g] = "del" /\ fd'[g] = fd[g] /\ fd'[cur.h] = fd[cur.h]
    BY <1>4, <1>6, <1>7, Zenon
  <2> QED
    BY <1>6, <2>1, <2>2, <2>3 DEF DeletedInv
<1> QED
  BY <1>9, <1>10, <1>11, <1>12, <1>13, <1>14, Zenon

\* The invariant holds throughout.
THEOREM MioInvariance == Spec => []MioInv
<1>1. MioInv /\ [Next]_vars => MioInv'
  <2> SUFFICES ASSUME MioInv, [Next]_vars PROVE MioInv'
    BY Zenon
  <2>1. ASSUME NEW h \in Handles, AppWrite(h) \/ LateWrite(h) PROVE MioInv'
    <3>1. MioWrite({h}) /\ {h} \in SUBSET Handles
          /\ UNCHANGED <<where, fd, reused, open, batch, cur, snap>> /\ pc' = pc
          /\ where[h] # "free"
      BY <2>1, Zenon DEF AppWrite, LateWrite, Listed, env, loop
    <3> QED
      BY <3>1, WriteSteps, Zenon
  <2>2. CASE Receive
    <3>1. PICK S \in SUBSET {h \in Handles \ {Listener} : Listed(h)} : MioWrite(S)
      BY <2>2, Zenon DEF Receive
    <3>2. S \in SUBSET Handles /\ (\A h \in S : where[h] # "free") /\ pc = "in" /\ pc' = AfterIn(cur)
          /\ UNCHANGED <<where, fd, reused, open, batch, cur, snap>>
      BY <2>2, Zenon DEF Receive, Listed
    <3> QED
      BY <3>1, <3>2, WriteSteps, Zenon
  <2>3. CASE \/ LoopTop \/ EpollFails \/ BatchDone \/ AcceptFails \/ AcceptNoFd
             \/ OutSnapshot \/ SendClosed \/ SendPipe \/ SendWrapped \/ ReapDone \/ Peers \/ AppStop
             \/ (\E h \in Handles : FreedWrite(h)) \/ UNCHANGED vars
    BY <2>3, MoveSteps, Zenon
  <2>4. CASE EpollWait \/ NextEvent \/ Accept \/ HangUp \/ Send \/ Rearm \/ Reap \/ AppRelease
    BY <2>4, WaitStep, NextEventStep, AcceptStep, HangUpStep, SendStep, RearmStep, ReleaseSteps, Zenon
  <2> QED
    BY <2>1, <2>2, <2>3, <2>4, Zenon DEF Next, Thread, App
<1> QED
  BY MioInit, <1>1, PTL DEF Spec

\* Whatever the callbacks of a batch delete, and whatever malloc and accept hand
\* out again, the thread and epoll refer to allocated handles only.
THEOREM HandlesOutliveTheirEvents == Spec => []NoDanglingHandle
<1>1. MioInv => NoDanglingHandle
  BY Zenon DEF MioInv, BatchInv, CurrentInv, RegisteredInv, AtWork, NoDanglingHandle
<1> QED
  BY MioInvariance, <1>1, PTL

\* The only way for a handle in use to lose its registration is to get the
\* descriptor of one that is deleted and not yet reaped.
THEOREM RegistrationIsKept == Spec => []StaysRegistered
<1>1. MioInv => StaysRegistered
  <2> SUFFICES ASSUME MioInv, NEW h \in Handles, Live(h), h \notin reused
               PROVE  kernel[fd[h]] # <<>> /\ kernel[fd[h]][1] = h
    BY Zenon DEF StaysRegistered
  <2>1. kernel[fd[h]] # <<>> /\ fd[h] \in Fds
    BY Zenon DEF MioInv, RegisteredInv, TypeInv
  <2>2. kernel[fd[h]][1] \in Handles
    BY <2>1, Zenon DEF MioInv, TypeInv
  <2>3. where[kernel[fd[h]][1]] \in {"io", "del"} /\ fd[kernel[fd[h]][1]] = fd[h]
    BY <2>1, <2>2 DEF MioInv, RegisteredInv, TypeInv
  <2> QED
    BY <2>1, <2>2, <2>3, Zenon DEF MioInv, RegisteredInv, Live
<1> QED
  BY MioInvariance, <1>1, PTL

\* No wakeup is lost between multiplex_io_write and the thread's own bookkeeping:
\* what is queued is announced to epoll, for any number of writers.
THEOREM NoLostWakeup == Spec => []QueuedIsArmed
<1>1. MioInv /\ StaysRegistered => QueuedIsArmed
  <2> SUFFICES ASSUME MioInv, StaysRegistered, NEW h \in Handles,
                      Live(h), h \notin reused, queued[h] # 0
               PROVE  kernel[fd[h]] = <<h, TRUE>>
    BY Zenon DEF QueuedIsArmed
  <2>1. kernel[fd[h]] # <<>> /\ kernel[fd[h]][1] = h /\ fd[h] \in Fds
    BY Zenon DEF MioInv, StaysRegistered, TypeInv
  <2>2. kernel[fd[h]] \in Handles \X BOOLEAN
    BY <2>1, Zenon DEF MioInv, TypeInv
  <2>3. evOut[h]
    BY Zenon DEF MioInv, ArmedInv
  <2>4. kernel[fd[h]][2]
    <3>1. \A f \in Fds : kernel[f] # <<>> => (kernel[f][2] <=> evOut[kernel[f][1]])
      BY Zenon DEF MioInv, RegisteredInv
    <3> QED
      BY <2>1, <2>3, <3>1, Zenon
  <2>5. \A k \in Handles \X BOOLEAN : k = <<k[1], k[2]>> /\ k[2] \in BOOLEAN
    OBVIOUS
  <2>6. kernel[fd[h]][2] = TRUE
    BY <2>2, <2>4, <2>5, Zenon
  <2> QED
    BY <2>1, <2>2, <2>5, <2>6, Zenon
<1> QED
  BY MioInvariance, RegistrationIsKept, <1>1, PTL
=============================================================================
