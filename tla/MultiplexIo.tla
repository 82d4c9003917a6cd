---------------------------- MODULE MultiplexIo -----------------------------
(***************************************************************************)
(* The event loop of apps/sysbus/lib_src/multiplex_io.c: one epoll thread, *)
(* the handles it serves, the deferred release of deleted handles, and     *)
(* writers in other threads.  The callbacks are those local_server.c       *)
(* installs, reduced to what they do to handles: accept a connection, read *)
(* and forward to other handles, or delete the own handle and close its    *)
(* file descriptor.                                                        *)
(*                                                                         *)
(* Sections under a mutex are one step each.  What is read outside of them *)
(* (tmp_event, r_idx) is a step of its own.  The transmit ring counts      *)
(* packets here; MioRing shows that it is a FIFO of that kind.             *)
(*                                                                         *)
(* Two things the code can do have no defined effect, and the model ends   *)
(* with them (pc "undefined"): a writer in another thread gets to a handle *)
(* that was freed after its list_contains_node, and write(2) fails behind  *)
(* the wrap of a ring, which takes r_idx out of the array.                 *)
(***************************************************************************)
EXTENDS Naturals, Sequences, FiniteSets, FiniteSetsExt, Functions

CONSTANTS Handles,    \* multiplex_handle_t objects malloc can return
          Listener,   \* the handle of the listening socket
          MaxFd,      \* largest file descriptor; 0 is the listening socket
          Cap,        \* packets a transmit ring holds
          MaxEvents,  \* length of the events array of epoll_wait (20)
          MaxConns    \* bound on the connections made in a behaviour

ASSUME MioAssumption ==
  /\ Listener \in Handles
  /\ MaxFd \in Nat /\ Cap \in Nat \ {0} /\ MaxEvents \in Nat \ {0} /\ MaxConns \in Nat

Fds == 0..MaxFd

VARIABLES
  where,    \* "free", or the list the handle is in: "io", "del"
  fd,       \* io->fd
  evOut,    \* EPOLLOUT in io->epevt.events
  queued,   \* packets in io->w_buf
  kernel,   \* epoll registration of a descriptor: <<>> or <<handle, out>>
  open,     \* open descriptors
  rd,       \* what reads would find: "none", "data", "eof", or "last": data, then eof
  full,     \* the socket takes no more data until its peer reads
  backlog,  \* connections waiting to be accepted
  conns,    \* connections made so far
  pc, batch, cur, tmpOut, snap,  \* the epoll thread and its locals
  running,  \* thread_running
  reused    \* handles added on the descriptor of a handle still in "del"

objs == <<where, fd, evOut, queued, kernel, reused>>
env  == <<open, rd, full, backlog, conns>>
loop == <<pc, batch, cur, tmpOut, snap>>
vars == <<objs, env, loop, running>>

NoEvent == [h |-> Listener, in |-> FALSE, out |-> FALSE]

Init ==
  /\ where = [h \in Handles |-> IF h = Listener THEN "io" ELSE "free"]
  /\ fd = [h \in Handles |-> 0]
  /\ evOut = [h \in Handles |-> h = Listener]
  /\ queued = [h \in Handles |-> 0]
  /\ kernel = [f \in Fds |-> IF f = 0 THEN <<Listener, TRUE>> ELSE <<>>]
  /\ open = {0}
  /\ rd = [f \in Fds |-> "none"]
  /\ full = [f \in Fds |-> f = 0]   \* a listening socket is never writable
  /\ backlog = 0 /\ conns = 0
  /\ pc = "top" /\ batch = <<>> /\ cur = NoEvent /\ tmpOut = FALSE /\ snap = 0
  /\ running = TRUE
  /\ reused = {}
-----------------------------------------------------------------------------
(***************************************************************************)
(* The peers.                                                              *)
(***************************************************************************)
Running == pc \notin {"killed", "undefined"}

Gone(f) == rd[f] \in {"last", "eof"}

Connect ==
  /\ Running /\ conns < MaxConns
  /\ conns' = conns + 1 /\ backlog' = backlog + 1
  /\ UNCHANGED <<objs, open, rd, full, loop, running>>

PeerSends(f) ==
  /\ Running /\ f \in open \ {0} /\ rd[f] = "none"
  /\ rd' = [rd EXCEPT ![f] = "data"]
  /\ UNCHANGED <<objs, open, full, backlog, conns, loop, running>>

PeerCloses(f) ==
  /\ Running /\ f \in open \ {0} /\ ~Gone(f)
  /\ rd' = [rd EXCEPT ![f] = IF @ = "none" THEN "eof" ELSE "last"]
  /\ full' = [full EXCEPT ![f] = FALSE]
  /\ UNCHANGED <<objs, open, backlog, conns, loop, running>>

PeerReads(f) ==
  /\ Running /\ f \in open \ {0} /\ full[f] /\ ~Gone(f)
  /\ full' = [full EXCEPT ![f] = FALSE]
  /\ UNCHANGED <<objs, open, rd, backlog, conns, loop, running>>
-----------------------------------------------------------------------------
(***************************************************************************)
(* The locked section of multiplex_io_write, for each handle of S.  A      *)
(* packet that does not fit is refused; EPOLL_CTL_MOD fails, without       *)
(* further effect, on a descriptor that is not registered.                 *)
(***************************************************************************)
MioWrite(S) ==
  LET W == {h \in S : queued[h] < Cap} IN
  /\ queued' = [h \in Handles |-> IF h \in W THEN queued[h] + 1 ELSE queued[h]]
  /\ evOut' = [h \in Handles |-> h \in W \/ evOut[h]]
  /\ kernel' = [f \in Fds |-> IF kernel[f] # <<>> /\ \E h \in W : fd[h] = f
                              THEN <<CHOOSE h \in W : fd[h] = f, TRUE>>
                              ELSE kernel[f]]

\* list_contains_node, the test in front of the locked section.
Listed(h) == where[h] = "io"

\* A thread other than the epoll thread sends (a user of the library).  Test
\* and section are one step: only a deletion makes a difference in between.
AppWrite(h) ==
  /\ Running /\ running /\ Listed(h) /\ h # Listener
  /\ MioWrite({h})
  /\ UNCHANGED <<where, fd, reused, env, loop, running>>

\* The section of a writer whose test was made before the handle was deleted.
\* The memory is still there, but another handle may have the descriptor.
LateWrite(h) ==
  /\ Running /\ running /\ where[h] = "del"
  /\ MioWrite({h})
  /\ UNCHANGED <<where, fd, reused, env, loop, running>>

\* The same after the handle was freed (a handle that was in use has had a
\* descriptor other than 0): the mutex and the ring are gone.
FreedWrite(h) ==
  /\ Running /\ running /\ where[h] = "free" /\ fd[h] # 0
  /\ pc' = "undefined"
  /\ UNCHANGED <<objs, env, batch, cur, tmpOut, snap, running>>

\* multiplex_io_close up to its pthread_join.
AppStop ==
  /\ Running /\ running
  /\ running' = FALSE
  /\ UNCHANGED <<objs, env, loop>>

\* The rest of multiplex_io_close: both lists are emptied.
AppRelease ==
  /\ pc = "done" /\ ~running
  /\ \E h \in Handles : where[h] # "free"
  /\ where' = [h \in Handles |-> "free"]
  /\ kernel' = [f \in Fds |-> <<>>]
  /\ reused' = {}
  /\ UNCHANGED <<fd, evOut, queued, env, loop, running>>
-----------------------------------------------------------------------------
(***************************************************************************)
(* multiplex_io_thread.                                                    *)
(***************************************************************************)
LoopTop ==
  /\ pc = "top"
  /\ pc' = IF running THEN "wait" ELSE "done"
  /\ UNCHANGED <<objs, env, batch, cur, tmpOut, snap, running>>

Readable(f) == IF f = 0 THEN backlog > 0 ELSE rd[f] # "none"

Ready(f) ==
  /\ kernel[f] # <<>>
  /\ Readable(f) \/ (kernel[f][2] /\ ~full[f])

Event(f) == [h |-> kernel[f][1], in |-> Readable(f), out |-> kernel[f][2] /\ ~full[f]]

\* epoll_wait: as many ready descriptors as fit, in any order; the timeout
\* returns none.
EpollWait ==
  /\ pc = "wait"
  /\ LET ready == {f \in Fds : Ready(f)}
         n == IF Cardinality(ready) < MaxEvents THEN Cardinality(ready) ELSE MaxEvents
     IN  \E order \in Injection(1..n, ready) :
           batch' = [i \in 1..n |-> Event(order[i])]
  /\ pc' = "event"
  /\ UNCHANGED <<objs, env, cur, tmpOut, snap, running>>

\* epoll_wait returns -1 (EINTR): the loop is left for good.
EpollFails ==
  /\ pc = "wait"
  /\ pc' = "done"
  /\ UNCHANGED <<objs, env, batch, cur, tmpOut, snap, running>>

AfterIn(e) == IF e.out THEN "out" ELSE "rearm"

\* Mutant: a writable handle is not looked at for input.
MUT_NextEvent ==
  /\ pc = "event" /\ batch # <<>>
  /\ LET e == Head(batch) IN
     IF where[e.h] = "io"
     THEN /\ cur' = e /\ tmpOut' = evOut[e.h]
          /\ pc' = IF e.in /\ ~e.out THEN "in" ELSE AfterIn(e)
     ELSE UNCHANGED <<cur, tmpOut, pc>>
  /\ batch' = Tail(batch)
  /\ UNCHANGED <<objs, env, snap, running>>

NextEvent ==
  /\ pc = "event" /\ batch # <<>>
  /\ LET e == Head(batch) IN
     IF where[e.h] = "io"
     THEN /\ cur' = e /\ tmpOut' = evOut[e.h]
          /\ pc' = IF e.in THEN "in" ELSE AfterIn(e)
     ELSE UNCHANGED <<cur, tmpOut, pc>>
  /\ batch' = Tail(batch)
  /\ UNCHANGED <<objs, env, snap, running>>

BatchDone ==
  /\ pc = "event" /\ batch = <<>>
  /\ pc' = "reap"
  /\ UNCHANGED <<objs, env, batch, cur, tmpOut, snap, running>>

\* Mutant: EPOLL_CTL_ADD is forgotten.
MUT_Accept ==
  /\ pc = "in" /\ cur.h = Listener /\ open # Fds
  /\ backlog' = backlog - 1
  /\ LET f == Min(Fds \ open) IN
     \E h \in {g \in Handles : where[g] = "free"} :
       /\ open' = open \cup {f}
       /\ where' = [where EXCEPT ![h] = "io"]
       /\ fd' = [fd EXCEPT ![h] = f]
       /\ evOut' = [evOut EXCEPT ![h] = TRUE]
       /\ queued' = [queued EXCEPT ![h] = 0]
       /\ UNCHANGED kernel
       /\ reused' = IF \E g \in Handles : where[g] = "del" /\ fd[g] = f
                    THEN reused \cup {h} ELSE reused
  /\ pc' = AfterIn(cur)
  /\ UNCHANGED <<rd, full, conns, batch, cur, tmpOut, snap, running>>

\* listen_fd_rd_callback: accept takes the lowest free descriptor, then
\* multiplex_io_handle_add registers and lists a new handle for it.
Accept ==
  /\ pc = "in" /\ cur.h = Listener /\ open # Fds
  /\ backlog' = backlog - 1
  /\ LET f == Min(Fds \ open) IN
     \E h \in {g \in Handles : where[g] = "free"} :
       /\ open' = open \cup {f}
       /\ where' = [where EXCEPT ![h] = "io"]
       /\ fd' = [fd EXCEPT ![h] = f]
       /\ evOut' = [evOut EXCEPT ![h] = TRUE]
       /\ queued' = [queued EXCEPT ![h] = 0]
       /\ kernel' = [kernel EXCEPT ![f] = <<h, TRUE>>]
       /\ reused' = IF \E g \in Handles : where[g] = "del" /\ fd[g] = f
                    THEN reused \cup {h} ELSE reused
  /\ pc' = AfterIn(cur)
  /\ UNCHANGED <<rd, full, conns, batch, cur, tmpOut, snap, running>>

\* malloc or multiplex_io_handle_add fails: the connection is closed again.
AcceptFails ==
  /\ pc = "in" /\ cur.h = Listener /\ open # Fds
  /\ backlog' = backlog - 1
  /\ pc' = AfterIn(cur)
  /\ UNCHANGED <<objs, open, rd, full, conns, batch, cur, tmpOut, snap, running>>

\* accept returns -1 (EMFILE, ENFILE, ENOMEM): the connection stays in the backlog.
AcceptNoFd ==
  /\ pc = "in" /\ cur.h = Listener
  /\ pc' = AfterIn(cur)
  /\ UNCHANGED <<objs, env, batch, cur, tmpOut, snap, running>>

\* com_fd_rd_callback with data: packets are forwarded to any set of clients.
Receive ==
  /\ pc = "in" /\ cur.h # Listener /\ rd[fd[cur.h]] \in {"data", "last"}
  /\ rd' = [rd EXCEPT ![fd[cur.h]] = IF @ = "data" THEN "none" ELSE "eof"]
  /\ \E S \in SUBSET {h \in Handles \ {Listener} : Listed(h)} : MioWrite(S)
  /\ pc' = AfterIn(cur)
  /\ UNCHANGED <<where, fd, reused, open, full, backlog, conns, batch, cur, tmpOut, snap, running>>

\* Mutant: the handle is freed at once.
MUT_HangUp ==
  /\ pc = "in" /\ cur.h # Listener /\ rd[fd[cur.h]] = "eof"
  /\ LET f == fd[cur.h] IN
     /\ where' = [where EXCEPT ![cur.h] = "free"]
     /\ open' = open \ {f}
     /\ kernel' = [kernel EXCEPT ![f] = <<>>]
     /\ rd' = [rd EXCEPT ![f] = "none"]
     /\ full' = [full EXCEPT ![f] = FALSE]
  /\ pc' = AfterIn(cur)
  /\ UNCHANGED <<fd, evOut, queued, reused, backlog, conns, batch, cur, tmpOut, snap, running>>

\* com_fd_rd_callback at end of file: multiplex_io_handle_del, then close(fd),
\* which also ends the epoll registration of the descriptor.
HangUp ==
  /\ pc = "in" /\ cur.h # Listener /\ rd[fd[cur.h]] = "eof"
  /\ LET f == fd[cur.h] IN
     /\ where' = [where EXCEPT ![cur.h] = "del"]
     /\ open' = open \ {f}
     /\ kernel' = [kernel EXCEPT ![f] = <<>>]
     /\ rd' = [rd EXCEPT ![f] = "none"]
     /\ full' = [full EXCEPT ![f] = FALSE]
  /\ pc' = AfterIn(cur)
  /\ UNCHANGED <<fd, evOut, queued, reused, backlog, conns, batch, cur, tmpOut, snap, running>>

\* Mutant: off by one in the amount of queued data.
MUT_OutSnapshot ==
  /\ pc = "out"
  /\ snap' = queued[cur.h]
  /\ tmpOut' = (queued[cur.h] # 0 /\ tmpOut)
  /\ pc' = IF queued[cur.h] <= 1 THEN "rearm" ELSE "send"
  /\ UNCHANGED <<objs, env, batch, cur, running>>

\* The indices are read: nothing to send, or go on to write(2).
OutSnapshot ==
  /\ pc = "out"
  /\ snap' = queued[cur.h]
  /\ tmpOut' = (queued[cur.h] # 0 /\ tmpOut)
  /\ pc' = IF queued[cur.h] = 0 THEN "rearm" ELSE "send"
  /\ UNCHANGED <<objs, env, batch, cur, running>>

\* write(2) takes some or all of the snapshot; what it leaves did not fit.
Send ==
  /\ pc = "send" /\ where[cur.h] = "io" /\ ~Gone(fd[cur.h])
  /\ \E k \in 1..snap, filled \in BOOLEAN :
       /\ k < snap => filled
       /\ queued' = [queued EXCEPT ![cur.h] = @ - k]
       /\ full' = [full EXCEPT ![fd[cur.h]] = filled]
       /\ tmpOut' = (k # snap)
  /\ pc' = "rearm"
  /\ UNCHANGED <<where, fd, evOut, kernel, reused, open, rd, backlog, conns, batch, cur, snap, running>>

\* A packet lies across the end of the array, the first write(2) fills the
\* socket, and the second returns -1 (EAGAIN), which makes r_idx 2^32 - 1.
SendWrapped ==
  /\ pc = "send" /\ where[cur.h] = "io" /\ ~Gone(fd[cur.h])
  /\ pc' = "undefined"
  /\ UNCHANGED <<objs, env, batch, cur, tmpOut, snap, running>>

\* The callback of this very event has closed the descriptor: EBADF.
SendClosed ==
  /\ pc = "send" /\ where[cur.h] = "del"
  /\ tmpOut' = TRUE
  /\ pc' = "rearm"
  /\ UNCHANGED <<objs, env, batch, cur, snap, running>>

\* The peer has gone since epoll_wait: SIGPIPE, which nothing in the program
\* handles, ends the process.
SendPipe ==
  /\ pc = "send" /\ where[cur.h] = "io" /\ Gone(fd[cur.h])
  /\ pc' = "killed"
  /\ UNCHANGED <<objs, env, batch, cur, tmpOut, snap, running>>

\* Mutant: the indices are not looked at again.
MUT_Rearm ==
  /\ pc = "rearm"
  /\ LET h == cur.h
         out == tmpOut
     IN  IF out # evOut[h]
         THEN /\ evOut' = [evOut EXCEPT ![h] = out]
              /\ kernel' = [kernel EXCEPT ![fd[h]] = IF @ = <<>> THEN @ ELSE <<h, out>>]
         ELSE UNCHANGED <<evOut, kernel>>
  /\ pc' = "event"
  /\ UNCHANGED <<where, fd, queued, reused, env, batch, cur, tmpOut, snap, running>>

\* Under the handle's mutex: look at the indices again, then tell epoll.
Rearm ==
  /\ pc = "rearm"
  /\ LET h == cur.h
         out == tmpOut \/ queued[h] # 0
     IN  IF out # evOut[h]
         THEN /\ evOut' = [evOut EXCEPT ![h] = out]
              /\ kernel' = [kernel EXCEPT ![fd[h]] = IF @ = <<>> THEN @ ELSE <<h, out>>]
         ELSE UNCHANGED <<evOut, kernel>>
  /\ pc' = "event"
  /\ UNCHANGED <<where, fd, queued, reused, env, batch, cur, tmpOut, snap, running>>

\* One round of the loop over del_handle_list: EPOLL_CTL_DEL, free.
Reap ==
  /\ pc = "reap"
  /\ \E h \in Handles :
       /\ where[h] = "del"
       /\ where' = [where EXCEPT ![h] = "free"]
       /\ kernel' = [kernel EXCEPT ![fd[h]] = <<>>]
       /\ reused' = reused \ {h}
  /\ UNCHANGED <<fd, evOut, queued, env, loop, running>>

ReapDone ==
  /\ pc = "reap" /\ \A h \in Handles : where[h] # "del"
  /\ pc' = "top"
  /\ UNCHANGED <<objs, env, batch, cur, tmpOut, snap, running>>

Thread == \/ LoopTop \/ EpollWait \/ NextEvent \/ BatchDone
          \/ Accept \/ AcceptFails \/ AcceptNoFd \/ Receive \/ HangUp
          \/ OutSnapshot \/ Send \/ SendWrapped \/ SendClosed \/ SendPipe
          \/ Rearm \/ Reap \/ ReapDone

Peers == Connect \/ \E f \in Fds : PeerSends(f) \/ PeerCloses(f) \/ PeerReads(f)

App == \/ AppStop \/ AppRelease
       \/ \E h \in Handles : AppWrite(h) \/ LateWrite(h) \/ FreedWrite(h)

Next == Thread \/ EpollFails \/ Peers \/ App

Spec == Init /\ [][Next]_vars

(***************************************************************************)
(* The epoll thread runs whenever it can, and a peer that is alive reads.  *)
(* Nothing forces a connection, a write, an interrupted wait or the end.   *)
(***************************************************************************)
Fairness == /\ WF_vars(Thread)
            /\ \A f \in Fds : WF_vars(PeerReads(f))

FairSpec == Spec /\ Fairness
-----------------------------------------------------------------------------
Live(h) == where[h] = "io"

\* The thread only touches allocated handles: those of the batch still to be
\* looked at, the one in hand, and those a later epoll_wait can report.  This
\* is what the deferred free through del_handle_list is for.
NoDanglingHandle ==
  /\ \A i \in 1..Len(batch) : where[batch[i].h] # "free"
  /\ pc \in {"in", "out", "send", "rearm"} => where[cur.h] # "free"
  /\ \A f \in Fds : kernel[f] # <<>> => where[kernel[f][1]] # "free"

\* A handle in use keeps its epoll registration, unless it was given the
\* descriptor of a handle that was closed but not yet reaped: the deferred
\* EPOLL_CTL_DEL of the old handle then removes the registration of the new
\* one.  There is no other way to lose it.
StaysRegistered ==
  \A h \in Handles :
    Live(h) /\ h \notin reused => kernel[fd[h]] # <<>> /\ kernel[fd[h]][1] = h

\* No lost wakeup: data in the ring of a handle is announced to epoll at all
\* times, whatever writers do between the thread's reading of tmp_event and its
\* storing it back.
QueuedIsArmed ==
  \A h \in Handles :
    Live(h) /\ h \notin reused /\ queued[h] # 0 => kernel[fd[h]] = <<h, TRUE>>

Ended == pc \in {"done", "killed", "undefined"}

\* A full transmit ring gets room again: the handle is drained, deleted, or
\* the loop has ended.
FullRingDrains ==
  \A h \in Handles :
    (Live(h) /\ queued[h] = Cap) ~> (queued[h] < Cap \/ ~Live(h) \/ h \in reused \/ Ended)

\* What a peer sends, or its hanging up, reaches the callback of its handle.
InputIsServed ==
  \A h \in Handles :
    (Live(h) /\ rd[fd[h]] # "none") ~> (rd[fd[h]] = "none" \/ ~Live(h) \/ h \in reused \/ Ended)
=============================================================================
