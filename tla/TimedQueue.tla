----------------------------- MODULE TimedQueue -----------------------------
(***************************************************************************)
(* The message queue with timeouts of apps/msg/que.c.  A call with a       *)
(* timeout puts a timer, which lives in its stack frame, into a tree and   *)
(* blocks in msgsnd or msgrcv; one timer thread takes timers that are due  *)
(* out of the tree and sends SIGUSR1 to their threads, so that the system  *)
(* call fails with EINTR.                                                  *)
(*                                                                         *)
(* A section under event_mutex is one step.  The tree (rbtree_t is not in  *)
(* the repository) is a set of timers with a minimum; deleting a node that *)
(* is not in it is assumed to do nothing.  A thread has one call at a      *)
(* time, so timers are named by their threads.                             *)
(***************************************************************************)
EXTENDS Integers, Sequences

CONSTANTS Threads,
          Capacity,  \* messages the System V queue holds
          Lengths,   \* lengths of the messages sent
          Buffers,   \* lengths readers have room for
          Timeouts,  \* timeouts in ms, other than -1 and 0
          MaxTime    \* bound on the clock

ASSUME QueAssumption ==
  /\ Capacity \in Nat \ {0} /\ MaxTime \in Nat
  /\ Timeouts \subseteq Nat \ {0}
  /\ Lengths \subseteq Nat /\ Buffers \subseteq Nat

VARIABLES
  now,       \* localtime_ms()
  queue,     \* lengths of the queued messages
  tree,      \* event_time_rbtree
  key,       \* event_time_rbtree_node.key of a thread's timer
  status,    \* event_status of a thread's timer
  signalled, \* SIGUSR1 is pending for the thread
  pc,        \* where the thread is in its call
  op, len,   \* the call: "send" or "read", and its length
  mode,      \* its timeout: "timed", "block" (-1) or "nowait" (0)
  retu,      \* what msgsnd or msgrcv has returned
  errno,     \* why it has returned -1
  lost,      \* the signal came before the call was blocked
  loop,      \* the timer thread: "none", "check" or "select"
  wakeAt,    \* when its select times out; -1 if never, or not in select
  pipe       \* the pipe holds bytes

call  == <<op, len, mode, lost>>
timer == <<tree, key, status, signalled>>
sleep == <<loop, wakeAt, pipe>>
result == <<retu, errno>>
vars  == <<now, queue, timer, pc, call, result, sleep>>

Each(v) == [t \in Threads |-> v]

Init ==
  /\ now = 0 /\ queue = <<>>
  /\ tree = {} /\ key = Each(0) /\ status = Each(0) /\ signalled = Each(FALSE)
  /\ pc = Each("idle") /\ op = Each("none") /\ len = Each(0) /\ mode = Each("block")
  /\ retu = Each(0) /\ errno = Each("none") /\ lost = Each(FALSE)
  /\ loop = "none" /\ wakeAt = -1 /\ pipe = FALSE

Tick ==
  /\ now < MaxTime
  /\ now' = now + 1
  /\ UNCHANGED <<queue, timer, pc, call, result, sleep>>
-----------------------------------------------------------------------------
(***************************************************************************)
(* The threads.  A call starts with msgget; a signal that is still pending *)
(* for the thread is handled, without effect, when that returns.  Calls    *)
(* that fail in msgget or malloc change nothing and are left out.          *)
(***************************************************************************)
Start(t, o, n) ==
  /\ pc[t] = "idle"
  /\ op' = [op EXCEPT ![t] = o]
  /\ len' = [len EXCEPT ![t] = n]
  /\ signalled' = [signalled EXCEPT ![t] = FALSE]

\* timeout > 0: event_timer_create starts the timer thread if there is none,
\* add_timer reads the clock.
StartTimed(t, o, n, timeout) ==
  /\ Start(t, o, n)
  /\ now + timeout <= MaxTime
  /\ mode' = [mode EXCEPT ![t] = "timed"]
  /\ key' = [key EXCEPT ![t] = now + timeout]
  /\ loop' = IF loop = "none" THEN "check" ELSE loop
  /\ pc' = [pc EXCEPT ![t] = "insert"]
  /\ UNCHANGED <<now, queue, tree, status, lost, result, wakeAt, pipe>>

\* timeout = -1 or 0
StartUntimed(t, o, n, m) ==
  /\ Start(t, o, n)
  /\ mode' = [mode EXCEPT ![t] = m]
  /\ pc' = [pc EXCEPT ![t] = "syscall"]
  /\ UNCHANGED <<now, queue, tree, key, status, lost, result, sleep>>

\* The rest of add_timer: the tree under the mutex, then the pipe.
rbtree_insert(t) ==
  /\ pc[t] = "insert"
  /\ tree' = tree \cup {t}
  /\ pc' = [pc EXCEPT ![t] = "wake"]
  /\ UNCHANGED <<now, queue, key, status, signalled, call, result, sleep>>

\* Mutant: the timer thread is not woken up.
MUT_WritePipe(t) ==
  /\ pc[t] = "wake"
  /\ UNCHANGED pipe
  /\ signalled' = [signalled EXCEPT ![t] = FALSE]
  /\ lost' = [lost EXCEPT ![t] = lost[t] \/ signalled[t]]
  /\ pc' = [pc EXCEPT ![t] = "syscall"]
  /\ UNCHANGED <<now, queue, tree, key, status, op, len, mode, result, loop, wakeAt>>

\* A signal that has come by now is handled when write(2) returns.
WritePipe(t) ==
  /\ pc[t] = "wake"
  /\ pipe' = TRUE
  /\ signalled' = [signalled EXCEPT ![t] = FALSE]
  /\ lost' = [lost EXCEPT ![t] = lost[t] \/ signalled[t]]
  /\ pc' = [pc EXCEPT ![t] = "syscall"]
  /\ UNCHANGED <<now, queue, tree, key, status, op, len, mode, result, loop, wakeAt>>

\* The handler (event_sighandler, which does nothing) runs before the system
\* call, or after it.
HandleSignal(t) ==
  /\ signalled[t] /\ pc[t] \notin {"idle", "blocked"}
  /\ signalled' = [signalled EXCEPT ![t] = FALSE]
  /\ lost' = [lost EXCEPT ![t] = lost[t] \/ pc[t] \in {"wake", "syscall"}]
  /\ UNCHANGED <<now, queue, tree, key, status, pc, op, len, mode, result, sleep>>

Possible(t) == IF op[t] = "send" THEN Len(queue) < Capacity ELSE queue # <<>>

\* msgrcv does not truncate: the message stays in the queue.
TooBig(t) == op[t] = "read" /\ queue # <<>> /\ Head(queue) > len[t]

\* Mutant: the timer is not deleted.
MUT_AfterCall(t) == "return"

AfterCall(t) == IF mode[t] = "timed" THEN "disarm" ELSE "return"

\* msgsnd or msgrcv succeeds, at once or after having blocked.
Transfer(t) ==
  /\ pc[t] \in {"syscall", "blocked"} /\ Possible(t) /\ ~TooBig(t)
  /\ queue' = IF op[t] = "send" THEN Append(queue, len[t]) ELSE Tail(queue)
  /\ retu' = [retu EXCEPT ![t] = IF op[t] = "send" THEN 0 ELSE Head(queue)]
  /\ pc' = [pc EXCEPT ![t] = AfterCall(t)]
  /\ UNCHANGED <<now, timer, call, errno, sleep>>

Block(t) ==
  /\ pc[t] = "syscall" /\ ~Possible(t) /\ mode[t] # "nowait"
  /\ pc' = [pc EXCEPT ![t] = "blocked"]
  /\ UNCHANGED <<now, queue, timer, call, result, sleep>>

Fail(t, e) ==
  /\ retu' = [retu EXCEPT ![t] = -1]
  /\ errno' = [errno EXCEPT ![t] = e]
  /\ pc' = [pc EXCEPT ![t] = AfterCall(t)]
  /\ UNCHANGED <<now, queue, tree, key, status, call, sleep>>

\* IPC_NOWAIT
Refuse(t) ==
  /\ pc[t] = "syscall" /\ ~Possible(t) /\ mode[t] = "nowait"
  /\ Fail(t, "EAGAIN") /\ UNCHANGED signalled

Overflow(t) ==
  /\ pc[t] \in {"syscall", "blocked"} /\ TooBig(t)
  /\ Fail(t, "E2BIG") /\ UNCHANGED signalled

\* These calls are not restarted after the handler.
Interrupt(t) ==
  /\ pc[t] = "blocked" /\ signalled[t]
  /\ signalled' = [signalled EXCEPT ![t] = FALSE]
  /\ Fail(t, "EINTR")

\* Also if the timer thread has already taken it out of the tree: that rbtree_delete
\* allows this is an assumption about code that is not in the repository.
delete_timer(t) ==
  /\ pc[t] = "disarm"
  /\ tree' = tree \ {t}
  /\ pc' = [pc EXCEPT ![t] = "return"]
  /\ UNCHANGED <<now, queue, key, status, signalled, call, result, sleep>>

\* What the caller finds in errno after -1.
Errno(t) == IF status[t] = 1 THEN "ETIMEDOUT" ELSE errno[t]

\* The call returns retu, and its stack frame is gone.
Return(t) ==
  /\ pc[t] = "return"
  /\ pc' = [pc EXCEPT ![t] = "idle"]
  /\ op' = [op EXCEPT ![t] = "none"] /\ len' = [len EXCEPT ![t] = 0]
  /\ mode' = [mode EXCEPT ![t] = "block"] /\ lost' = [lost EXCEPT ![t] = FALSE]
  /\ key' = [key EXCEPT ![t] = 0] /\ status' = [status EXCEPT ![t] = 0]
  /\ retu' = [retu EXCEPT ![t] = 0] /\ errno' = [errno EXCEPT ![t] = "none"]
  /\ UNCHANGED <<now, queue, tree, signalled, sleep>>
-----------------------------------------------------------------------------
(***************************************************************************)
(* event_timer_loop.  The bytes in the pipe are all "0": the byte that     *)
(* ends the loop is only written by code that is commented out.            *)
(***************************************************************************)
Earliest == {t \in tree : \A u \in tree : key[t] <= key[u]}

Due == {t \in Earliest : now >= key[t]}

\* Mutant: the timer is not marked as timed out.
MUT_Expire_unmarked ==
  /\ loop = "check"
  /\ \E t \in Due :
       /\ tree' = tree \ {t}
       /\ signalled' = [signalled EXCEPT ![t] = TRUE]
  /\ UNCHANGED <<now, queue, key, status, pc, call, result, sleep>>

\* Mutant: the thread is not signalled.
MUT_Expire_silent ==
  /\ loop = "check"
  /\ \E t \in Due :
       /\ status' = [status EXCEPT ![t] = 1]
       /\ tree' = tree \ {t}
  /\ UNCHANGED <<now, queue, key, signalled, pc, call, result, sleep>>

Expire ==
  /\ loop = "check"
  /\ \E t \in Due :
       /\ status' = [status EXCEPT ![t] = 1]
       /\ tree' = tree \ {t}
       /\ signalled' = [signalled EXCEPT ![t] = TRUE]
  /\ UNCHANGED <<now, queue, key, pc, call, result, sleep>>

Select ==
  /\ loop = "check" /\ Due = {}
  /\ wakeAt' = IF tree = {} THEN -1 ELSE key[CHOOSE t \in Earliest : TRUE]
  /\ loop' = "select"
  /\ UNCHANGED <<now, queue, timer, pc, call, result, pipe>>

SelectTimesOut ==
  /\ loop = "select" /\ ~pipe /\ wakeAt # -1 /\ now >= wakeAt
  /\ loop' = "check" /\ wakeAt' = -1
  /\ UNCHANGED <<now, queue, timer, pc, call, result, pipe>>

ReadPipe ==
  /\ loop = "select" /\ pipe
  /\ pipe' = FALSE
  /\ loop' = "check" /\ wakeAt' = -1
  /\ UNCHANGED <<now, queue, timer, pc, call, result>>

event_timer_loop == Expire \/ Select \/ SelectTimesOut \/ ReadPipe

Continue(t) == \/ rbtree_insert(t) \/ WritePipe(t) \/ HandleSignal(t) \/ Transfer(t)
               \/ Block(t) \/ Refuse(t) \/ Overflow(t) \/ Interrupt(t)
               \/ delete_timer(t) \/ Return(t)

StartCall(t) ==
  \E o \in {"send", "read"} : \E n \in IF o = "send" THEN Lengths ELSE Buffers :
    \/ \E timeout \in Timeouts : StartTimed(t, o, n, timeout)
    \/ \E m \in {"block", "nowait"} : StartUntimed(t, o, n, m)

Next == \/ Tick
        \/ event_timer_loop
        \/ \E t \in Threads : StartCall(t) \/ Continue(t)

Spec == Init /\ [][Next]_vars

(***************************************************************************)
(* Time passes, and every thread runs.  Nobody has to make a call.         *)
(***************************************************************************)
Fairness == /\ WF_vars(Tick) /\ WF_vars(event_timer_loop)
            /\ \A t \in Threads : WF_vars(Continue(t))

FairSpec == Spec /\ Fairness
-----------------------------------------------------------------------------
\* A timer in the tree belongs to a call that has not returned: the tree never
\* points into a dead stack frame.
TimersAreOnStack ==
  \A t \in tree : pc[t] \in {"wake", "syscall", "blocked", "disarm"} /\ mode[t] = "timed"

\* The timer thread never sleeps past a timer: one that select would not wake
\* up for in time has its byte in the pipe, or its thread is about to write it.
SelectCoversTimers ==
  loop = "select" =>
    \A t \in tree : (wakeAt # -1 /\ wakeAt <= key[t]) \/ pipe \/ pc[t] = "wake"

\* A call is interrupted only by its own timer, and not before its time is up:
\* a late signal of an earlier call never reaches the next one.
OnlyOwnTimeout ==
  \A t \in Threads :
    /\ pc[t] = "return" /\ errno[t] = "EINTR" => mode[t] = "timed" /\ now >= key[t]
    /\ pc[t] = "return" => Errno(t) # "EINTR"

Waiting(t) == pc[t] \notin {"idle"} /\ mode[t] = "timed"

\* A call with a timeout returns, except if the signal was handled before the
\* call blocked in msgsnd or msgrcv: there is no other way to miss it.
ReturnsUnlessSignalEarly ==
  \A t \in Threads : Waiting(t) ~> (~Waiting(t) \/ lost[t])

\* que.h: "timeout -1 block ,0 nonblock, other wait timeout ms".
TimedCallReturns == \A t \in Threads : Waiting(t) ~> ~Waiting(t)
=============================================================================
