-------------------------- MODULE TimedQueueProofs --------------------------
(***************************************************************************)
(* The timers of the message queue, for any number of threads, any length  *)
(* of the queue and any timeouts: the tree holds no dead stack frame, the  *)
(* timer thread never oversleeps, and a call is only interrupted by its    *)
(* own timer.                                                              *)
(***************************************************************************)
EXTENDS TimedQueue, TLAPS, WellFoundedInduction

\* A set of natural numbers that is not empty has a least member.
LEMMA LeastNatural ==
  ASSUME NEW S \in SUBSET Nat, S # {}
  PROVE  \E n \in S : \A m \in S : n <= m
<1> DEFINE R == OpToRel(<, Nat)
<1>1. IsWellFoundedOn(R, Nat)
  BY NatLessThanWellFounded
<1> HIDE DEF R
<1>2. PICK n \in S : \A m \in S : ~(<<m, n>> \in R)
  BY <1>1, WFMin
<1>3. ASSUME NEW m \in S PROVE n <= m
  <2>1. m \in Nat /\ n \in Nat
    OBVIOUS
  <2>2. m < n => <<m, n>> \in R
    BY <2>1 DEF R, OpToRel
  <2> QED
    BY <1>2, <2>1, <2>2
<1> QED
  BY <1>3

Places == {"idle", "insert", "wake", "syscall", "blocked", "disarm", "return"}

\* The types of what the timers depend on.
TypeInv ==
  /\ now \in Nat
  /\ tree \subseteq Threads
  /\ key \in [Threads -> Nat]
  /\ status \in [Threads -> {0, 1}]
  /\ signalled \in [Threads -> BOOLEAN]
  /\ pc \in [Threads -> Places]
  /\ mode \in [Threads -> {"timed", "block", "nowait"}]
  /\ errno \in [Threads -> {"none", "EAGAIN", "E2BIG", "EINTR"}]
  /\ loop \in {"none", "check", "select"}
  /\ wakeAt \in Int
  /\ pipe \in BOOLEAN

\* The call of t has run out of time, and its timer says so.
Expired(t) == mode[t] = "timed" /\ now >= key[t] /\ status[t] = 1

\* Where a timer may be armed the call is timed.  A signal that is pending for a
\* call, and one that has interrupted it, is that of its own timer.
CallInv ==
  \A t \in Threads :
    /\ pc[t] \in {"insert", "wake", "disarm"} => mode[t] = "timed"
    /\ pc[t] # "idle" /\ signalled[t] => Expired(t)
    /\ errno[t] = "EINTR" => pc[t] # "idle" /\ Expired(t)

TimerInv == TypeInv /\ CallInv /\ TimersAreOnStack /\ SelectCoversTimers

\* If there is a timer, there is an earliest one.
LEMMA EarliestExists ==
  ASSUME TypeInv, tree # {}
  PROVE  Earliest # {}
<1> DEFINE S == {key[t] : t \in tree}
<1>1. S \in SUBSET Nat /\ S # {}
  BY DEF TypeInv
<1>2. PICK n \in S : \A m \in S : n <= m
  <2> HIDE DEF S
  <2> QED
    BY <1>1, LeastNatural
<1>3. PICK t \in tree : n = key[t]
  BY <1>2
<1>4. \A u \in tree : key[t] <= key[u]
  BY <1>2, <1>3
<1> QED
  BY <1>3, <1>4 DEF Earliest

\* The invariant holds before the first call.
LEMMA TimerInit == Init => TimerInv
<1> SUFFICES ASSUME Init PROVE TimerInv
  OBVIOUS
<1>1. TypeInv
  <2>1. signalled \in [Threads -> BOOLEAN] /\ pipe \in BOOLEAN
    BY Zenon DEF Init, Each
  <2> QED
    BY <2>1 DEF Init, Each, TypeInv, Places
<1>2. CallInv
  BY DEF Init, Each, CallInv
<1>3. TimersAreOnStack /\ SelectCoversTimers
  BY DEF Init, TimersAreOnStack, SelectCoversTimers
<1> QED
  BY <1>1, <1>2, <1>3 DEF TimerInv

\* The threads keep the invariant, from the start of a call to its return.
LEMMA ThreadSteps ==
  ASSUME TimerInv, NEW t \in Threads, StartCall(t) \/ Continue(t)
  PROVE  TimerInv'
<1> USE DEF TimerInv, TypeInv, CallInv, Expired, Places, TimersAreOnStack, SelectCoversTimers,
            timer, call, sleep, result
<1>1. ASSUME NEW o, NEW n, NEW timeout \in Timeouts, StartTimed(t, o, n, timeout) PROVE TimerInv'
  BY <1>1, QueAssumption DEF StartTimed, Start
<1>2. ASSUME NEW o, NEW n, NEW m \in {"block", "nowait"}, StartUntimed(t, o, n, m) PROVE TimerInv'
  BY <1>2 DEF StartUntimed, Start
<1>3. CASE rbtree_insert(t)
  BY <1>3 DEF rbtree_insert
<1>4. CASE WritePipe(t)
  BY <1>4 DEF WritePipe
<1>5. CASE HandleSignal(t)
  BY <1>5 DEF HandleSignal
<1>6. CASE Transfer(t)
  BY <1>6 DEF Transfer, AfterCall
<1>7. CASE Block(t)
  BY <1>7 DEF Block
<1>8. CASE Refuse(t) \/ Overflow(t)
  BY <1>8 DEF Refuse, Overflow, Fail, AfterCall
<1>9. CASE Interrupt(t)
  BY <1>9 DEF Interrupt, Fail, AfterCall
<1>10. CASE delete_timer(t)
  BY <1>10 DEF delete_timer
<1>11. CASE Return(t)
  BY <1>11 DEF Return
<1> HIDE DEF TimerInv
<1>12. CASE StartCall(t)
  BY <1>1, <1>2, <1>12, Zenon DEF StartCall
<1>13. CASE Continue(t)
  BY <1>3, <1>4, <1>5, <1>6, <1>7, <1>8, <1>9, <1>10, <1>11, <1>13, Zenon DEF Continue
<1> QED
  BY <1>12, <1>13

\* The timer thread and the clock keep the invariant.
LEMMA LoopSteps ==
  ASSUME TimerInv, event_timer_loop \/ Tick
  PROVE  TimerInv'
<1> USE DEF TimerInv, TypeInv, CallInv, Expired, Places, TimersAreOnStack, SelectCoversTimers,
            timer, call, sleep, result
<1>1. CASE Expire
  BY <1>1 DEF Expire, Due, Earliest
<1>2. CASE Select
  <2>1. CASE tree = {}
    BY <1>2, <2>1 DEF Select
  <2>2. CASE tree # {}
    <3> DEFINE first == CHOOSE t \in Earliest : TRUE
    <3>1. first \in Earliest
      BY <2>2, EarliestExists
    <3>2. first \in tree /\ \A u \in tree : key[first] <= key[u]
      BY <3>1 DEF Earliest
    <3>3. wakeAt' = key[first] /\ key[first] \in Nat
      BY <1>2, <2>2, <3>2 DEF Select
    <3>4. \A u \in tree' : wakeAt' # -1 /\ wakeAt' <= key'[u]
      BY <1>2, <3>2, <3>3 DEF Select
    <3>5. UNCHANGED <<now, queue, timer, pc, call, result, pipe>> /\ loop' = "select" /\ wakeAt' \in Int
      BY <1>2, <3>3 DEF Select
    <3> HIDE DEF first
    <3> QED
      BY <3>4, <3>5
  <2> QED
    BY <2>1, <2>2
<1>3. CASE SelectTimesOut
  BY <1>3 DEF SelectTimesOut
<1>4. CASE ReadPipe
  <2>1. TypeInv'
    <3>1. pipe' \in BOOLEAN
      BY <1>4, Zenon DEF ReadPipe
    <3>2. loop' = "check" /\ wakeAt' = -1 /\ UNCHANGED <<now, timer, pc, call, result>>
      BY <1>4 DEF ReadPipe
    <3> QED
      BY <3>1, <3>2
  <2>2. CallInv' /\ TimersAreOnStack' /\ SelectCoversTimers'
    BY <1>4 DEF ReadPipe
  <2> QED
    BY <2>1, <2>2, Zenon DEF TimerInv
<1>5. CASE Tick
  BY <1>5 DEF Tick
<1> HIDE DEF TimerInv
<1> QED
  BY <1>1, <1>2, <1>3, <1>4, <1>5, Zenon DEF event_timer_loop

\* The invariant holds throughout.
THEOREM TimerInvariance == Spec => []TimerInv
<1>1. TimerInv /\ [Next]_vars => TimerInv'
  <2> SUFFICES ASSUME TimerInv, [Next]_vars PROVE TimerInv'
    OBVIOUS
  <2>1. CASE Tick \/ event_timer_loop
    BY <2>1, LoopSteps
  <2>2. ASSUME NEW t \in Threads, StartCall(t) \/ Continue(t) PROVE TimerInv'
    BY <2>2, ThreadSteps
  <2>3. CASE UNCHANGED vars
    BY <2>3 DEF vars, timer, call, sleep, result, TimerInv, TypeInv, CallInv, Expired,
                TimersAreOnStack, SelectCoversTimers
  <2> QED
    BY <2>1, <2>2, <2>3 DEF Next
<1> QED
  BY TimerInit, <1>1, PTL DEF Spec

\* The tree never points into the frame of a call that has returned (que.c takes
\* the timer out on every way back), whatever the number of threads.
THEOREM TreeHoldsLiveFrames == Spec => []TimersAreOnStack
<1>1. TimerInv => TimersAreOnStack
  BY DEF TimerInv
<1> QED
  BY TimerInvariance, <1>1, PTL

\* event_timer_loop never sleeps past a timer, however add_timer, delete_timer and
\* the computation of the select timeout interleave.
THEOREM NeverOversleeps == Spec => []SelectCoversTimers
<1>1. TimerInv => SelectCoversTimers
  BY DEF TimerInv
<1> QED
  BY TimerInvariance, <1>1, PTL

\* A call that fails because of a signal has timed out itself, and says ETIMEDOUT:
\* a signal that came late for an earlier call of the thread has no effect.
THEOREM TimesOutByItself == Spec => []OnlyOwnTimeout
<1>1. TimerInv => OnlyOwnTimeout
  BY DEF TimerInv, TypeInv, CallInv, Expired, OnlyOwnTimeout, Errno
<1> QED
  BY TimerInvariance, <1>1, PTL
=============================================================================
