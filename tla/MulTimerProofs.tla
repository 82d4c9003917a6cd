--------------------------- MODULE MulTimerProofs ---------------------------
(***************************************************************************)
(* For any number of entries and procedures: the entries the handler of    *)
(* MulTimer counts are the complete work of one set_a_timer call, except   *)
(* one that a procedure took while it was being filled, and SIGALRM is     *)
(* fatal in destroy_mul_timer only.                                        *)
(***************************************************************************)
EXTENDS MulTimer, TLAPS

\* A cleared entry, and an entry with a field stored, are entries.
LEMMA EntryTypes ==
  /\ Zero \in Entries
  /\ \A e \in Entries :
       /\ \A p \in Procs : [e EXCEPT !.timer_proc = p] \in Entries
       /\ \A p \in Procs : [e EXCEPT !.func_arg = p] \in Entries
       /\ \A n \in Nat : [e EXCEPT !.interval = n] \in Entries
       /\ \A n \in Nat : [e EXCEPT !.elapse = n] \in Entries
       /\ [e EXCEPT !.state = 1] \in Entries
<1>1. Zero \in Entries
  BY DEF Zero, Entries
<1>2. ASSUME NEW e \in Entries, NEW p \in Procs
      PROVE [e EXCEPT !.timer_proc = p] \in Entries /\ [e EXCEPT !.func_arg = p] \in Entries
  BY DEF Entries
<1>3. ASSUME NEW e \in Entries, NEW n \in Nat
      PROVE [e EXCEPT !.interval = n] \in Entries /\ [e EXCEPT !.elapse = n] \in Entries
  BY DEF Entries
<1>4. ASSUME NEW e \in Entries PROVE [e EXCEPT !.state = 1] \in Entries
  BY DEF Entries
<1> QED
  BY <1>1, <1>2, <1>3, <1>4

\* The table is empty and the indices are 0.
LEMMA TypeInit == Init => TypeOK
<1> SUFFICES ASSUME Init PROVE TypeOK
  OBVIOUS
<1>1. timer_info \in [Slots -> Entries]
  BY EntryTypes DEF Init, Cleared
<1>2. 0 \in Slots
  BY MulTimerAssumption DEF Slots
<1> QED
  BY <1>1, <1>2 DEF Init, TypeOK

\* The next index of a loop over the table is in the table.
LEMMA NextSlot == \A s \in Slots : (s + 1 < Cnt => s + 1 \in Slots) /\ 0 \in Slots
  BY MulTimerAssumption DEF Slots

\* Storing an entry keeps the table a table.
LEMMA StoreType ==
  ASSUME TypeOK, NEW s \in Slots, NEW e \in Entries, Entry(s, e)
  PROVE  timer_info' \in [Slots -> Entries]
  BY DEF TypeOK, Entry

\* sig_func's loop variable and place after Onward.
LEMMA OnwardType == TypeOK /\ Onward => hpc' \in {"out", "loop", "call"} /\ k' \in Slots
  BY NextSlot DEF TypeOK, Onward

\* Every step keeps the types: no index leaves the table.
LEMMA TypeStep == TypeOK /\ [Next]_vars => TypeOK'
<1> SUFFICES ASSUME TypeOK, [Next]_vars PROVE TypeOK'
  OBVIOUS
<1> USE DEF TypeOK, At, Goto, kernel, manage, program, handler
<1>1. CASE init_mul_timer
  BY <1>1, EntryTypes DEF init_mul_timer, Cleared
<1>2. CASE InitSignal
  BY <1>2 DEF InitSignal
<1>3. CASE InitStart
  BY <1>3 DEF InitStart
<1>4. CASE destroy_mul_timer
  BY <1>4 DEF destroy_mul_timer
<1>5. CASE DestroyRestore
  BY <1>5 DEF DestroyRestore
<1>6. CASE DestroyClear
  BY <1>6, EntryTypes DEF DestroyClear, Cleared
<1>7. ASSUME NEW p \in Procs, set_a_timer(p) PROVE TypeOK'
  BY <1>7, NextSlot DEF set_a_timer
<1>8. CASE ScanOn
  BY <1>8, NextSlot DEF ScanOn
<1>9. CASE ScanFree
  BY <1>9 DEF ScanFree
<1>10. CASE SetClear
  <2>1. timer_info' \in [Slots -> Entries]
    BY <1>10, StoreType, EntryTypes, MulTimerAssumption DEF SetClear
  <2> QED
    BY <1>10, <2>1 DEF SetClear
<1>11. CASE SetProc
  <2>1. timer_info' \in [Slots -> Entries]
    BY <1>11, StoreType, EntryTypes, MulTimerAssumption DEF SetProc
  <2> QED
    BY <1>11, <2>1, MulTimerAssumption DEF SetProc
<1>12. CASE SetArg
  <2>1. timer_info' \in [Slots -> Entries]
    BY <1>12, StoreType, EntryTypes, MulTimerAssumption DEF SetArg
  <2> QED
    BY <1>12, <2>1 DEF SetArg
<1>13. CASE SetInterval
  <2>1. timer_info' \in [Slots -> Entries]
    BY <1>13, StoreType, EntryTypes, MulTimerAssumption DEF SetInterval
  <2> QED
    BY <1>13, <2>1 DEF SetInterval
<1>14. CASE SetElapse
  <2>1. timer_info' \in [Slots -> Entries]
    BY <1>14, StoreType, EntryTypes, MulTimerAssumption DEF SetElapse
  <2> QED
    BY <1>14, <2>1 DEF SetElapse
<1>15. CASE SetState
  <2>1. timer_info' \in [Slots -> Entries]
    BY <1>15, StoreType, EntryTypes, MulTimerAssumption DEF SetState
  <2> QED
    BY <1>15, <2>1 DEF SetState
<1>16. ASSUME NEW h \in Slots, del_a_timer(h) PROVE TypeOK'
  <2>1. timer_info' \in [Slots -> Entries]
    BY <1>16, StoreType, EntryTypes, MulTimerAssumption DEF del_a_timer
  <2> QED
    BY <1>16, <2>1 DEF del_a_timer
<1>17. CASE Tick
  BY <1>17 DEF Tick
<1>18. CASE Deliver
  BY <1>18, NextSlot DEF Deliver
<1>19. CASE SigSkip
  BY <1>19, OnwardType DEF SigSkip
<1>20. CASE SigCount
  <2>1. timer_info' \in [Slots -> Entries]
    <3>1. Counted(timer_info[k].elapse) \in Nat
      BY DEF Entries, Counted
    <3>2. \/ Entry(k, [timer_info[k] EXCEPT !.elapse = 0])
          \/ Entry(k, [timer_info[k] EXCEPT !.elapse = Counted(timer_info[k].elapse)])
      BY <1>20 DEF SigCount
    <3> QED
      BY <3>1, <3>2, StoreType, EntryTypes
  <2> QED
    BY <1>20, <2>1, OnwardType DEF SigCount
<1>21. CASE ProcReturns
  BY <1>21, OnwardType DEF ProcReturns
<1>25. CASE ProcNull
  BY <1>25 DEF ProcNull
<1>22. ASSUME NEW h \in Slots, ProcDeletes(h) PROVE TypeOK'
  <2>1. timer_info' \in [Slots -> Entries]
    BY <1>22, StoreType, EntryTypes, MulTimerAssumption DEF ProcDeletes
  <2> QED
    BY <1>22, <2>1, OnwardType DEF ProcDeletes, Touch
<1>23. ASSUME NEW p \in Procs, ProcSets(p) PROVE TypeOK'
  <2>1. PICK s \in Slots : Entry(s, IF Arg[p] = "long" THEN [Zero EXCEPT !.timer_proc = p]
                                   ELSE [state |-> 1, interval |-> Interval[p], elapse |-> 0,
                                         timer_proc |-> p,
                                         func_arg |-> IF Arg[p] = "null" THEN None ELSE p])
    BY <1>23 DEF ProcSets
  <2>2. timer_info' \in [Slots -> Entries]
    <3>1. [Zero EXCEPT !.timer_proc = p] \in Entries
      BY EntryTypes
    <3>2. [state |-> 1, interval |-> Interval[p], elapse |-> 0, timer_proc |-> p,
           func_arg |-> IF Arg[p] = "null" THEN None ELSE p] \in Entries
      BY MulTimerAssumption DEF Entries
    <3> QED
      BY <2>1, <3>1, <3>2, StoreType
  <2>3. touched' \subseteq Slots
    BY <1>23 DEF ProcSets, Touch
  <2> QED
    BY <1>23, <2>2, <2>3, OnwardType DEF ProcSets
<1>24. CASE UNCHANGED vars
  BY <1>24 DEF vars
<1> QED
  BY <1>1, <1>2, <1>3, <1>4, <1>5, <1>6, <1>7, <1>8, <1>9, <1>10, <1>11, <1>12, <1>13, <1>14,
     <1>15, <1>16, <1>17, <1>18, <1>19, <1>20, <1>21, <1>22, <1>23, <1>24, <1>25
  DEF Next, Library, sig_func

\* Types hold in every reachable state.
THEOREM TypeCorrect == Spec => []TypeOK
<1>1. Init => TypeOK
  BY TypeInit
<1>2. TypeOK /\ [Next]_vars => TypeOK'
  BY TypeStep
<1> QED
  BY <1>1, <1>2, PTL DEF Spec
-----------------------------------------------------------------------------
(***************************************************************************)
(* The entries.  EntriesAreWhole is inductive together with what           *)
(* set_a_timer has stored so far.                                          *)
(***************************************************************************)
TimerInv == TypeOK /\ EntriesAreWhole /\ FillingIsPrivate

\* One entry is stored: the others stay whole, and as touched as they were.
LEMMA StoreWhole ==
  ASSUME TypeOK, EntriesAreWhole, NEW s \in Slots, NEW e, Entry(s, e),
         touched \ {s} \subseteq touched',
         s \notin touched' => (e.state = 1 => Whole(e))
  PROVE  EntriesAreWhole'
<1> SUFFICES ASSUME NEW t \in Slots, t \notin touched', timer_info'[t].state = 1
             PROVE  Whole(timer_info'[t])
  BY DEF EntriesAreWhole
<1>1. CASE t = s
  BY <1>1 DEF TypeOK, Entry
<1>2. CASE t # s
  <2>1. timer_info'[t] = timer_info[t] /\ t \notin touched
    BY <1>2 DEF TypeOK, Entry
  <2> QED
    BY <2>1 DEF EntriesAreWhole
<1> QED
  BY <1>1, <1>2

\* Clearing an entry leaves nothing to be whole.
LEMMA ClearWhole ==
  ASSUME TypeOK, EntriesAreWhole, NEW s \in Slots, Entry(s, Zero), touched \ {s} \subseteq touched'
  PROVE  EntriesAreWhole'
  BY StoreWhole DEF Zero

\* A store in an entry other than the one that is being filled.
LEMMA StoreElsewhere ==
  ASSUME TypeOK, FillingIsPrivate, UNCHANGED program,
         NEW s \in Slots, s # i, NEW e, Entry(s, e), touched \ {s} \subseteq touched'
  PROVE  FillingIsPrivate'
<1>1. timer_info'[i] = timer_info[i] /\ (i \notin touched' => i \notin touched) /\ i' = i /\ mpc' = mpc /\ proc' = proc
  BY DEF TypeOK, Entry, program
<1> QED
  BY <1>1 DEF FillingIsPrivate, Filled

\* The program does not fill an entry after this step.
LEMMA NotFilling ==
  mpc' \notin {"proc", "arg", "interval", "elapse", "state"} => FillingIsPrivate'
  BY DEF FillingIsPrivate, Filled

\* A procedure's set or delete marks the entry that is being filled, and
\* unmarks any other.
LEMMA ProcStores ==
  ASSUME TimerInv, NEW s \in Slots, NEW e, Entry(s, e), Touch(s), UNCHANGED program,
         e.state = 1 => Whole(e)
  PROVE  EntriesAreWhole' /\ FillingIsPrivate'
<1>1. touched \ {s} \subseteq touched'
  BY DEF Touch
<1>2. EntriesAreWhole'
  BY <1>1, StoreWhole DEF TimerInv
<1>3. CASE Filling(s)
  BY <1>2, <1>3 DEF Touch, Filling, FillingIsPrivate, program
<1>4. CASE s # i
  BY <1>1, <1>2, <1>4, StoreElsewhere DEF TimerInv
<1>5. CASE mpc \notin {"proc", "arg", "interval", "elapse", "state"}
  BY <1>2, <1>5, NotFilling DEF program
<1> QED
  BY <1>3, <1>4, <1>5 DEF Filling

\* Every step of the program, the kernel and the handler keeps the invariant.
LEMMA TimerStep == TimerInv /\ [Next]_vars => TimerInv'
<1> SUFFICES ASSUME TimerInv, [Next]_vars PROVE TimerInv'
  OBVIOUS
<1>1. TypeOK /\ TypeOK'
  BY TypeStep DEF TimerInv
<1> USE <1>1 DEF TimerInv
<1> SUFFICES EntriesAreWhole' /\ FillingIsPrivate'
  OBVIOUS
<1>2. i \in Slots /\ k \in Slots /\ i' \in Slots
  BY DEF TypeOK
<1>3. CASE init_mul_timer \/ DestroyClear
  <2>1. \A s \in Slots : timer_info'[s].state = 0
    BY <1>3 DEF init_mul_timer, DestroyClear, Cleared, Zero
  <2> QED
    BY <1>3, <2>1, NotFilling DEF init_mul_timer, DestroyClear, EntriesAreWhole, Goto
<1>4. CASE InitSignal \/ InitStart \/ destroy_mul_timer \/ DestroyRestore \/ ScanOn \/ ScanFree
           \/ \E p \in Procs : set_a_timer(p)
  <2>1. /\ timer_info' = timer_info /\ touched' = touched
        /\ mpc' \notin {"proc", "arg", "interval", "elapse", "state"}
    BY <1>4 DEF InitSignal, InitStart, destroy_mul_timer, DestroyRestore, ScanOn, ScanFree,
                set_a_timer, Goto, At
  <2> QED
    BY <2>1, NotFilling DEF EntriesAreWhole, Whole
<1>5. CASE Tick \/ Deliver \/ SigSkip \/ ProcNull \/ ProcReturns \/ UNCHANGED vars
  <2>1. UNCHANGED <<timer_info, touched, mpc, proc, i>>
    BY <1>5 DEF Tick, Deliver, SigSkip, ProcNull, ProcReturns, vars, program
  <2> QED
    BY <2>1 DEF EntriesAreWhole, Whole, FillingIsPrivate, Filled
<1>6. ASSUME NEW h \in Slots, del_a_timer(h) PROVE EntriesAreWhole' /\ FillingIsPrivate'
  <2>1. Entry(h, Zero) /\ touched \ {h} \subseteq touched' /\ mpc' = "idle"
    BY <1>6 DEF del_a_timer, At, program
  <2> QED
    BY <2>1, ClearWhole, NotFilling
<1>7. ASSUME NEW h \in Slots, ProcDeletes(h) PROVE EntriesAreWhole' /\ FillingIsPrivate'
  <2>1. Entry(h, Zero) /\ Touch(h) /\ UNCHANGED program /\ Zero.state = 0
    BY <1>7 DEF ProcDeletes, Zero
  <2> QED
    BY <2>1, ProcStores
<1>8. ASSUME NEW p \in Procs, ProcSets(p) PROVE EntriesAreWhole' /\ FillingIsPrivate'
  <2> DEFINE e == IF Arg[p] = "long" THEN [Zero EXCEPT !.timer_proc = p]
                  ELSE [state |-> 1, interval |-> Interval[p], elapse |-> 0, timer_proc |-> p,
                        func_arg |-> IF Arg[p] = "null" THEN None ELSE p]
  <2>1. PICK s \in Slots : Entry(s, e) /\ Touch(s)
    BY <1>8 DEF ProcSets
  <2>2. e.state = 1 => Whole(e)
    <3>1. CASE Arg[p] = "long"
      BY <3>1 DEF Zero
    <3>2. CASE Arg[p] # "long"
      BY <3>2, MulTimerAssumption DEF Whole
    <3> QED
      BY <3>1, <3>2
  <2> HIDE DEF e
  <2>3. UNCHANGED program
    BY <1>8 DEF ProcSets
  <2> QED
    BY <2>1, <2>2, <2>3, ProcStores
<1>9. CASE SigCount
  <2> DEFINE n == Counted(timer_info[k].elapse)
             e == [timer_info[k] EXCEPT !.elapse = IF n = timer_info[k].interval THEN 0 ELSE n]
  <2>1. Entry(k, e) /\ UNCHANGED <<program, touched>> /\ timer_info[k].state = 1
    BY <1>9 DEF SigCount
  <2>2. timer_info[k] \in Entries
    BY <1>2 DEF TypeOK
  <2>3. k \notin touched' => Whole(e)
    <3> SUFFICES ASSUME k \notin touched PROVE Whole(e)
      BY <2>1
    <3>1. Whole(timer_info[k])
      BY <1>2, <2>1 DEF EntriesAreWhole
    <3>2. e.elapse < e.interval
      BY <2>2, <3>1 DEF Whole, Entries, Counted
    <3> QED
      BY <2>2, <3>1, <3>2 DEF Whole, Entries
  <2> HIDE DEF e
  <2>4. EntriesAreWhole'
    BY <1>2, <2>1, <2>3, StoreWhole
  <2>5. CASE k # i
    BY <1>2, <2>1, <2>4, <2>5, StoreElsewhere
  <2>6. CASE k = i
    BY <2>1, <2>4, <2>6, NotFilling DEF FillingIsPrivate, Filled, program
  <2> QED
    BY <2>4, <2>5, <2>6
<1>10. CASE SetClear
  <2>1. /\ Entry(i, Zero) /\ timer_info'[i] = Zero /\ i' = i /\ mpc' = "proc"
        /\ touched \ {i} \subseteq touched'
    BY <1>2, <1>10 DEF SetClear, Entry, Goto, TypeOK
  <2> QED
    BY <1>2, <2>1, ClearWhole DEF FillingIsPrivate, Filled, Zero
<1>11. CASE SetProc \/ SetArg \/ SetInterval \/ SetElapse
  <2>1. touched' = touched /\ i' = i
    BY <1>11 DEF SetProc, SetArg, SetInterval, SetElapse, Goto
  <2>2. PICK e : Entry(i, e) /\ (i \notin touched => e.state = 0)
    BY <1>2, <1>11 DEF SetProc, SetArg, SetInterval, SetElapse, At, FillingIsPrivate, Filled,
                      TypeOK, Entries
  <2>3. EntriesAreWhole'
    BY <1>2, <2>1, <2>2, StoreWhole
  <2>4. FillingIsPrivate'
    <3>1. CASE i \in touched
      BY <2>1, <3>1 DEF FillingIsPrivate
    <3>2. CASE i \notin touched
      BY <1>2, <1>11, <3>2, MulTimerAssumption
      DEF SetProc, SetArg, SetInterval, SetElapse, At, Goto, Entry, FillingIsPrivate, Filled,
          TypeOK, Entries
    <3> QED
      BY <3>1, <3>2
  <2> QED
    BY <2>3, <2>4
<1>12. CASE SetState
  <2> DEFINE e == [timer_info[i] EXCEPT !.state = 1]
  <2>1. proc \in Procs /\ timer_info[i] \in Entries
    BY <1>2, <1>12 DEF SetState, At, TypeOK
  <2>2. i \notin touched => Whole(e)
    BY <1>12, <2>1, MulTimerAssumption DEF SetState, At, FillingIsPrivate, Filled, Whole, Entries
  <2>3. Entry(i, e) /\ mpc' = "idle" /\ touched' = touched
    BY <1>12 DEF SetState, Goto
  <2> HIDE DEF e
  <2> QED
    BY <1>2, <2>2, <2>3, StoreWhole, NotFilling
<1> QED
  BY <1>3, <1>4, <1>5, <1>6, <1>7, <1>8, <1>9, <1>10, <1>11, <1>12 DEF Next, Library, sig_func

\* No entry is on initially, and set_a_timer is not running.
LEMMA TimerInit == Init => TimerInv
  BY TypeInit DEF Init, TimerInv, EntriesAreWhole, FillingIsPrivate, Filled, Cleared, Zero

\* The handler counts complete entries, whose elapse is below their interval,
\* for any table size and any timers, except an entry that a procedure set or
\* deleted while set_a_timer was filling it.
THEOREM EntriesWhole == Spec => []EntriesAreWhole
<1>1. Init => TimerInv
  BY TimerInit
<1>2. TimerInv /\ [Next]_vars => TimerInv'
  BY TimerStep
<1>3. TimerInv => EntriesAreWhole
  BY DEF TimerInv
<1> QED
  BY <1>1, <1>2, <1>3, PTL DEF Spec

\* The entry set_a_timer is filling holds what the call has stored, until a
\* procedure called by the handler sets or deletes that very entry.
THEOREM FillingPrivate == Spec => []FillingIsPrivate
<1>1. Init => TimerInv
  BY TimerInit
<1>2. TimerInv /\ [Next]_vars => TimerInv'
  BY TimerStep
<1>3. TimerInv => FillingIsPrivate
  BY DEF TimerInv
<1> QED
  BY <1>1, <1>2, <1>3, PTL DEF Spec
-----------------------------------------------------------------------------
(***************************************************************************)
(* The signal.  The timer runs, or a signal is pending, only while         *)
(* sig_func is installed, except between the two calls of                  *)
(* destroy_mul_timer; what is restored there obeys the same rule.          *)
(***************************************************************************)
SignalInv ==
  /\ itimer \/ pending => sigfunc = "sig_func" \/ mpc = "restore"
  /\ ovalue => old_sigfunc = "sig_func"
  /\ mpc = "signal" => ~ovalue
  /\ mpc = "start" => sigfunc = "sig_func"
  /\ mpc = "start" /\ itimer => old_sigfunc = "sig_func"
  /\ mpc = "restore" => sigfunc = old_sigfunc

\* The order of signal and setitimer in both calls keeps SignalInv.
LEMMA SignalStep == TypeOK /\ SignalInv /\ [Next]_vars => SignalInv'
<1> SUFFICES ASSUME TypeOK, SignalInv, [Next]_vars PROVE SignalInv'
  OBVIOUS
<1> USE DEF SignalInv, At, Goto, kernel, manage, program
<1>1. CASE init_mul_timer
  BY <1>1 DEF init_mul_timer
<1>2. CASE InitSignal
  BY <1>2 DEF InitSignal, TypeOK
<1>3. CASE InitStart
  BY <1>3 DEF InitStart, TypeOK
<1>4. CASE destroy_mul_timer
  BY <1>4 DEF destroy_mul_timer
<1>5. CASE DestroyRestore
  BY <1>5 DEF DestroyRestore
<1>6. CASE DestroyClear
  BY <1>6 DEF DestroyClear
<1>7. CASE \E p \in Procs : set_a_timer(p)
  BY <1>7 DEF set_a_timer
<1>8. CASE ScanOn \/ ScanFree \/ SetClear \/ SetProc \/ SetArg \/ SetInterval \/ SetElapse \/ SetState
  <2>1. /\ UNCHANGED <<kernel, manage, pending>>
        /\ mpc \notin {"restore", "signal", "start"} /\ mpc' \notin {"restore", "signal", "start"}
    BY <1>8, MulTimerAssumption
    DEF ScanOn, ScanFree, SetClear, SetProc, SetArg, SetInterval, SetElapse, SetState, TypeOK
  <2> QED
    BY <2>1
<1>9. CASE Tick
  BY <1>9 DEF Tick
<1>10. CASE Deliver
  <2>1. CASE sigfunc = "sig_func"
    BY <1>10, <2>1 DEF Deliver
  <2>2. CASE sigfunc # "sig_func"
    <3>1. mpc = "restore" /\ UNCHANGED <<kernel, manage, program>>
      BY <1>10, <2>2 DEF Deliver
    <3> QED
      BY <3>1
  <2> QED
    BY <2>1, <2>2
<1>11. CASE \/ SigSkip \/ SigCount \/ ProcNull \/ ProcReturns \/ \E p \in Procs : ProcSets(p)
            \/ \E h \in Slots : del_a_timer(h) \/ ProcDeletes(h)
  <2>1. UNCHANGED <<kernel, manage, pending, program>>
    BY <1>11 DEF SigSkip, SigCount, ProcNull, ProcReturns, ProcSets, del_a_timer, ProcDeletes
  <2> QED
    BY <2>1
<1>12. CASE UNCHANGED vars
  BY <1>12 DEF vars
<1> QED
  BY <1>1, <1>2, <1>3, <1>4, <1>5, <1>6, <1>7, <1>8, <1>9, <1>10, <1>11, <1>12
  DEF Next, Library, sig_func

\* What is known of a process that has ended, and of an entry whose procedure
\* is called.
DeathInv ==
  /\ ~alive => mpc = "restore" \/ (hpc = "call" /\ k \in touched)
  /\ hpc = "call" => timer_info[k].state = 1

\* A process ends in Deliver or in ProcNull, and does nothing after.
LEMMA DeathStep == TimerInv /\ SignalInv /\ DeathInv /\ [Next]_vars => DeathInv'
<1> SUFFICES ASSUME TimerInv, SignalInv, DeathInv, [Next]_vars PROVE DeathInv'
  OBVIOUS
<1>1. TypeOK /\ k \in Slots
  BY DEF TimerInv, TypeOK
<1>2. CASE Library \/ init_mul_timer \/ destroy_mul_timer \/ (\E p \in Procs : set_a_timer(p))
           \/ \E h \in Slots : del_a_timer(h)
  <2>1. alive' /\ hpc' = "out"
    BY <1>2 DEF Library, init_mul_timer, destroy_mul_timer, set_a_timer, del_a_timer, InitSignal,
       InitStart, DestroyRestore, DestroyClear, ScanOn, ScanFree, SetClear, SetProc, SetArg,
       SetInterval, SetElapse, SetState, At, handler
  <2> QED
    BY <2>1 DEF DeathInv
<1>3. CASE Tick
  BY <1>3 DEF Tick, DeathInv, handler, program
<1>4. CASE Deliver
  <2>1. hpc' # "call" /\ alive /\ (sigfunc = "sig_func" => alive' = alive) /\ pending /\ UNCHANGED program
    BY <1>4 DEF Deliver, handler
  <2>2. CASE sigfunc = "sig_func"
    BY <2>1, <2>2 DEF DeathInv
  <2>3. CASE sigfunc # "sig_func"
    BY <2>1, <2>3 DEF DeathInv, SignalInv, program
  <2> QED
    BY <2>2, <2>3
<1>5. CASE SigCount
  <2>1. PICK n : Entry(k, [timer_info[k] EXCEPT !.elapse = n])
    BY <1>5 DEF SigCount
  <2>2. alive' /\ (hpc' = "call" => k' = k /\ timer_info[k].state = 1)
    BY <1>5 DEF SigCount, Onward
  <2>3. timer_info'[k].state = timer_info[k].state
    BY <1>1, <2>1 DEF Entry, TypeOK, Entries
  <2> QED
    BY <2>2, <2>3 DEF DeathInv
<1>6. CASE ProcNull
  <2>1. hpc = "call" /\ timer_info[k].timer_proc = None /\ UNCHANGED <<timer_info, hpc, k, touched>>
    BY <1>6 DEF ProcNull, handler
  <2>2. timer_info[k].state = 1
    BY <2>1 DEF DeathInv
  <2>3. k \in touched
    BY <1>1, <2>1, <2>2, MulTimerAssumption DEF TimerInv, EntriesAreWhole, Whole
  <2> QED
    BY <2>1, <2>2, <2>3 DEF DeathInv
<1>7. CASE SigSkip \/ ProcReturns \/ (\E p \in Procs : ProcSets(p)) \/ \E h \in Slots : ProcDeletes(h)
  <2>1. alive' /\ hpc' # "call"
    <3>1. Onward /\ alive /\ alive' = alive
      BY <1>7 DEF SigSkip, ProcReturns, ProcSets, ProcDeletes, InProc
    <3> QED
      BY <3>1 DEF Onward
  <2> QED
    BY <2>1 DEF DeathInv
<1>8. CASE UNCHANGED vars
  BY <1>8 DEF vars, DeathInv, handler, program
<1> QED
  BY <1>2, <1>3, <1>4, <1>5, <1>6, <1>7, <1>8 DEF Next, sig_func

\* SIGALRM ends the process only between signal and setitimer in
\* destroy_mul_timer, however init and destroy are nested, and a null pointer
\* is called only for an entry that a procedure deleted while it was filled.
THEOREM KilledInDestroy == Spec => []KilledOnlyInDestroy
<1>1. Init => TimerInv /\ SignalInv /\ DeathInv
  BY TimerInit DEF Init, SignalInv, DeathInv
<1>2. TimerInv /\ SignalInv /\ DeathInv /\ [Next]_vars => TimerInv' /\ SignalInv' /\ DeathInv'
  BY TimerStep, SignalStep, DeathStep DEF TimerInv
<1>3. DeathInv => KilledOnlyInDestroy
  BY DEF DeathInv, KilledOnlyInDestroy
<1> QED
  BY <1>1, <1>2, <1>3, PTL DEF Spec
=============================================================================
