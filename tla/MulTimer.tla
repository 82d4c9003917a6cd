------------------------------ MODULE MulTimer ------------------------------
(***************************************************************************)
(* The timers of apps/mul_timer/mul_timer.c: a table of timers driven by   *)
(* SIGALRM.  There are no threads; the signal handler sig_func interrupts  *)
(* the program between any two stores, runs to its end with the signal     *)
(* blocked, and calls the procedures of the timers that are due, which may *)
(* themselves set and delete timers.                                       *)
(*                                                                         *)
(* The stores of set_a_timer are separate steps, in the order of the code. *)
(* A memset of one entry is one step: the store that clears state clears   *)
(* the fields the handler reads with it.                                   *)
(***************************************************************************)
EXTENDS Naturals

CONSTANTS Cnt,       \* MAX_TIMER_CNT
          Procs,     \* what set_a_timer is called with: a procedure,
          Interval,  \* its interval,
          Arg,       \* and its argument: "null", "fits" or "long"
          None,
          MaxElapse  \* bound on elapse, of entries whose interval was passed

ASSUME MulTimerAssumption ==
  /\ Cnt \in Nat \ {0}
  /\ Interval \in [Procs -> Nat \ {0}]
  /\ Arg \in [Procs -> {"null", "fits", "long"}]
  /\ None \notin Procs
  /\ MaxElapse \in Nat /\ \A p \in Procs : Interval[p] < MaxElapse

Slots == 0..(Cnt - 1)

VARIABLES
  timer_info,        \* the table
  sigfunc, itimer,   \* disposition of SIGALRM, ITIMER_REAL running
  old_sigfunc, ovalue,
  pending,           \* SIGALRM is pending
  mpc, proc, i,      \* the program: place, and arguments of set_a_timer
  hpc, k,            \* sig_func: place and loop variable
  alive,             \* the process runs
  touched            \* entries a procedure set or deleted while set_a_timer was filling them

manage == <<old_sigfunc, ovalue>>
kernel == <<sigfunc, itimer>>
program == <<mpc, proc, i>>
handler == <<hpc, k>>
vars == <<timer_info, kernel, manage, pending, program, handler, alive, touched>>

Zero == [state |-> 0, interval |-> 0, elapse |-> 0, timer_proc |-> None, func_arg |-> None]
Cleared == [s \in Slots |-> Zero]

Init ==
  /\ timer_info = Cleared
  /\ sigfunc = "SIG_DFL" /\ itimer = FALSE
  /\ old_sigfunc = "SIG_DFL" /\ ovalue = FALSE
  /\ pending = FALSE
  /\ mpc = "idle" /\ proc = None /\ i = 0
  /\ hpc = "out" /\ k = 0
  /\ alive = TRUE /\ touched = {}

\* A signal that is not blocked is delivered before the program goes on, and
\* the program waits for the handler.
At(place) == alive /\ hpc = "out" /\ ~pending /\ mpc = place
Goto(place) == mpc' = place /\ UNCHANGED <<proc, i>>
Entry(s, e) == timer_info' = [timer_info EXCEPT ![s] = e]
-----------------------------------------------------------------------------
(***************************************************************************)
(* init_mul_timer: memset, signal, setitimer.                              *)
(***************************************************************************)
init_mul_timer ==
  /\ At("idle")
  /\ timer_info' = Cleared
  /\ old_sigfunc' = "SIG_DFL" /\ ovalue' = FALSE
  /\ touched' = {}
  /\ Goto("signal")
  /\ UNCHANGED <<kernel, pending, handler, alive>>

\* Mutant: the timer is started first.
MUT_InitSignal ==
  /\ At("signal")
  /\ ovalue' = itimer /\ itimer' = TRUE
  /\ Goto("start")
  /\ UNCHANGED <<timer_info, sigfunc, old_sigfunc, pending, handler, alive, touched>>

InitSignal ==
  /\ At("signal")
  /\ old_sigfunc' = sigfunc /\ sigfunc' = "sig_func"
  /\ Goto("start")
  /\ UNCHANGED <<timer_info, itimer, ovalue, pending, handler, alive, touched>>

InitStart ==
  /\ At("start")
  /\ ovalue' = itimer /\ itimer' = TRUE
  /\ Goto("idle")
  /\ UNCHANGED <<timer_info, sigfunc, old_sigfunc, pending, handler, alive, touched>>

(***************************************************************************)
(* destroy_mul_timer: signal, setitimer, memset.                           *)
(***************************************************************************)
destroy_mul_timer ==
  /\ At("idle")
  /\ sigfunc' = old_sigfunc
  /\ Goto("restore")
  /\ UNCHANGED <<timer_info, itimer, manage, pending, handler, alive, touched>>

DestroyRestore ==
  /\ At("restore")
  /\ itimer' = ovalue
  /\ Goto("clear")
  /\ UNCHANGED <<timer_info, sigfunc, manage, pending, handler, alive, touched>>

DestroyClear ==
  /\ At("clear")
  /\ timer_info' = Cleared
  /\ old_sigfunc' = "SIG_DFL" /\ ovalue' = FALSE
  /\ touched' = {}
  /\ Goto("idle")
  /\ UNCHANGED <<kernel, pending, handler, alive>>
-----------------------------------------------------------------------------
(***************************************************************************)
(* set_a_timer(Interval[p], p, ...).                                       *)
(***************************************************************************)
set_a_timer(p) ==
  /\ At("idle")
  /\ mpc' = "scan" /\ proc' = p /\ i' = 0
  /\ UNCHANGED <<timer_info, kernel, manage, pending, handler, alive, touched>>

\* The entry is in use: on to the next one, or -1.
ScanOn ==
  /\ At("scan") /\ timer_info[i].state = 1
  /\ IF i + 1 < Cnt THEN mpc' = mpc /\ i' = i + 1 ELSE mpc' = "idle" /\ i' = 0
  /\ UNCHANGED <<timer_info, kernel, manage, pending, proc, handler, alive, touched>>

ScanFree ==
  /\ At("scan") /\ timer_info[i].state = 0
  /\ Goto("memset")
  /\ UNCHANGED <<timer_info, kernel, manage, pending, handler, alive, touched>>

SetClear ==
  /\ At("memset")
  /\ Entry(i, Zero) /\ touched' = touched \ {i}
  /\ Goto("proc")
  /\ UNCHANGED <<kernel, manage, pending, handler, alive>>

\* An argument that is too long ends the call with -1.
SetProc ==
  /\ At("proc")
  /\ Entry(i, [timer_info[i] EXCEPT !.timer_proc = proc])
  /\ Goto(CASE Arg[proc] = "null" -> "interval"
            [] Arg[proc] = "fits" -> "arg"
            [] Arg[proc] = "long" -> "idle")
  /\ UNCHANGED <<kernel, manage, pending, handler, alive, touched>>

SetArg ==
  /\ At("arg")
  /\ Entry(i, [timer_info[i] EXCEPT !.func_arg = proc])
  /\ Goto("interval")
  /\ UNCHANGED <<kernel, manage, pending, handler, alive, touched>>

SetInterval ==
  /\ At("interval")
  /\ Entry(i, [timer_info[i] EXCEPT !.interval = Interval[proc]])
  /\ Goto("elapse")
  /\ UNCHANGED <<kernel, manage, pending, handler, alive, touched>>

SetElapse ==
  /\ At("elapse")
  /\ Entry(i, [timer_info[i] EXCEPT !.elapse = 0])
  /\ Goto("state")
  /\ UNCHANGED <<kernel, manage, pending, handler, alive, touched>>

SetState ==
  /\ At("state")
  /\ Entry(i, [timer_info[i] EXCEPT !.state = 1])
  /\ Goto("idle")
  /\ UNCHANGED <<kernel, manage, pending, handler, alive, touched>>

del_a_timer(h) ==
  /\ At("idle")
  /\ Entry(h, Zero) /\ touched' = touched \ {h}
  /\ UNCHANGED <<kernel, manage, pending, program, handler, alive>>
-----------------------------------------------------------------------------
(***************************************************************************)
(* The signal: a tick makes it pending, and it is delivered when it is not *)
(* blocked.  The default disposition ends the process.                     *)
(***************************************************************************)
Tick ==
  /\ alive /\ itimer /\ ~pending
  /\ pending' = TRUE
  /\ UNCHANGED <<timer_info, kernel, manage, program, handler, alive, touched>>

Deliver ==
  /\ alive /\ hpc = "out" /\ pending
  /\ pending' = FALSE
  /\ IF sigfunc = "sig_func"
     THEN hpc' = "loop" /\ k' = 0 /\ UNCHANGED alive
     ELSE alive' = FALSE /\ UNCHANGED handler
  /\ UNCHANGED <<timer_info, kernel, manage, program, touched>>

\* Mutant: the last entry is left out.
MUT_Onward == IF k + 2 < Cnt THEN hpc' = "loop" /\ k' = k + 1 ELSE hpc' = "out" /\ k' = 0

Onward == IF k + 1 < Cnt THEN hpc' = "loop" /\ k' = k + 1 ELSE hpc' = "out" /\ k' = 0

SigSkip ==
  /\ alive /\ hpc = "loop" /\ timer_info[k].state = 0
  /\ Onward
  /\ UNCHANGED <<timer_info, kernel, manage, pending, program, alive, touched>>

\* elapse++, up to the bound: an entry whose interval was passed is never due.
Counted(n) == IF n < MaxElapse THEN n + 1 ELSE n

\* Mutant: elapse is not set back.
MUT_SigCount ==
  /\ alive /\ hpc = "loop" /\ timer_info[k].state = 1
  /\ LET e == Counted(timer_info[k].elapse) IN
     IF e = timer_info[k].interval
     THEN Entry(k, [timer_info[k] EXCEPT !.elapse = e]) /\ hpc' = "call" /\ k' = k
     ELSE Entry(k, [timer_info[k] EXCEPT !.elapse = e]) /\ Onward
  /\ UNCHANGED <<kernel, manage, pending, program, alive, touched>>

SigCount ==
  /\ alive /\ hpc = "loop" /\ timer_info[k].state = 1
  /\ LET e == Counted(timer_info[k].elapse) IN
     IF e = timer_info[k].interval
     THEN Entry(k, [timer_info[k] EXCEPT !.elapse = 0]) /\ hpc' = "call" /\ k' = k
     ELSE Entry(k, [timer_info[k] EXCEPT !.elapse = e]) /\ Onward
  /\ UNCHANGED <<kernel, manage, pending, program, alive, touched>>

\* The procedure of entry k is called, unless the pointer is null.
InProc == alive /\ hpc = "call" /\ timer_info[k].timer_proc # None

ProcNull ==
  /\ alive /\ hpc = "call" /\ timer_info[k].timer_proc = None
  /\ alive' = FALSE
  /\ UNCHANGED <<timer_info, kernel, manage, pending, program, handler, touched>>

ProcReturns ==
  /\ InProc
  /\ Onward
  /\ UNCHANGED <<timer_info, kernel, manage, pending, program, alive, touched>>

\* set_a_timer has cleared the entry and not yet switched it on.
Filling(s) == s = i /\ mpc \in {"proc", "arg", "interval", "elapse", "state"}
Touch(s) == touched' = IF Filling(s) THEN touched \cup {s} ELSE touched \ {s}

\* Nothing interrupts the handler: what a procedure calls is one step.
ProcDeletes(h) ==
  /\ InProc
  /\ Entry(h, Zero) /\ Touch(h)
  /\ Onward
  /\ UNCHANGED <<kernel, manage, pending, program, alive>>

ProcSets(p) ==
  /\ InProc
  /\ \E s \in Slots :
       /\ timer_info[s].state = 0 /\ \A t \in 0..(s - 1) : timer_info[t].state = 1
       /\ Entry(s, IF Arg[p] = "long" THEN [Zero EXCEPT !.timer_proc = p]
                   ELSE [state |-> 1, interval |-> Interval[p], elapse |-> 0, timer_proc |-> p,
                         func_arg |-> IF Arg[p] = "null" THEN None ELSE p])
       /\ Touch(s)
  /\ Onward
  /\ UNCHANGED <<kernel, manage, pending, program, alive>>
-----------------------------------------------------------------------------
Library == \/ InitSignal \/ InitStart \/ DestroyRestore \/ DestroyClear
           \/ ScanOn \/ ScanFree \/ SetClear \/ SetProc \/ SetArg
           \/ SetInterval \/ SetElapse \/ SetState

sig_func == SigSkip \/ SigCount \/ ProcNull \/ ProcReturns

Next == \/ init_mul_timer \/ destroy_mul_timer \/ Library
        \/ \E p \in Procs : set_a_timer(p) \/ ProcSets(p)
        \/ \E h \in Slots : del_a_timer(h) \/ ProcDeletes(h)
        \/ Tick \/ Deliver \/ sig_func

Spec == Init /\ [][Next]_vars

\* Ticks come, signals are delivered, and the handler runs to its end.
Fairness == /\ WF_vars(Tick) /\ WF_vars(Deliver)
            /\ WF_vars(sig_func) /\ WF_vars(Library)

FairSpec == Spec /\ Fairness
-----------------------------------------------------------------------------
Entries == [state : {0, 1}, interval : Nat, elapse : Nat,
            timer_proc : Procs \cup {None}, func_arg : Procs \cup {None}]

\* Every variable has its type; no index leaves the table.
TypeOK ==
  /\ timer_info \in [Slots -> Entries]
  /\ sigfunc \in {"SIG_DFL", "sig_func"} /\ old_sigfunc \in {"SIG_DFL", "sig_func"}
  /\ itimer \in BOOLEAN /\ ovalue \in BOOLEAN /\ pending \in BOOLEAN
  /\ mpc \in {"idle", "signal", "start", "restore", "clear", "scan", "memset", "proc", "arg",
              "interval", "elapse", "state"}
  /\ proc \in Procs \cup {None} /\ i \in Slots
  /\ mpc \in {"scan", "memset", "proc", "arg", "interval", "elapse", "state"} => proc \in Procs
  /\ hpc \in {"out", "loop", "call"} /\ k \in Slots
  /\ alive \in BOOLEAN /\ touched \subseteq Slots

\* A complete entry: what one call stores, with elapse not yet at interval.
Whole(e) ==
  /\ e.timer_proc \in Procs
  /\ Arg[e.timer_proc] # "long"
  /\ e.func_arg = (IF Arg[e.timer_proc] = "null" THEN None ELSE e.timer_proc)
  /\ e.interval = Interval[e.timer_proc]
  /\ e.elapse < e.interval

\* An entry the handler counts is the work of one set_a_timer call, and its
\* elapse is less than its interval, so that it will be due ("0~interval" in
\* mul_timer.h).  The exception is an entry that a procedure, called by the
\* handler, set or deleted while the program was filling it: two calls share
\* it then, until it is cleared.  The damage is confined to that entry.
EntriesAreWhole ==
  \A s \in Slots \ touched : timer_info[s].state = 1 => Whole(timer_info[s])

\* What set_a_timer has stored in its entry when it has come to mpc.
Filled(e) ==
  /\ mpc \in {"proc", "arg", "interval", "elapse", "state"} => e.state = 0 /\ e.elapse = 0
  /\ mpc \in {"proc", "arg"} => e.func_arg = None
  /\ mpc = "arg" => e.timer_proc = proc /\ Arg[proc] = "fits"
  /\ mpc \in {"interval", "elapse", "state"} =>
       /\ e.timer_proc = proc /\ Arg[proc] # "long"
       /\ e.func_arg = (IF Arg[proc] = "null" THEN None ELSE proc)
  /\ mpc \in {"elapse", "state"} => e.interval = Interval[proc]

\* The entry that set_a_timer is filling stays off and holds exactly what the
\* call has stored so far, until a procedure called by the handler sets or
\* deletes that very entry: sig_func itself leaves it alone.
FillingIsPrivate == i \notin touched => Filled(timer_info[i])

\* SIGALRM ends the process only if it comes in destroy_mul_timer, after
\* signal and before setitimer, and not while timers are being set up or run;
\* and sig_func calls a null pointer only for an entry that a procedure deleted
\* while set_a_timer was filling it.
KilledOnlyInDestroy == ~alive => mpc = "restore" \/ (hpc = "call" /\ k \in touched)

\* A timer that is set is called, unless its entry is cleared, or shared by
\* two calls, or the timers stop.
SetTimersAreCalled ==
  \A s \in Slots :
    (timer_info[s].state = 1) ~> \/ hpc = "call" /\ k = s
                                 \/ timer_info[s].state = 0
                                 \/ s \in touched
                                 \/ ~itimer \/ ~alive
=============================================================================
