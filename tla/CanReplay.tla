----------------------------- MODULE CanReplay ------------------------------
(***************************************************************************)
(* The CAN replay server of apps/udp/server/udp_server.c.  The main thread *)
(* takes commands; the n-th accepted START creates message queue n, send   *)
(* thread n and parse thread n.  The parse thread reads a file of frames   *)
(* and queues those of a time window, the send thread takes them out; they *)
(* communicate through server_state, a semaphore and g_cmd_buf, without a  *)
(* lock.  Cancellation is deferred to the calls that can block.            *)
(*                                                                         *)
(* A command datagram gives times in ms, and the main thread multiplies    *)
(* them in place, while a parse thread may be reading them.                *)
(***************************************************************************)
EXTENDS Naturals, Sequences

CONSTANTS Files,      \* sequences of lines: [kind : {"bad", "can1", "other"}, ts : Nat]
          Beg, End,   \* the window of the commands, in ms
          Factor,     \* us per ms (1000)
          QueueCap,   \* frames that fit MAX_MSG_BYTES
          MaxStarts,  \* bound on accepted STARTs
          MaxLines,   \* bound on the lines of the files of two STARTs
          MaxCmds     \* bound on commands

ASSUME ReplayAssumption ==
  /\ Files \subseteq Seq([kind : {"bad", "can1", "other"}, ts : Nat])
  /\ Beg \in Nat /\ End \in Nat /\ Factor \in Nat \ {0}
  /\ QueueCap \in Nat \ {0} /\ MaxStarts \in Nat \ {0} /\ MaxLines \in Nat /\ MaxCmds \in Nat

Starts == 1..MaxStarts
Commands == {"START", "STOP", "PAUSE", "RESUME"}

VARIABLES
  server_state,  \* "IDEL", "START" or "PAUSE"
  mpc, cmd,      \* the main thread and the command in hand
  raw,           \* the times in g_cmd_buf are still in ms
  pause_sem,
  msqid,         \* the queue g_msqid denotes, 0 for none
  queue,         \* the contents of every queue
  removed,       \* queues that were removed
  replay, vci,   \* g_replay_can_thread and vci_thread: the start each belongs to, or 0
  starts, cmds,  \* numbers of STARTs that made a queue and of commands
  ppc, pos,      \* parse threads: place, lines read
  can_item,      \* g_data_buf, which all parse threads share
  fp,            \* the file a parse thread finds under the name in g_cmd_buf
  spc, at,       \* send threads: place, queue of the msgrcv
  cancelled,     \* threads that were asked to stop
  joined,        \* parse threads that were joined
  sent,          \* frames every start's queue has delivered
  overlap,       \* a START was not refused while a parse thread was alive
  torn,          \* a parse thread used times while they were in ms
  early,         \* RESUMEs of this replay that found no pause of the parse thread to end
  undone,        \* pauses of this replay that ended without a RESUME of their own
  answered       \* the pause the parse thread is in got its RESUME

main   == <<server_state, mpc, cmd, raw, replay, vci, starts, cmds>>
parser == <<ppc, pos, can_item, fp>>
sender == <<spc, at>>
account == <<early, undone, answered>>
ghosts == <<sent, overlap, torn, account>>
vars == <<main, pause_sem, msqid, queue, removed, parser, sender, cancelled, joined, ghosts>>

Init ==
  /\ server_state = "IDEL" /\ mpc = "recv" /\ cmd = "STOP" /\ raw = FALSE
  /\ replay = 0 /\ vci = 0 /\ starts = 0 /\ cmds = 0
  /\ pause_sem = 0 /\ msqid = 0
  /\ queue = [n \in Starts |-> <<>>] /\ removed = {}
  /\ ppc = [n \in Starts |-> "none"] /\ pos = [n \in Starts |-> 0]
  /\ spc = [n \in Starts |-> "none"] /\ at = [n \in Starts |-> 0]
  /\ cancelled = {} /\ joined = {}
  /\ can_item = [kind |-> "bad", ts |-> 0] /\ fp = [n \in Starts |-> <<>>]
  /\ sent = [n \in Starts |-> <<>>]
  /\ overlap = FALSE /\ torn = FALSE
  /\ early = 0 /\ undone = 0 /\ answered = FALSE

\* Where a parse thread that is not running is.
Ended == {"none", "done", "nofile", "cancelled"}
Parsing == \E n \in Starts : ppc[n] \notin Ended
-----------------------------------------------------------------------------
(***************************************************************************)
(* The main thread: recvfrom overwrites g_cmd_buf, convert_ms_to_us        *)
(* converts it, cmd_handle dispatches.                                     *)
(***************************************************************************)
Receive(c) ==
  /\ mpc = "recv" /\ cmds < MaxCmds
  /\ cmd' = c /\ cmds' = cmds + 1
  /\ raw' = TRUE /\ mpc' = "convert"
  /\ UNCHANGED <<server_state, replay, vci, starts, pause_sem, msqid, queue, removed, parser, sender, cancelled, joined, ghosts>>

convert_ms_to_us ==
  /\ mpc = "convert"
  /\ raw' = FALSE /\ mpc' = "handle"
  /\ UNCHANGED <<server_state, cmd, replay, vci, starts, cmds, pause_sem, msqid, queue, removed, parser, sender, cancelled, joined, ghosts>>

Handling(c) == mpc = "handle" /\ cmd = c
Running == server_state \in {"PAUSE", "START"}

\* "status error": the command does not fit the state.
Refuse ==
  /\ \/ Handling("START") /\ server_state # "IDEL"
     \/ Handling("STOP") /\ ~Running
     \/ Handling("PAUSE") /\ server_state # "START"
     \/ Handling("RESUME") /\ server_state # "PAUSE"
  /\ mpc' = "recv"
  /\ UNCHANGED <<server_state, cmd, raw, replay, vci, starts, cmds, pause_sem, msqid, queue, removed, parser, sender, cancelled, joined, ghosts>>

FitsBound(f) == Len(f) <= MaxLines /\ \A n \in 1..starts : Len(fp[n]) + Len(f) <= MaxLines

\* Mutant: the semaphore is only initialised once, by main.
MUT_cmd_start_handle ==
  /\ Handling("START") /\ server_state = "IDEL" /\ starts < MaxStarts
  /\ UNCHANGED pause_sem
  /\ early' = 0 /\ undone' = 0 /\ answered' = FALSE
  /\ starts' = starts + 1
  /\ LET n == starts + 1 IN
     /\ msqid' = n /\ replay' = n /\ vci' = n
     /\ \E f \in Files : FitsBound(f) /\ fp' = [fp EXCEPT ![n] = f]
     /\ spc' = [spc EXCEPT ![n] = "call"]
     /\ ppc' = [ppc EXCEPT ![n] = "open"]
  /\ overlap' = (overlap \/ Parsing)
  /\ mpc' = "recv"
  /\ UNCHANGED <<server_state, cmd, raw, cmds, queue, removed, pos, can_item, at, cancelled, joined, sent, torn>>

cmd_start_handle ==
  /\ Handling("START") /\ server_state = "IDEL" /\ starts < MaxStarts
  /\ pause_sem' = 0
  /\ early' = 0 /\ undone' = 0 /\ answered' = FALSE
  /\ starts' = starts + 1
  /\ LET n == starts + 1 IN
     /\ msqid' = n /\ replay' = n /\ vci' = n
     /\ \E f \in Files : FitsBound(f) /\ fp' = [fp EXCEPT ![n] = f]
     /\ spc' = [spc EXCEPT ![n] = "call"]
     /\ ppc' = [ppc EXCEPT ![n] = "open"]
  /\ overlap' = (overlap \/ Parsing)
  /\ mpc' = "recv"
  /\ UNCHANGED <<server_state, cmd, raw, cmds, queue, removed, pos, can_item, at, cancelled, joined, sent, torn>>

\* msgget fails: there is no queue, and no threads are created.
StartFails ==
  /\ Handling("START") /\ server_state = "IDEL"
  /\ pause_sem' = 0 /\ msqid' = 0
  /\ early' = 0 /\ undone' = 0 /\ answered' = FALSE
  /\ overlap' = (overlap \/ Parsing)
  /\ mpc' = "recv"
  /\ UNCHANGED <<server_state, cmd, raw, replay, vci, starts, cmds, queue, removed, parser, sender, cancelled, joined, sent, torn>>

\* msgctl fails: g_msqid is a new queue, which no thread serves.
StartLeaks ==
  /\ Handling("START") /\ server_state = "IDEL" /\ starts < MaxStarts
  /\ pause_sem' = 0 /\ msqid' = starts + 1 /\ starts' = starts + 1
  /\ early' = 0 /\ undone' = 0 /\ answered' = FALSE
  /\ overlap' = (overlap \/ Parsing)
  /\ mpc' = "recv"
  /\ UNCHANGED <<server_state, cmd, raw, replay, vci, cmds, queue, removed, parser, sender, cancelled, joined, sent, torn>>

cmd_pause_handle ==
  /\ Handling("PAUSE") /\ server_state = "START"
  /\ server_state' = "PAUSE" /\ mpc' = "recv"
  /\ UNCHANGED <<cmd, raw, replay, vci, starts, cmds, pause_sem, msqid, queue, removed, parser, sender, cancelled, joined, ghosts>>

cmd_resume_handle ==
  /\ Handling("RESUME") /\ server_state = "PAUSE"
  /\ server_state' = "START" /\ mpc' = "post"
  /\ UNCHANGED <<cmd, raw, replay, vci, starts, cmds, pause_sem, msqid, queue, removed, parser, sender, cancelled, joined, ghosts>>

\* The parse thread has seen STATE_PAUSE and has yet to pass its sem_wait.
Held == \E n \in Starts : ppc[n] \in {"reply", "wait"}

\* The sem_post at the end of cmd_resume_handle.
ResumePost ==
  /\ mpc = "post"
  /\ pause_sem' = pause_sem + 1
  /\ IF Held /\ ~answered THEN answered' = TRUE /\ UNCHANGED early
                          ELSE early' = early + 1 /\ UNCHANGED answered
  /\ mpc' = "recv"
  /\ UNCHANGED <<server_state, cmd, raw, replay, vci, starts, cmds, msqid, queue, removed, parser, sender, cancelled, joined, sent, overlap, torn, undone>>

(***************************************************************************)
(* cmd_stop_handle: cancel and join the parse thread, then the send        *)
(* thread, then remove the queue.  Cancelling a g_replay_can_thread that   *)
(* is 0 or was joined before is undefined, and the behaviour ends there.   *)
(***************************************************************************)
cmd_stop_handle ==
  /\ Handling("STOP") /\ Running
  /\ IF replay \in {0} \cup joined
     THEN /\ mpc' = "undefined" /\ UNCHANGED cancelled
     ELSE /\ mpc' = "joinParser" /\ cancelled' = cancelled \cup {<<"parse", replay>>}
  /\ UNCHANGED <<server_state, cmd, raw, replay, vci, starts, cmds, pause_sem, msqid, queue, removed, parser, sender, joined, ghosts>>

\* Mutant: the send threads are not stopped.
MUT_JoinParser ==
  /\ mpc = "joinParser" /\ ppc[replay] \in Ended
  /\ joined' = joined \cup {replay}
  /\ replay' = IF ppc[replay] = "cancelled" THEN 0 ELSE replay
  /\ UNCHANGED cancelled
  /\ mpc' = "remove"
  /\ UNCHANGED <<server_state, cmd, raw, vci, starts, cmds, pause_sem, msqid, queue, removed, parser, sender, ghosts>>

\* Mutant: the send thread is joined but not cancelled.
MUT_JoinUncancelled ==
  /\ mpc = "joinParser" /\ ppc[replay] \in Ended
  /\ joined' = joined \cup {replay}
  /\ replay' = IF ppc[replay] = "cancelled" THEN 0 ELSE replay
  /\ UNCHANGED cancelled
  /\ mpc' = "joinSender"
  /\ UNCHANGED <<server_state, cmd, raw, vci, starts, cmds, pause_sem, msqid, queue, removed, parser, sender, ghosts>>

JoinParser ==
  /\ mpc = "joinParser" /\ ppc[replay] \in Ended
  /\ joined' = joined \cup {replay}
  /\ replay' = IF ppc[replay] = "cancelled" THEN 0 ELSE replay
  /\ cancelled' = cancelled \cup {<<"send", vci>>}
  /\ mpc' = "joinSender"
  /\ UNCHANGED <<server_state, cmd, raw, vci, starts, cmds, pause_sem, msqid, queue, removed, parser, sender, ghosts>>

JoinSender ==
  /\ mpc = "joinSender" /\ spc[vci] = "done"
  /\ mpc' = "remove"
  /\ UNCHANGED <<server_state, cmd, raw, replay, vci, starts, cmds, pause_sem, msqid, queue, removed, parser, sender, cancelled, joined, ghosts>>

\* IPC_RMID fails if g_msqid is not a queue: the state is kept then.
RemoveQueue ==
  /\ mpc = "remove"
  /\ IF msqid \in Starts \ removed
     THEN removed' = removed \cup {msqid} /\ server_state' = "IDEL"
     ELSE UNCHANGED <<removed, server_state>>
  /\ mpc' = "recv"
  /\ UNCHANGED <<cmd, raw, replay, vci, starts, cmds, pause_sem, msqid, queue, parser, sender, cancelled, joined, ghosts>>
-----------------------------------------------------------------------------
(***************************************************************************)
(* parse_thread of start n.                                                *)
(***************************************************************************)
ToPc(n, place) == ppc' = [ppc EXCEPT ![n] = place]

\* The file is not there: the thread returns, the state stays as it is.
ParseNoFile(n) ==
  /\ ppc[n] = "open"
  /\ ToPc(n, "nofile")
  /\ UNCHANGED <<main, pause_sem, msqid, queue, removed, pos, can_item, fp, sender, cancelled, joined, ghosts>>

ParseOpen(n) ==
  /\ ppc[n] = "open"
  /\ server_state' = "START"
  /\ ToPc(n, "read")
  /\ UNCHANGED <<mpc, cmd, raw, replay, vci, starts, cmds, pause_sem, msqid, queue, removed, pos, can_item, fp, sender, cancelled, joined, ghosts>>

\* access finds the file but fopen fails, or malloc does: a message is
\* printed, and the thread goes on to sleep until t_start.
ParseOpenFails(n) ==
  /\ ppc[n] = "open"
  /\ server_state' = "START"
  /\ ToPc(n, "nofp")
  /\ UNCHANGED <<mpc, cmd, raw, replay, vci, starts, cmds, pause_sem, msqid, queue, removed, pos, can_item, fp, sender, cancelled, joined, ghosts>>

\* fgets on a null pointer ends the process.
ParseCrash(n) ==
  /\ ppc[n] = "nofp"
  /\ mpc' = "killed"
  /\ UNCHANGED <<server_state, cmd, raw, replay, vci, starts, cmds, pause_sem, msqid, queue, removed, parser, sender, cancelled, joined, ghosts>>

\* usleep, fgets, sendto, sem_wait and msgsnd serve a cancellation.
ParseCancelled(n) ==
  /\ ppc[n] \in {"nofp", "read", "reply", "wait", "send"} /\ <<"parse", n>> \in cancelled
  /\ ToPc(n, "cancelled")
  /\ UNCHANGED <<main, pause_sem, msqid, queue, removed, pos, can_item, fp, sender, cancelled, joined, ghosts>>

ParseEof(n) ==
  /\ ppc[n] = "read" /\ pos[n] = Len(fp[n])
  /\ ToPc(n, "done")
  /\ UNCHANGED <<main, pause_sem, msqid, queue, removed, pos, can_item, fp, sender, cancelled, joined, ghosts>>

\* Microseconds of a time in g_cmd_buf, as the thread takes them.
Us(t) == IF raw THEN t ELSE t * Factor

\* A line is a frame or it is not; what it holds is given with the file.
deal_can_frame(line) == line.kind # "bad"

\* Mutant: the first time of the window is included.
MUT_ParseLine(n) ==
  /\ ppc[n] = "read" /\ pos[n] < Len(fp[n])
  /\ pos' = [pos EXCEPT ![n] = @ + 1]
  /\ LET line == fp[n][pos[n] + 1] IN
     /\ can_item' = line
     /\ IF ~deal_can_frame(line)
        THEN UNCHANGED <<ppc, torn>>
        ELSE /\ ToPc(n, IF line.ts < Us(Beg) THEN "read"
                        ELSE IF line.ts > Us(End) THEN "done" ELSE "check")
             /\ torn' = (torn \/ raw)
  /\ UNCHANGED <<main, pause_sem, msqid, queue, removed, fp, sender, cancelled, joined, sent, overlap, account>>

\* fgets, deal_can_frame and the window.
ParseLine(n) ==
  /\ ppc[n] = "read" /\ pos[n] < Len(fp[n])
  /\ pos' = [pos EXCEPT ![n] = @ + 1]
  /\ LET line == fp[n][pos[n] + 1] IN
     /\ can_item' = line
     /\ IF ~deal_can_frame(line)
        THEN UNCHANGED <<ppc, torn>>
        ELSE /\ ToPc(n, IF line.ts <= Us(Beg) THEN "read"
                        ELSE IF line.ts > Us(End) THEN "done" ELSE "check")
             /\ torn' = (torn \/ raw)
  /\ UNCHANGED <<main, pause_sem, msqid, queue, removed, fp, sender, cancelled, joined, sent, overlap, account>>

ParseCheck(n) ==
  /\ ppc[n] = "check"
  /\ ToPc(n, IF server_state = "PAUSE" THEN "reply" ELSE "send")
  /\ UNCHANGED <<main, pause_sem, msqid, queue, removed, pos, can_item, fp, sender, cancelled, joined, ghosts>>

\* t_cur_offset is set and sent to the client, which nothing here reads.
ParseReply(n) ==
  /\ ppc[n] = "reply"
  /\ ToPc(n, "wait")
  /\ UNCHANGED <<main, pause_sem, msqid, queue, removed, pos, can_item, fp, sender, cancelled, joined, ghosts>>

ParseWait(n) ==
  /\ ppc[n] = "wait" /\ pause_sem > 0
  /\ pause_sem' = pause_sem - 1
  /\ undone' = IF answered THEN undone ELSE undone + 1
  /\ answered' = FALSE
  /\ ToPc(n, "send")
  /\ UNCHANGED <<main, msqid, queue, removed, pos, can_item, fp, sender, cancelled, joined, sent, overlap, torn, early>>

\* msgsnd waits while the queue is full and fails if there is none.
ParseSend(n) ==
  /\ ppc[n] = "send"
  /\ IF can_item.kind = "can1" /\ msqid \in Starts \ removed
     THEN /\ Len(queue[msqid]) < QueueCap
          /\ queue' = [queue EXCEPT ![msqid] = Append(@, can_item.ts)]
     ELSE UNCHANGED queue
  /\ ToPc(n, "read")
  /\ UNCHANGED <<main, pause_sem, msqid, removed, pos, can_item, fp, sender, cancelled, joined, ghosts>>

\* No thread runs after the process was killed or the behaviour undefined.
Alive == mpc \notin {"killed", "undefined"}

Parse(n) == /\ Alive
            /\ \/ ParseOpen(n) \/ ParseCrash(n) \/ ParseCancelled(n) \/ ParseEof(n) \/ ParseLine(n)
               \/ ParseCheck(n) \/ ParseReply(n) \/ ParseWait(n) \/ ParseSend(n)

\* What need not happen: the file cannot be found or opened.
ParseFails(n) == Alive /\ (ParseNoFile(n) \/ ParseOpenFails(n))
-----------------------------------------------------------------------------
(***************************************************************************)
(* send_thread of start n: msgrcv, then sleep until the frame is due.      *)
(***************************************************************************)
SendCall(n) ==
  /\ spc[n] = "call" /\ msqid \in Starts \ removed
  /\ spc' = [spc EXCEPT ![n] = "msgrcv"]
  /\ at' = [at EXCEPT ![n] = msqid]
  /\ UNCHANGED <<main, pause_sem, msqid, queue, removed, parser, cancelled, joined, ghosts>>

SendFrame(n) ==
  /\ spc[n] = "msgrcv" /\ queue[at[n]] # <<>> /\ at[n] \notin removed
  /\ sent' = [sent EXCEPT ![at[n]] = Append(@, Head(queue[at[n]]))]
  /\ queue' = [queue EXCEPT ![at[n]] = Tail(@)]
  /\ spc' = [spc EXCEPT ![n] = "call"]
  /\ UNCHANGED <<main, pause_sem, msqid, removed, parser, at, cancelled, joined, overlap, torn, account>>

\* msgrcv fails with EIDRM.
SendRemoved(n) ==
  /\ spc[n] = "msgrcv" /\ at[n] \in removed
  /\ spc' = [spc EXCEPT ![n] = "call"]
  /\ UNCHANGED <<main, pause_sem, msqid, queue, removed, parser, at, cancelled, joined, ghosts>>

SendCancelled(n) ==
  /\ spc[n] \in {"call", "msgrcv"} /\ <<"send", n>> \in cancelled
  /\ spc' = [spc EXCEPT ![n] = "done"]
  /\ UNCHANGED <<main, pause_sem, msqid, queue, removed, parser, at, cancelled, joined, ghosts>>

Send(n) == Alive /\ (SendCall(n) \/ SendFrame(n) \/ SendRemoved(n) \/ SendCancelled(n))
-----------------------------------------------------------------------------
Main == \/ convert_ms_to_us \/ Refuse \/ cmd_start_handle \/ StartFails \/ StartLeaks
        \/ cmd_pause_handle \/ cmd_resume_handle \/ ResumePost
        \/ cmd_stop_handle \/ JoinParser \/ JoinSender \/ RemoveQueue

Next == \/ \E c \in Commands : Receive(c)
        \/ Main
        \/ \E n \in Starts : Parse(n) \/ ParseFails(n) \/ Send(n)

Spec == Init /\ [][Next]_vars

\* Threads that can run do.  Nobody has to send a command.
Fairness == /\ WF_vars(Main)
            /\ \A n \in Starts : WF_vars(Parse(n)) /\ WF_vars(Send(n))

FairSpec == Spec /\ Fairness
-----------------------------------------------------------------------------
(***************************************************************************)
(* Properties.                                                             *)
(***************************************************************************)

\* A frame of channel 1 in the window.
Wanted(line) == line.kind = "can1" /\ Beg * Factor < line.ts /\ line.ts <= End * Factor

\* q holds the times of the wanted ones of the first k lines, in the order of
\* the file: from[j] is the line of the j-th.
IsSelection(q, lines, k) ==
  \E from \in [1..Len(q) -> 1..k] :
    /\ \A i, j \in 1..Len(q) : i < j => from[i] < from[j]
    /\ \A j \in 1..Len(q) : q[j] = lines[from[j]].ts
    /\ \A i \in 1..k : Wanted(lines[i]) <=> \E j \in 1..Len(q) : from[j] = i

\* The lines parse thread n has finished with.
Finished(n) == IF ppc[n] \in {"check", "reply", "wait", "send"} THEN pos[n] - 1 ELSE pos[n]

\* The frames of replay n are the wanted ones of the lines it has finished with;
\* a cancellation may discard the one in hand.
InOrder(n) ==
  \/ IsSelection(sent[n] \o queue[n], fp[n], Finished(n))
  \/ ppc[n] = "cancelled" /\ IsSelection(sent[n] \o queue[n], fp[n], pos[n] - 1)

\* Whatever is paused, resumed and stopped in between, the frames taken from
\* the queue followed by those in it are exactly the selected ones of the
\* lines parse_thread has handled: none lost, repeated or out of order
\* (a cancellation may discard the one in hand).  It assumes that no command
\* arrived while a line was compared, and no second START during an open.
FramesInOrder == ~overlap /\ ~torn => \A n \in Starts : InOrder(n)

\* Only a RESUME of the same replay ends a pause, and none ends two: the
\* tokens of pause_sem are the RESUMEs no pause has used up, so that no more
\* pauses end without a RESUME of their own than RESUMEs came when the parse
\* thread was in no pause.  (Such an early RESUME, sent before parse_thread
\* reached its next line, does undo a later PAUSE.)  And once
\* cmd_resume_handle has returned there is a token for a parse thread that
\* saw STATE_PAUSE, which so never sleeps after the RESUME.
EachResumeOnce ==
  ~overlap =>
    /\ undone <= early
    /\ pause_sem + undone = early + IF answered THEN 1 ELSE 0
    /\ server_state = "START" /\ mpc # "post" /\ Held => pause_sem > 0

\* cmd_stop_handle cancels a thread that exists and was not joined before,
\* unless two STARTs were accepted before the first one's parse_thread had
\* set STATE_START.  In STATE_IDEL, between commands, no thread of an earlier
\* replay is left, except the send thread of a START whose file was missing.
StopIsClean ==
  ~overlap =>
    /\ mpc # "undefined"
    /\ server_state = "IDEL" /\ mpc = "recv" =>
         \A n \in Starts :
           \/ ppc[n] \in {"open", "nofile"}
           \/ ppc[n] \in Ended /\ spc[n] \in {"none", "done"}

\* cmd_stop_handle returns: neither pthread_join waits for ever, also when the
\* parse thread is in sem_wait or in msgsnd on a full queue (unless the
\* process ends first, at the fgets of a file that fopen did not open).
StopCompletes == (mpc = "joinParser") ~> (mpc \in {"recv", "killed"})
=============================================================================
