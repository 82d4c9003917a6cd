-------------------------- MODULE CanReplayProofs ---------------------------
(***************************************************************************)
(* The replay server, for any files, any window, any length of the queue   *)
(* and any number of commands and of accepted STARTs: a clean stop, pauses *)
(* that only RESUMEs end, and the frames of a replay in the file's order.  *)
(***************************************************************************)
EXTENDS CanReplay, Integers, TLAPS

Lines == [kind : {"bad", "can1", "other"}, ts : Nat]
InHand == {"check", "reply", "wait", "send"}
Places == Ended \cup InHand \cup {"open", "nofp", "read"}

(***************************************************************************)
(* The inductive invariant.                                                *)
(***************************************************************************)
MainInv ==
  /\ server_state \in {"IDEL", "START", "PAUSE"}
  /\ mpc \in {"recv", "convert", "handle", "post", "joinParser", "joinSender", "remove", "undefined", "killed"}
  /\ starts \in 0..MaxStarts /\ replay \in 0..starts /\ msqid \in 0..starts
  /\ pause_sem \in Nat /\ early \in Nat /\ undone \in Nat
  /\ mpc = "joinParser" => replay # 0
  /\ removed \subseteq 1..starts /\ joined \subseteq 1..starts

ParserInv ==
  /\ ppc \in [Starts -> Places] /\ pos \in [Starts -> Nat]
  /\ fp \in [Starts -> Seq(Lines)] /\ can_item \in Lines
  /\ \A n \in Starts : pos[n] <= Len(fp[n]) /\ (ppc[n] \in InHand => pos[n] > 0)

SenderInv ==
  /\ spc \in [Starts -> {"none", "call", "msgrcv", "done"}] /\ at \in [Starts -> Nat]
  /\ \A n \in Starts : spc[n] = "msgrcv" => at[n] \in Starts

QueueInv == queue \in [Starts -> Seq(Nat)] /\ sent \in [Starts -> Seq(Nat)]

\* Nothing has happened yet to the STARTs to come.
FreshInv ==
  \A n \in Starts : n > starts => /\ ppc[n] = "none" /\ spc[n] = "none" /\ pos[n] = 0
                                  /\ queue[n] = <<>> /\ sent[n] = <<>>

TypeInv == MainInv /\ ParserInv /\ SenderInv /\ QueueInv /\ FreshInv

\* The threads of the earlier STARTs are gone, except the send thread of one
\* whose file was missing.
EarlierInv ==
  \A n \in Starts : n < starts => \/ ppc[n] = "nofile"
                                  \/ ppc[n] \in Ended /\ spc[n] \in {"none", "done"}

\* What the main thread will stop: while a replay runs, g_msqid and
\* g_replay_can_thread are those of the last START, and when none runs its
\* threads have ended or have yet to open the file.
CurrentInv ==
  /\ mpc # "undefined"
  /\ mpc \in {"post", "joinParser", "joinSender", "remove"} => Running
  /\ Running => starts > 0
  /\ starts > 0 =>
       /\ Running \/ ppc[starts] \notin Ended => msqid = starts /\ vci = starts /\ starts \notin removed
       /\ (Running \/ ppc[starts] \notin Ended) /\ mpc \notin {"joinSender", "remove"} =>
            replay = starts /\ starts \notin joined
       /\ Running => ppc[starts] \notin {"open", "nofile"}
       /\ ~Running => \/ ppc[starts] \in {"open", "nofile"}
                      \/ ppc[starts] \in Ended /\ spc[starts] \in {"none", "done"}
       /\ mpc \in {"joinSender", "remove"} => ppc[starts] \in Ended
       /\ mpc = "remove" => spc[starts] = "done"

ThreadInv == EarlierInv /\ CurrentInv

\* The tokens are the RESUMEs no pause has used up.  A RESUME of its own
\* finds the parse thread in the pause, which it leaves by using that RESUME
\* up, or by ending.
PauseInv ==
  /\ undone <= early
  /\ answered => pause_sem + undone = early + 1
  /\ ~answered => pause_sem + undone = early
  /\ answered => starts > 0 /\ ppc[starts] \in Ended \cup {"reply", "wait"}
  /\ starts > 0 /\ server_state = "START" /\ mpc # "post" /\ ppc[starts] \in {"reply", "wait"} => answered

\* The line in hand is a frame of the window, and g_data_buf holds it.
FrameInv ==
  /\ \A n \in Starts : ppc[n] \in InHand =>
       /\ can_item = fp[n][pos[n]] /\ can_item.kind # "bad"
       /\ Beg * Factor < can_item.ts /\ can_item.ts <= End * Factor
  /\ \A n \in Starts : InOrder(n)
-----------------------------------------------------------------------------
(***************************************************************************)
(* The selected frames of a file.                                          *)
(***************************************************************************)

\* Of no line nothing is selected.
LEMMA SelectNone ==
  ASSUME NEW q, NEW lines, Len(q) = 0
  PROVE  IsSelection(q, lines, 0)
<1> DEFINE from == [j \in 1..0 |-> 0]
<1>1. from \in [1..Len(q) -> 1..0] /\ \A j \in 1..Len(q) : FALSE
  OBVIOUS
<1> QED
  BY <1>1, Zenon DEF IsSelection

\* A line that is not wanted is skipped.
LEMMA SelectSkip ==
  ASSUME NEW q \in Seq(Nat), NEW lines, NEW k \in Nat,
         IsSelection(q, lines, k), ~Wanted(lines[k + 1])
  PROVE  IsSelection(q, lines, k + 1)
<1>1. PICK from \in [1..Len(q) -> 1..k] :
        /\ \A i, j \in 1..Len(q) : i < j => from[i] < from[j]
        /\ \A j \in 1..Len(q) : q[j] = lines[from[j]].ts
        /\ \A i \in 1..k : Wanted(lines[i]) <=> \E j \in 1..Len(q) : from[j] = i
  BY Zenon DEF IsSelection
<1>2. from \in [1..Len(q) -> 1..(k + 1)]
  BY <1>1
<1>3. \A j \in 1..Len(q) : from[j] # k + 1
  BY <1>1, Zenon
<1>4. \A i \in 1..(k + 1) : Wanted(lines[i]) <=> \E j \in 1..Len(q) : from[j] = i
  <2> TAKE i \in 1..(k + 1)
  <2>1. CASE i = k + 1
    BY <1>3, <2>1, Zenon
  <2>2. CASE i # k + 1
    BY <1>1, <2>2
  <2> QED
    BY <2>1, <2>2, Zenon
<1> QED
  BY <1>1, <1>2, <1>4, Zenon DEF IsSelection

\* A wanted line is selected after those before it.
LEMMA SelectTake ==
  ASSUME NEW q \in Seq(Nat), NEW lines, NEW k \in Nat, NEW r \in Seq(Nat),
         IsSelection(q, lines, k), Wanted(lines[k + 1]),
         Len(r) = Len(q) + 1, \A j \in 1..Len(q) : r[j] = q[j], r[Len(q) + 1] = lines[k + 1].ts
  PROVE  IsSelection(r, lines, k + 1)
<1> DEFINE m == Len(q)
<1>0. m \in Nat /\ Len(r) = m + 1
  OBVIOUS
<1>1. PICK from \in [1..m -> 1..k] :
        /\ \A i, j \in 1..m : i < j => from[i] < from[j]
        /\ \A j \in 1..m : q[j] = lines[from[j]].ts
        /\ \A i \in 1..k : Wanted(lines[i]) <=> \E j \in 1..m : from[j] = i
  BY Zenon DEF IsSelection
<1> DEFINE g == [j \in 1..(m + 1) |-> IF j = m + 1 THEN k + 1 ELSE from[j]]
<1> HIDE DEF m
<1>2. g \in [1..(m + 1) -> 1..(k + 1)]
  <2>1. \A j \in 1..(m + 1) : j # m + 1 => j \in 1..m
    BY <1>0
  <2>2. k + 1 \in 1..(k + 1) /\ \A i \in 1..k : i \in 1..(k + 1)
    OBVIOUS
  <2> QED
    BY <1>1, <2>1, <2>2, Zenon
<1>3. g[m + 1] = k + 1 /\ \A j \in 1..m : g[j] = from[j] /\ from[j] \in 1..k
  <2>1. m + 1 \in 1..(m + 1) /\ \A j \in 1..m : j \in 1..(m + 1) /\ j # m + 1
    BY <1>0
  <2> QED
    BY <1>1, <2>1, Zenon
<1> HIDE DEF g
<1>4. \A j \in 1..(m + 1) : j = m + 1 \/ j \in 1..m
  BY <1>0
<1>5. \A i, j \in 1..(m + 1) : i < j => g[i] < g[j]
  <2> SUFFICES ASSUME NEW i \in 1..(m + 1), NEW j \in 1..(m + 1), i < j PROVE g[i] < g[j]
    BY Zenon
  <2>1. i \in 1..m
    BY <1>0
  <2>2. CASE j = m + 1
    BY <1>3, <2>1, <2>2
  <2>3. CASE j \in 1..m
    BY <1>1, <1>3, <2>1, <2>3, Zenon
  <2> QED
    BY <1>4, <2>2, <2>3, Zenon
<1>6. \A j \in 1..(m + 1) : r[j] = lines[g[j]].ts
  BY <1>1, <1>3, <1>4, Zenon DEF m
<1>7. \A i \in 1..(k + 1) : Wanted(lines[i]) <=> \E j \in 1..(m + 1) : g[j] = i
  <2> TAKE i \in 1..(k + 1)
  <2>1. CASE i = k + 1
    <3>1. m + 1 \in 1..(m + 1)
      BY <1>0
    <3> QED
      BY <1>3, <2>1, <3>1, Zenon
  <2>2. CASE i # k + 1
    <3>1. i \in 1..k /\ 1..m \subseteq 1..(m + 1)
      BY <1>0, <2>2
    <3>2. (\E j \in 1..m : from[j] = i) <=> \E j \in 1..(m + 1) : g[j] = i
      BY <1>3, <1>4, <2>2, <3>1, Zenon
    <3> QED
      BY <1>1, <3>1, <3>2, Zenon
  <2> QED
    BY <2>1, <2>2, Zenon
<1> QED
  <2>1. /\ g \in [1..Len(r) -> 1..(k + 1)]
        /\ \A i, j \in 1..Len(r) : i < j => g[i] < g[j]
        /\ \A j \in 1..Len(r) : r[j] = lines[g[j]].ts
        /\ \A i \in 1..(k + 1) : Wanted(lines[i]) <=> \E j \in 1..Len(r) : g[j] = i
    BY <1>0, <1>2, <1>5, <1>6, <1>7, Zenon
  <2> QED
    BY <2>1, Zenon DEF IsSelection

-----------------------------------------------------------------------------
\* Moving a frame from the queue to the frames sent keeps their order.
LEMMA MoveFrame ==
  ASSUME NEW s \in Seq(Nat), NEW q \in Seq(Nat), q # <<>>
  PROVE  Append(s, Head(q)) \o Tail(q) = s \o q
OBVIOUS

\* Nothing sent and nothing in the queue are no frames.
LEMMA NoFrames ==
  ASSUME NEW s \in Seq(Nat), NEW q \in Seq(Nat), Len(s) = 0, Len(q) = 0
  PROVE  Len(s \o q) = 0
OBVIOUS

\* A frame appended to the queue follows all others.
LEMMA AppendFrame ==
  ASSUME NEW s \in Seq(Nat), NEW q \in Seq(Nat), NEW t \in Nat
  PROVE  /\ Len(s \o Append(q, t)) = Len(s \o q) + 1
         /\ \A j \in 1..Len(s \o q) : (s \o Append(q, t))[j] = (s \o q)[j]
         /\ (s \o Append(q, t))[Len(s \o q) + 1] = t
<1>1. Len(s) \in Nat /\ Len(q) \in Nat /\ Append(q, t) \in Seq(Nat) /\ Len(Append(q, t)) = Len(q) + 1
  OBVIOUS
<1>2. Append(q, t)[Len(q) + 1] = t /\ \A j \in 1..Len(q) : Append(q, t)[j] = q[j]
  OBVIOUS
<1>3. Len(s \o q) = Len(s) + Len(q) /\ Len(s \o Append(q, t)) = Len(s) + Len(q) + 1
  BY <1>1
<1>4. ASSUME NEW j \in 1..(Len(s) + Len(q)) PROVE (s \o Append(q, t))[j] = (s \o q)[j]
  <2>1. CASE j <= Len(s)
    BY <1>1, <2>1
  <2>2. CASE j > Len(s)
    <3>1. j - Len(s) \in 1..Len(q)
      BY <1>1, <2>2
    <3> QED
      BY <1>1, <1>2, <2>2, <3>1
  <2> QED
    BY <1>1, <2>1, <2>2
<1>5. (s \o Append(q, t))[Len(s) + Len(q) + 1] = t
  BY <1>1, <1>2
<1> QED
  BY <1>3, <1>4, <1>5, Zenon
-----------------------------------------------------------------------------
(***************************************************************************)
(* What the steps of the threads do.                                       *)
(***************************************************************************)

\* An accepted START: its number is the next one, its threads begin, and
\* unless it counts as overlapping no parse thread is alive.
LEMMA StartEffect ==
  ASSUME MainInv, cmd_start_handle
  PROVE  /\ starts + 1 \in Starts /\ starts' = starts + 1 /\ msqid' = starts + 1 /\ replay' = starts + 1
         /\ \E f \in Seq(Lines) : fp' = [fp EXCEPT ![starts + 1] = f]
         /\ ppc' = [ppc EXCEPT ![starts + 1] = "open"] /\ spc' = [spc EXCEPT ![starts + 1] = "call"]
         /\ pause_sem' = 0 /\ early' = 0 /\ undone' = 0 /\ answered' = FALSE
         /\ vci' = starts + 1 /\ mpc' = "recv" /\ server_state = "IDEL"
         /\ ~overlap' => ~overlap /\ ~Parsing
         /\ UNCHANGED <<server_state, queue, removed, pos, can_item, at, joined, sent, torn>>
<1>1. starts + 1 \in Starts
  BY ReplayAssumption DEF MainInv, Starts, cmd_start_handle
<1>2. \E f \in Seq(Lines) : fp' = [fp EXCEPT ![starts + 1] = f]
  <2>1. PICK f \in Files : fp' = [fp EXCEPT ![starts + 1] = f]
    BY Zenon DEF cmd_start_handle
  <2>2. f \in Seq(Lines)
    BY ReplayAssumption, Zenon DEF Lines
  <2> QED
    BY <2>1, <2>2, Zenon
<1>3. overlap' = (overlap \/ Parsing)
  BY Zenon DEF cmd_start_handle
<1>4. ~overlap' => ~overlap /\ ~Parsing
  BY <1>3, Zenon
<1> QED
  BY <1>1, <1>2, <1>4, Zenon DEF cmd_start_handle

\* A START whose msgctl fails takes the next number for its queue, and nothing
\* begins.
LEMMA LeakEffect ==
  ASSUME MainInv, StartLeaks
  PROVE  /\ starts + 1 \in Starts /\ starts' = starts + 1 /\ msqid' = starts + 1
         /\ pause_sem' = 0 /\ early' = 0 /\ undone' = 0 /\ answered' = FALSE
         /\ mpc' = "recv" /\ server_state = "IDEL"
         /\ ~overlap' => ~overlap /\ ~Parsing
         /\ UNCHANGED <<server_state, replay, vci, queue, removed, parser, sender, joined, sent, torn>>
<1>1. starts + 1 \in Starts
  BY ReplayAssumption DEF MainInv, Starts, StartLeaks
<1>2. overlap' = (overlap \/ Parsing)
  BY Zenon DEF StartLeaks
<1>3. ~overlap' => ~overlap /\ ~Parsing
  BY <1>2, Zenon
<1> QED
  BY <1>1, <1>3, Zenon DEF StartLeaks

\* IPC_RMID removes the queue of g_msqid and the server is idle, or it fails
\* and the state is kept.
LEMMA RemoveEffect ==
  ASSUME RemoveQueue
  PROVE  \/ /\ msqid \in Starts \ removed
            /\ removed' = removed \cup {msqid} /\ server_state' = "IDEL"
         \/ /\ msqid \notin Starts \ removed
            /\ removed' = removed /\ server_state' = server_state
  BY Zenon DEF RemoveQueue

\* All other steps of the main thread.
Handles == \/ \E c \in Commands : Receive(c)
           \/ convert_ms_to_us \/ Refuse \/ StartFails
           \/ cmd_pause_handle \/ cmd_resume_handle \/ ResumePost
           \/ cmd_stop_handle \/ JoinParser \/ JoinSender \/ RemoveQueue

\* What a command handler, the joins and the removal of the queue leave alone.
LEMMA HandleEffect ==
  ASSUME Handles
  PROVE  /\ UNCHANGED <<starts, queue, parser, sender, sent, torn>>
         /\ ~overlap' => ~overlap
<1>1. CASE StartFails
  <2>1. overlap' = (overlap \/ Parsing)
    BY <1>1, Zenon DEF StartFails
  <2>2. ~overlap' => ~overlap
    BY <2>1, Zenon
  <2> QED
    BY <1>1, <2>2, Zenon DEF StartFails
<1> QED
  BY <1>1 DEF Handles, ghosts, Receive, convert_ms_to_us, Refuse, cmd_pause_handle, cmd_resume_handle,
     ResumePost, cmd_stop_handle, JoinParser, JoinSender, RemoveQueue

\* parse_thread reads one line.  It stays at fgets, ends the replay or has a
\* frame of the window in hand; a window in ms counts as torn.
LEMMA LineEffect ==
  ASSUME NEW n \in Starts, ParseLine(n)
  PROVE  LET line == fp[n][pos[n] + 1] IN
         /\ ppc[n] = "read" /\ pos[n] < Len(fp[n])
         /\ can_item' = line /\ pos' = [pos EXCEPT ![n] = @ + 1]
         /\ \/ line.kind = "bad" /\ ppc' = ppc
            \/ line.kind # "bad" /\ line.ts <= Us(Beg) /\ ppc' = [ppc EXCEPT ![n] = "read"]
            \/ line.kind # "bad" /\ line.ts > Us(End) /\ ppc' = [ppc EXCEPT ![n] = "done"]
            \/ /\ line.kind # "bad" /\ ~(line.ts <= Us(Beg)) /\ ~(line.ts > Us(End))
               /\ ppc' = [ppc EXCEPT ![n] = "check"]
         /\ line.kind # "bad" /\ ~torn' => ~raw
         /\ ~torn' => ~torn
         /\ UNCHANGED <<main, pause_sem, msqid, queue, removed, fp, sender, joined, sent, overlap, account>>
<1> DEFINE line == fp[n][pos[n] + 1]
<1>1. CASE line.kind = "bad"
  BY <1>1, Zenon DEF ParseLine, deal_can_frame
<1>2. CASE line.kind # "bad"
  <2>1. torn' = (torn \/ raw)
    BY <1>2, Zenon DEF ParseLine, deal_can_frame
  <2>2. ~torn' => ~torn /\ ~raw
    BY <2>1, Zenon
  <2>3. ToPc(n, IF line.ts <= Us(Beg) THEN "read" ELSE IF line.ts > Us(End) THEN "done" ELSE "check")
    BY <1>2, Zenon DEF ParseLine, deal_can_frame
  <2> HIDE DEF line
  <2>4. \/ line.ts <= Us(Beg) /\ ToPc(n, "read")
        \/ line.ts > Us(End) /\ ToPc(n, "done")
        \/ ~(line.ts <= Us(Beg)) /\ ~(line.ts > Us(End)) /\ ToPc(n, "check")
    BY <2>3, Zenon
  <2>5. /\ ppc[n] = "read" /\ pos[n] < Len(fp[n])
        /\ can_item' = line /\ pos' = [pos EXCEPT ![n] = @ + 1]
        /\ UNCHANGED <<main, pause_sem, msqid, queue, removed, fp, sender, joined, sent, overlap, account>>
    BY Zenon DEF ParseLine, line
  <2> QED
    BY <1>2, <2>2, <2>4, <2>5, Zenon DEF ToPc, line
<1> QED
  BY <1>1, <1>2, Zenon

\* Where a step takes parse_thread n, and what it does to the state and to the
\* semaphore.
Moves(n, p) ==
  \/ /\ ppc[n] = "open" /\ p \in {"read", "nofp"}
     /\ server_state' = "START" /\ UNCHANGED <<mpc, pause_sem, account>>
  \/ /\ ppc[n] = "nofp" /\ p = "nofp"
     /\ mpc' = "killed" /\ UNCHANGED <<server_state, pause_sem, account>>
  \/ /\ ppc[n] = "wait" /\ p = "send"
     /\ pause_sem > 0 /\ pause_sem' = pause_sem - 1
     /\ undone' = (IF answered THEN undone ELSE undone + 1) /\ answered' = FALSE
     /\ UNCHANGED <<mpc, server_state, early>>
  \/ /\ \/ ppc[n] = "open" /\ p = "nofile"
        \/ ppc[n] \in InHand \cup {"nofp", "read"} /\ p = "cancelled"
        \/ ppc[n] = "read" /\ p \in {"read", "done", "check"}
        \/ ppc[n] = "check" /\ server_state = "PAUSE" /\ p = "reply"
        \/ ppc[n] = "check" /\ p = "send"
        \/ ppc[n] = "reply" /\ p = "wait"
        \/ ppc[n] = "send" /\ p = "read"
     /\ UNCHANGED <<mpc, server_state, pause_sem, account>>

\* A step of parse_thread moves that thread and leaves the others' state alone.
LEMMA ParseEffect ==
  ASSUME ParserInv, NEW n \in Starts, Parse(n) \/ ParseFails(n)
  PROVE  /\ \E p \in Places : Moves(n, p) /\ ppc' = [ppc EXCEPT ![n] = p]
         /\ UNCHANGED <<raw, replay, vci, starts, msqid, removed, sender, joined, sent, overlap>>
         /\ ParseLine(n) \/ UNCHANGED <<pos, can_item, fp, torn>>
         /\ ParseSend(n) \/ UNCHANGED queue
<1> USE DEF Moves, Places, Ended, InHand, main, ghosts, ToPc
<1>1. CASE ParseLine(n)
  <2>1. \E p \in {"read", "done", "check"} : ppc' = [ppc EXCEPT ![n] = p]
    BY <1>1, LineEffect DEF ParserInv
  <2> QED
    BY <1>1, <2>1, LineEffect, Zenon
<1>2. CASE ParseOpen(n) \/ ParseOpenFails(n)
  BY <1>2, Zenon DEF ParseOpen, ParseOpenFails
<1>3. CASE ParseNoFile(n)
  BY <1>3, Zenon DEF ParseNoFile
<1>4. CASE ParseCancelled(n)
  BY <1>4, Zenon DEF ParseCancelled
<1>5. CASE ParseEof(n)
  BY <1>5, Zenon DEF ParseEof
<1>6. CASE ParseCheck(n)
  BY <1>6, Zenon DEF ParseCheck
<1>7. CASE ParseReply(n)
  BY <1>7, Zenon DEF ParseReply
<1>8. CASE ParseWait(n)
  BY <1>8, Zenon DEF ParseWait, account
<1>9. CASE ParseSend(n)
  BY <1>9, Zenon DEF ParseSend
<1>10. CASE ParseCrash(n)
  <2>1. ppc' = [ppc EXCEPT ![n] = "nofp"]
    BY <1>10, Zenon DEF ParseCrash, parser, ParserInv
  <2> QED
    BY <1>10, <2>1, Zenon DEF ParseCrash, parser
<1> QED
  BY <1>1, <1>2, <1>3, <1>4, <1>5, <1>6, <1>7, <1>8, <1>9, <1>10, Zenon DEF Parse, ParseFails

\* msgsnd appends a frame of channel 1 to the queue of g_msqid.
LEMMA QueueEffect ==
  ASSUME NEW n \in Starts, ParseSend(n)
  PROVE  /\ ppc[n] = "send"
         /\ IF can_item.kind = "can1" /\ msqid \in Starts \ removed
            THEN queue' = [queue EXCEPT ![msqid] = Append(@, can_item.ts)]
            ELSE queue' = queue
BY Zenon DEF ParseSend

\* A step of send_thread n.
LEMMA SendEffect ==
  ASSUME NEW n \in Starts, Send(n)
  PROVE  /\ spc[n] \in {"call", "msgrcv"}
         /\ \E p \in {"call", "msgrcv", "done"} :
              /\ spc' = [spc EXCEPT ![n] = p]
              /\ \/ p = "msgrcv" /\ msqid \in Starts /\ at' = [at EXCEPT ![n] = msqid]
                 \/ p # "msgrcv" /\ at' = at
         /\ UNCHANGED <<main, pause_sem, msqid, removed, parser, joined, overlap, torn, account>>
         /\ SendFrame(n) \/ UNCHANGED <<queue, sent>>
<1>1. CASE SendCall(n)
  BY <1>1, Zenon DEF SendCall, ghosts
<1>2. CASE SendFrame(n) \/ SendRemoved(n) \/ SendCancelled(n)
  BY <1>2, Zenon DEF SendFrame, SendRemoved, SendCancelled, ghosts
<1> QED
  BY <1>1, <1>2, Zenon DEF Send
-----------------------------------------------------------------------------
(***************************************************************************)
(* Every step keeps the types.                                             *)
(***************************************************************************)

\* What the main thread does to its own state.
LEMMA HandleMain ==
  ASSUME MainInv, Handles
  PROVE  MainInv'
<1> USE DEF MainInv, ghosts, account
<1>1. CASE \E c \in Commands : Receive(c)
  BY <1>1, Zenon DEF Receive
<1>2. CASE convert_ms_to_us \/ Refuse \/ JoinSender
  BY <1>2, Zenon DEF convert_ms_to_us, Refuse, JoinSender
<1>3. CASE StartFails
  BY <1>3 DEF StartFails
<1>4. CASE cmd_pause_handle \/ cmd_resume_handle
  BY <1>4, Zenon DEF cmd_pause_handle, cmd_resume_handle
<1>5. CASE ResumePost
  <2>1. /\ pause_sem' = pause_sem + 1 /\ early' \in {early, early + 1} /\ mpc' = "recv"
        /\ UNCHANGED <<server_state, replay, starts, msqid, removed, joined, undone>>
    BY <1>5, Zenon DEF ResumePost
  <2> QED
    BY <2>1
<1>6. CASE cmd_stop_handle
  BY <1>6, Zenon DEF cmd_stop_handle
<1>7. CASE JoinParser
  <2>1. /\ mpc = "joinParser" /\ mpc' = "joinSender" /\ replay' \in {0, replay}
        /\ joined' = joined \cup {replay} /\ UNCHANGED <<server_state, starts, pause_sem, msqid, removed, early, undone>>
    BY <1>7, Zenon DEF JoinParser
  <2> QED
    BY <2>1
<1>8. CASE RemoveQueue
  <2>1. UNCHANGED <<replay, starts, pause_sem, msqid, joined, early, undone>> /\ mpc' = "recv"
    BY <1>8, Zenon DEF RemoveQueue
  <2>2. server_state' \in {"IDEL", "START", "PAUSE"}
    BY <1>8, RemoveEffect, Zenon
  <2>3. msqid \in Starts => msqid \in 1..starts
    BY DEF Starts
  <2>4. removed' \subseteq 1..starts
    BY <1>8, <2>3, RemoveEffect, Zenon
  <2> QED
    BY <2>1, <2>2, <2>4, Zenon
<1> QED
  BY <1>1, <1>2, <1>3, <1>4, <1>5, <1>6, <1>7, <1>8, Zenon DEF Handles

\* An accepted START fills the place of a fresh one.
LEMMA StartType ==
  ASSUME TypeInv, cmd_start_handle
  PROVE  TypeInv'
<1> USE DEF TypeInv
<1>1. PICK n \in Starts : n = starts + 1
  BY StartEffect, Zenon
<1>2. PICK f \in Seq(Lines) : fp' = [fp EXCEPT ![n] = f]
  BY <1>1, StartEffect, Zenon
<1>3. /\ starts' = n /\ msqid' = n /\ replay' = n /\ mpc' = "recv"
      /\ pause_sem' = 0 /\ early' = 0 /\ undone' = 0
      /\ ppc' = [ppc EXCEPT ![n] = "open"] /\ spc' = [spc EXCEPT ![n] = "call"]
      /\ UNCHANGED <<server_state, queue, removed, pos, can_item, at, joined, sent>>
  BY <1>1, StartEffect, Zenon
<1>4. n > starts /\ n \in 1..MaxStarts /\ \A m \in Starts : m > n => m > starts
  BY <1>1 DEF MainInv, Starts
<1>5. MainInv'
  <2>1. removed \subseteq 1..n /\ joined \subseteq 1..n
    BY <1>1 DEF MainInv
  <2> QED
    BY <1>3, <1>4, <2>1 DEF MainInv
<1>6. ParserInv'
  <2>1. ppc' \in [Starts -> Places] /\ fp' \in [Starts -> Seq(Lines)]
    BY <1>2, <1>3, Zenon DEF ParserInv, Places
  <2>2. ASSUME NEW m \in Starts PROVE pos[m] <= Len(fp'[m]) /\ (ppc'[m] \in InHand => pos[m] > 0)
    <3>1. CASE m = n
      BY <1>2, <1>3, <1>4, <3>1 DEF ParserInv, FreshInv, InHand
    <3>2. CASE m # n
      BY <1>2, <1>3, <3>2, Zenon DEF ParserInv
    <3> QED
      BY <3>1, <3>2, Zenon
  <2> QED
    BY <1>3, <2>1, <2>2, Zenon DEF ParserInv
<1>7. SenderInv'
  BY <1>3, Zenon DEF SenderInv
<1>8. QueueInv'
  BY <1>3, Zenon DEF QueueInv
<1>9. FreshInv'
  <2> SUFFICES ASSUME NEW m \in Starts, m > n
               PROVE  /\ ppc'[m] = "none" /\ spc'[m] = "none" /\ pos[m] = 0
                      /\ queue[m] = <<>> /\ sent[m] = <<>>
    BY <1>3, Zenon DEF FreshInv
  <2>1. m > starts /\ m # n
    BY <1>1, <1>4 DEF MainInv
  <2> QED
    BY <1>3, <2>1, Zenon DEF FreshInv, ParserInv, SenderInv
<1> QED
  BY <1>5, <1>6, <1>7, <1>8, <1>9, Zenon

\* A START whose msgctl fails leaves a fresh place empty.
LEMMA LeakType ==
  ASSUME TypeInv, StartLeaks
  PROVE  TypeInv'
<1> USE DEF TypeInv
<1>1. PICK n \in Starts : n = starts + 1
  BY LeakEffect, Zenon
<1>2. /\ starts' = n /\ msqid' = n /\ mpc' = "recv" /\ pause_sem' = 0 /\ early' = 0 /\ undone' = 0
      /\ UNCHANGED <<server_state, replay, queue, removed, parser, sender, joined, sent>>
  BY <1>1, LeakEffect, Zenon
<1>3. MainInv'
  <2>1. removed \subseteq 1..n /\ joined \subseteq 1..n /\ replay \in 0..n /\ n \in 0..MaxStarts
    BY <1>1 DEF MainInv, Starts
  <2> QED
    BY <1>2, <2>1 DEF MainInv
<1>4. \A m \in Starts : m > n => m > starts
  BY <1>1 DEF MainInv, Starts
<1>5. ParserInv' /\ SenderInv' /\ QueueInv'
  BY <1>2, Zenon DEF ParserInv, SenderInv, QueueInv, parser, sender
<1>6. FreshInv'
  BY <1>2, <1>4, Zenon DEF FreshInv, parser, sender
<1> QED
  BY <1>3, <1>5, <1>6, Zenon

\* A step of parse_thread, which has been created.
LEMMA ParseType ==
  ASSUME TypeInv, NEW n \in Starts, Parse(n) \/ ParseFails(n)
  PROVE  TypeInv'
<1> USE DEF TypeInv
<1>1. PICK p \in Places : Moves(n, p) /\ ppc' = [ppc EXCEPT ![n] = p]
  BY ParseEffect, Zenon
<1>2. UNCHANGED <<replay, starts, msqid, removed, sender, joined, sent>>
  BY ParseEffect, Zenon
<1>3. ~(n > starts)
  BY <1>1, Zenon DEF Moves, FreshInv, InHand
<1>4. MainInv'
  BY <1>1, <1>2 DEF MainInv, Moves, account
<1>5. ParserInv'
  <2>1. ppc' \in [Starts -> Places]
    BY <1>1, Zenon DEF ParserInv
  <2>2. CASE ParseLine(n)
    <3>1. pos[n] < Len(fp[n]) /\ can_item' = fp[n][pos[n] + 1] /\ pos' = [pos EXCEPT ![n] = @ + 1] /\ fp' = fp
      BY <2>2, LineEffect, Zenon
    <3>2. can_item' \in Lines
      BY <3>1 DEF ParserInv
    <3>3. pos' \in [Starts -> Nat]
      BY <3>1 DEF ParserInv
    <3>4. \A m \in Starts : pos'[m] <= Len(fp[m]) /\ (ppc'[m] \in InHand => pos'[m] > 0)
      BY <1>1, <3>1 DEF ParserInv
    <3> QED
      BY <2>1, <3>1, <3>2, <3>3, <3>4, Zenon DEF ParserInv
  <2>3. CASE UNCHANGED <<pos, can_item, fp, torn>>
    <3>1. p \in InHand => ppc[n] \in InHand \/ ParseLine(n)
      <4>1. CASE ppc[n] = "read" /\ p = "check"
        BY <1>1, <4>1, Zenon DEF ParserInv, Parse, ParseFails, ToPc, ParseOpen, ParseOpenFails, ParseCrash, ParseNoFile, ParseCancelled, ParseEof, ParseCheck,
           ParseReply, ParseWait, ParseSend
      <4> QED
        BY <1>1, <4>1, Zenon DEF Moves, InHand
    <3>2. CASE ParseLine(n)
      BY <2>2, <3>2, Zenon
    <3>3. CASE ~ParseLine(n)
      BY <1>1, <2>1, <2>3, <3>1, <3>3, Zenon DEF ParserInv
    <3> QED
      BY <3>2, <3>3, Zenon
  <2> QED
    BY <2>2, <2>3, ParseEffect, Zenon
<1>6. SenderInv'
  BY <1>2, Zenon DEF SenderInv, sender
<1>7. QueueInv' /\ \A m \in Starts : m > starts => queue'[m] = queue[m]
  <2>1. CASE ParseSend(n) /\ can_item.kind = "can1" /\ msqid \in Starts \ removed
    <3>1. queue' = [queue EXCEPT ![msqid] = Append(@, can_item.ts)] /\ can_item.ts \in Nat
      BY <2>1, QueueEffect, Zenon DEF ParserInv, Lines
    <3>2. ~(msqid > starts)
      BY DEF MainInv
    <3> QED
      BY <1>2, <2>1, <3>1, <3>2 DEF QueueInv
  <2>2. CASE queue' = queue
    BY <1>2, <2>2, Zenon DEF QueueInv
  <2> QED
    BY <2>1, <2>2, ParseEffect, QueueEffect, Zenon
<1>8. FreshInv'
  <2>1. \A m \in Starts : m > starts => pos'[m] = pos[m] /\ m # n
    <3>1. CASE ParseLine(n)
      BY <1>3, <3>1, LineEffect, Zenon DEF ParserInv
    <3> QED
      BY <1>3, <3>1, ParseEffect, Zenon
  <2> QED
    BY <1>1, <1>2, <1>7, <2>1, Zenon DEF FreshInv, ParserInv, sender
<1> QED
  BY <1>4, <1>5, <1>6, <1>7, <1>8, Zenon

\* A step of send_thread.
LEMMA SendType ==
  ASSUME TypeInv, NEW n \in Starts, Send(n)
  PROVE  TypeInv'
<1> USE DEF TypeInv
<1>1. PICK p \in {"call", "msgrcv", "done"} :
        /\ spc' = [spc EXCEPT ![n] = p]
        /\ \/ p = "msgrcv" /\ msqid \in Starts /\ at' = [at EXCEPT ![n] = msqid]
           \/ p # "msgrcv" /\ at' = at
  BY SendEffect, Zenon
<1>2. UNCHANGED <<main, pause_sem, msqid, removed, parser, joined, account>> /\ spc[n] # "none"
  BY SendEffect, Zenon
<1>3. ~(n > starts)
  BY <1>2, Zenon DEF FreshInv
<1>4. MainInv'
  BY <1>2, Zenon DEF MainInv, main, account
<1>5. ParserInv'
  BY <1>2, Zenon DEF ParserInv, parser
<1>6. SenderInv'
  <2>1. Starts \subseteq Nat
    BY DEF Starts
  <2> QED
    BY <1>1, <2>1, Zenon DEF SenderInv
<1>7. CASE SendFrame(n)
  <2>1. spc[n] = "msgrcv" /\ queue[at[n]] # <<>>
    BY <1>7, Zenon DEF SendFrame
  <2>2. at[n] \in Starts
    BY <2>1, Zenon DEF SenderInv
  <2>3. Head(queue[at[n]]) \in Nat /\ Tail(queue[at[n]]) \in Seq(Nat)
    BY <2>1, <2>2 DEF QueueInv
  <2>4. /\ queue' = [queue EXCEPT ![at[n]] = Tail(@)]
        /\ sent' = [sent EXCEPT ![at[n]] = Append(@, Head(queue[at[n]]))]
    BY <1>7, Zenon DEF SendFrame
  <2>5. QueueInv'
    BY <2>2, <2>3, <2>4 DEF QueueInv
  <2>6. ~(at[n] > starts)
    BY <2>1, <2>2, Zenon DEF FreshInv
  <2>7. FreshInv'
    BY <1>1, <1>2, <1>3, <2>2, <2>4, <2>6, Zenon DEF FreshInv, SenderInv, QueueInv, main, parser
  <2> QED
    BY <1>4, <1>5, <1>6, <2>5, <2>7, Zenon
<1>8. CASE UNCHANGED <<queue, sent>>
  <2>1. QueueInv' /\ FreshInv'
    BY <1>1, <1>2, <1>3, <1>8, Zenon DEF FreshInv, SenderInv, QueueInv, main, parser
  <2> QED
    BY <1>4, <1>5, <1>6, <2>1, Zenon
<1> QED
  BY <1>7, <1>8, SendEffect, Zenon

\* The steps of the server, by thread.
LEMMA NextCases ==
  ASSUME Next
  PROVE  \/ Handles \/ cmd_start_handle \/ StartLeaks
         \/ \E n \in Starts : Parse(n) \/ ParseFails(n)
         \/ \E n \in Starts : Send(n)
BY Zenon DEF Next, Main, Handles

\* Every step keeps the types.
LEMMA TypeStep ==
  ASSUME TypeInv, Next
  PROVE  TypeInv'
<1>1. CASE Handles
  <2>1. UNCHANGED <<starts, queue, parser, sender, sent>>
    BY <1>1, HandleEffect, Zenon
  <2>2. ParserInv' /\ SenderInv' /\ QueueInv' /\ FreshInv'
    BY <2>1, Zenon DEF TypeInv, ParserInv, SenderInv, QueueInv, FreshInv, parser, sender
  <2> QED
    BY <1>1, <2>2, HandleMain, Zenon DEF TypeInv
<1> QED
  BY <1>1, NextCases, StartType, LeakType, ParseType, SendType, Zenon

-----------------------------------------------------------------------------
(***************************************************************************)
(* The threads of a START, and the semaphore.                              *)
(***************************************************************************)

\* Only the parse thread of the last START runs, and g_msqid is its queue.
LEMMA OnlyLast ==
  ASSUME TypeInv, ThreadInv, NEW n \in Starts, ppc[n] \notin Ended
  PROVE  n = starts /\ starts > 0 /\ msqid = starts /\ starts \notin removed
<1>1. ~(n > starts)
  BY Zenon DEF TypeInv, FreshInv, Ended
<1>2. ~(n < starts)
  BY Zenon DEF ThreadInv, EarlierInv, Ended
<1>3. n = starts /\ starts > 0
  BY <1>1, <1>2 DEF TypeInv, MainInv, Starts
<1> QED
  BY <1>3, Zenon DEF ThreadInv, CurrentInv

\* A thread that is at one of the places between open and the end has not ended.
LEMMA NotEnded ==
  ASSUME NEW n \in Starts, NEW p, Moves(n, p)
  PROVE  ppc[n] \notin Ended
BY Zenon DEF Moves, Ended, InHand

\* A command, and each of the steps of cmd_stop_handle, finds the threads of the
\* last START.
LEMMA HandleThreads ==
  ASSUME TypeInv, ThreadInv, Handles, ~overlap'
  PROVE  ThreadInv'
<1>1. UNCHANGED <<starts, ppc, spc>>
  BY HandleEffect, Zenon DEF parser, sender
<1>2. EarlierInv'
  BY <1>1, Zenon DEF ThreadInv, EarlierInv
<1>3. CurrentInv'
  <2> USE <1>1 DEF ThreadInv, CurrentInv, Running, Handling
  <2>1. CASE \E c \in Commands : Receive(c)
    BY <2>1, Zenon DEF Receive
  <2>2. CASE convert_ms_to_us \/ Refuse
    BY <2>2, Zenon DEF convert_ms_to_us, Refuse
  <2>3. CASE StartFails
    <3>1. overlap' = (overlap \/ Parsing)
      BY <2>3, Zenon DEF StartFails
    <3>2. ~Parsing
      BY <3>1, Zenon
    <3>3. starts > 0 => ppc[starts] \in Ended
      BY <3>2 DEF Parsing, Starts, TypeInv, MainInv
    <3> QED
      BY <2>3, <3>3, Zenon DEF StartFails
  <2>4. CASE cmd_pause_handle \/ cmd_resume_handle
    BY <2>4, Zenon DEF cmd_pause_handle, cmd_resume_handle
  <2>5. CASE ResumePost
    BY <2>5, Zenon DEF ResumePost
  <2>6. CASE cmd_stop_handle
    BY <2>6 DEF cmd_stop_handle
  <2>7. CASE JoinParser
    BY <2>7, Zenon DEF JoinParser
  <2>8. CASE JoinSender
    BY <2>8, Zenon DEF JoinSender
  <2>9. CASE RemoveQueue
    <3>1. mpc = "remove" /\ mpc' = "recv" /\ UNCHANGED <<replay, msqid, joined>>
      BY <2>9, Zenon DEF RemoveQueue
    <3>2. starts > 0 /\ msqid = starts /\ starts \notin removed
      BY <3>1, Zenon
    <3>3. msqid \in Starts \ removed
      BY <3>2 DEF TypeInv, MainInv, Starts
    <3>4. server_state' = "IDEL"
      BY <2>9, <3>3, RemoveEffect, Zenon
    <3> QED
      BY <3>1, <3>2, <3>4, Zenon
  <2> QED
    BY <2>1, <2>2, <2>3, <2>4, <2>5, <2>6, <2>7, <2>8, <2>9, Zenon DEF Handles
<1> QED
  BY <1>2, <1>3, Zenon DEF ThreadInv

\* An accepted START finds no thread of an earlier one.
LEMMA StartThreads ==
  ASSUME TypeInv, ThreadInv, cmd_start_handle, ~overlap'
  PROVE  ThreadInv'
<1>1. PICK n \in Starts : n = starts + 1
  BY StartEffect, Zenon DEF TypeInv
<1>2. /\ starts' = n /\ msqid' = n /\ replay' = n /\ vci' = n /\ mpc' = "recv" /\ server_state = "IDEL"
      /\ ppc' = [ppc EXCEPT ![n] = "open"] /\ spc' = [spc EXCEPT ![n] = "call"]
      /\ UNCHANGED <<server_state, removed, joined>> /\ ~Parsing
  BY <1>1, StartEffect, Zenon DEF TypeInv
<1>3. n \notin removed /\ n \notin joined /\ n > 0
  BY <1>1 DEF TypeInv, MainInv
<1>4. ppc'[n] = "open"
  BY <1>2, Zenon DEF TypeInv, ParserInv
<1>5. CurrentInv'
  BY <1>2, <1>3, <1>4, Zenon DEF CurrentInv, Running
<1>6. ASSUME NEW m \in Starts, m < n
      PROVE  \/ ppc'[m] = "nofile"
             \/ ppc'[m] \in Ended /\ spc'[m] \in {"none", "done"}
  <2>1. (m < starts \/ (m = starts /\ starts > 0)) /\ m # n
    BY <1>1, <1>6 DEF Starts, TypeInv, MainInv
  <2>2. ppc'[m] = ppc[m] /\ spc'[m] = spc[m]
    BY <1>2, <2>1, Zenon DEF TypeInv, ParserInv, SenderInv
  <2>3. CASE m = starts /\ starts > 0
    <3>1. ppc[m] \in Ended
      BY <1>2, Zenon DEF Parsing
    <3> QED
      BY <1>2, <2>2, <2>3, <3>1, Zenon DEF ThreadInv, CurrentInv, Running, Ended
  <2>4. CASE m < starts
    BY <2>2, <2>4, Zenon DEF ThreadInv, EarlierInv
  <2> QED
    BY <2>1, <2>3, <2>4, Zenon
<1> QED
  BY <1>2, <1>5, <1>6, Zenon DEF ThreadInv, EarlierInv

\* So does a START whose msgctl fails, and it adds none.
LEMMA LeakThreads ==
  ASSUME TypeInv, ThreadInv, StartLeaks, ~overlap'
  PROVE  ThreadInv'
<1>1. PICK n \in Starts : n = starts + 1
  BY LeakEffect, Zenon DEF TypeInv
<1>2. /\ starts' = n /\ msqid' = n /\ mpc' = "recv" /\ server_state = "IDEL"
      /\ UNCHANGED <<server_state, ppc, spc>> /\ ~Parsing
  BY <1>1, LeakEffect, Zenon DEF TypeInv, parser, sender
<1>3. ppc[n] = "none" /\ spc[n] = "none"
  <2>1. n > starts
    BY <1>1 DEF TypeInv, MainInv
  <2> QED
    BY <2>1, Zenon DEF TypeInv, FreshInv
<1>4. CurrentInv'
  BY <1>2, <1>3, Zenon DEF CurrentInv, Running, Ended
<1>5. ASSUME NEW m \in Starts, m < n
      PROVE  \/ ppc[m] = "nofile"
             \/ ppc[m] \in Ended /\ spc[m] \in {"none", "done"}
  <2>1. m < starts \/ (m = starts /\ starts > 0)
    BY <1>1, <1>5 DEF Starts, TypeInv, MainInv
  <2>2. ppc[m] \in Ended
    BY <1>2, Zenon DEF Parsing
  <2>3. CASE m = starts /\ starts > 0
    BY <1>2, <2>2, <2>3, Zenon DEF ThreadInv, CurrentInv, Running, Ended
  <2>4. CASE m < starts
    BY <2>4, Zenon DEF ThreadInv, EarlierInv
  <2> QED
    BY <2>1, <2>3, <2>4, Zenon
<1> QED
  BY <1>2, <1>4, <1>5, Zenon DEF ThreadInv, EarlierInv

\* parse_thread sets STATE_START when it has opened the file, and ends once.
LEMMA ParseThreads ==
  ASSUME TypeInv, ThreadInv, NEW n \in Starts, Parse(n) \/ ParseFails(n)
  PROVE  ThreadInv'
<1>1. PICK p \in Places : Moves(n, p) /\ ppc' = [ppc EXCEPT ![n] = p]
  BY ParseEffect, Zenon DEF TypeInv
<1>2. UNCHANGED <<replay, vci, starts, msqid, removed, spc, joined>>
  BY ParseEffect, Zenon DEF TypeInv, sender
<1>3. n = starts /\ starts > 0 /\ msqid = starts /\ starts \notin removed /\ ppc[starts] \notin Ended
  BY <1>1, NotEnded, OnlyLast, Zenon
<1>4. ppc'[starts] = p /\ \A m \in Starts : m < starts => ppc'[m] = ppc[m]
  BY <1>1, <1>3 DEF TypeInv, ParserInv, MainInv
<1>5. EarlierInv'
  BY <1>2, <1>4, Zenon DEF ThreadInv, EarlierInv
<1>6. CurrentInv'
  BY <1>1, <1>2, <1>3, <1>4, Zenon DEF ThreadInv, CurrentInv, Running, Moves, Ended, InHand
<1> QED
  BY <1>5, <1>6, Zenon DEF ThreadInv

\* A send thread that runs is the last START's, or its file was missing.
LEMMA SendThreads ==
  ASSUME TypeInv, ThreadInv, NEW n \in Starts, Send(n)
  PROVE  ThreadInv'
<1>1. PICK p \in {"call", "msgrcv", "done"} : spc' = [spc EXCEPT ![n] = p]
  BY SendEffect, Zenon
<1>2. spc[n] \in {"call", "msgrcv"} /\ UNCHANGED <<server_state, mpc, replay, vci, starts, msqid, removed, ppc, joined>>
  BY SendEffect, Zenon DEF main, parser
<1>3. spc'[n] = p /\ \A m \in Starts \ {n} : spc'[m] = spc[m]
  BY <1>1, Zenon DEF TypeInv, SenderInv
<1>4. EarlierInv'
  BY <1>2, <1>3, Zenon DEF ThreadInv, EarlierInv
<1>5. starts > 0 => starts \in Starts
  BY DEF TypeInv, MainInv, Starts
<1>6. starts > 0 /\ spc[starts] \in {"none", "done"} => spc'[starts] = spc[starts]
  BY <1>2, <1>3, <1>5, Zenon
<1>7. CurrentInv'
  BY <1>2, <1>6, Zenon DEF ThreadInv, CurrentInv, Running
<1> QED
  BY <1>4, <1>7, Zenon DEF ThreadInv

\* Every step that starts no overlapping replay keeps what is known of the threads.
LEMMA ThreadStep ==
  ASSUME TypeInv, ThreadInv, Next, ~overlap'
  PROVE  ThreadInv'
BY NextCases, HandleThreads, StartThreads, LeakThreads, ParseThreads, SendThreads, Zenon

\* sem_post: the RESUME of the pause the parse thread is in, or one that no
\* pause has used up.
LEMMA PostStep ==
  ASSUME TypeInv, ThreadInv, PauseInv, ResumePost
  PROVE  PauseInv'
<1>1. pause_sem' = pause_sem + 1 /\ UNCHANGED <<undone, starts, ppc, server_state>>
  BY Zenon DEF ResumePost, parser
<1>2. pause_sem \in Nat /\ early \in Nat /\ undone \in Nat
  BY Zenon DEF TypeInv, MainInv
<1>3. CASE Held /\ ~answered
  <2>1. answered' = TRUE /\ early' = early
    BY <1>3, Zenon DEF ResumePost
  <2>2. PICK n \in Starts : ppc[n] \in {"reply", "wait"}
    BY <1>3, Zenon DEF Held
  <2>3. n = starts /\ starts > 0
    BY <2>2, OnlyLast, Zenon DEF Ended
  <2> QED
    BY <1>1, <1>2, <1>3, <2>1, <2>2, <2>3 DEF PauseInv
<1>4. CASE ~(Held /\ ~answered)
  <2>1. early' = early + 1 /\ answered' = answered
    BY <1>4, Zenon DEF ResumePost
  <2>2. starts > 0 /\ ppc[starts] \in {"reply", "wait"} => answered
    <3>1. starts > 0 => starts \in Starts
      BY DEF TypeInv, MainInv, Starts
    <3> QED
      BY <1>4, <3>1, Zenon DEF Held
  <2> QED
    BY <1>1, <1>2, <2>1, <2>2 DEF PauseInv
<1> QED
  BY <1>3, <1>4, Zenon

\* sem_post by a RESUME, sem_wait by the parse thread, sem_init by a START.
LEMMA PauseStep ==
  ASSUME TypeInv, ThreadInv, PauseInv, Next
  PROVE  PauseInv'
<1>1. CASE Handles
  <2>1. UNCHANGED <<starts, ppc>>
    BY <1>1, HandleEffect, Zenon DEF parser
  <2> USE <2>1 DEF PauseInv, Handling, ghosts, account
  <2>2. CASE \E c \in Commands : Receive(c)
    BY <2>2 DEF Receive
  <2>3. CASE convert_ms_to_us \/ Refuse
    BY <2>3 DEF convert_ms_to_us, Refuse
  <2>4. CASE StartFails
    BY <2>4 DEF StartFails
  <2>5. CASE cmd_pause_handle \/ cmd_resume_handle
    BY <2>5 DEF cmd_pause_handle, cmd_resume_handle
  <2>6. CASE ResumePost
    BY <2>6, PostStep, Zenon
  <2>7. CASE cmd_stop_handle \/ JoinParser \/ JoinSender
    BY <2>7 DEF cmd_stop_handle, JoinParser, JoinSender
  <2>8. CASE RemoveQueue
    <3>1. mpc = "remove" /\ UNCHANGED <<pause_sem, early, undone, answered>>
      BY <2>8, Zenon DEF RemoveQueue
    <3>2. starts > 0 => ppc[starts] \in Ended
      BY <3>1, Zenon DEF ThreadInv, CurrentInv
    <3> QED
      BY <3>1, <3>2, Zenon DEF Ended
  <2> QED
    BY <1>1, <2>2, <2>3, <2>4, <2>5, <2>6, <2>7, <2>8, Zenon DEF Handles
<1>2. CASE cmd_start_handle \/ StartLeaks
  <2>1. pause_sem' = 0 /\ early' = 0 /\ undone' = 0 /\ answered' = FALSE /\ server_state' = "IDEL"
    BY <1>2, StartEffect, LeakEffect, Zenon DEF TypeInv
  <2> QED
    BY <2>1 DEF PauseInv
<1>3. ASSUME NEW n \in Starts, Parse(n) \/ ParseFails(n)
      PROVE  PauseInv'
  <2>1. PICK p \in Places : Moves(n, p) /\ ppc' = [ppc EXCEPT ![n] = p]
    BY <1>3, ParseEffect, Zenon DEF TypeInv
  <2>2. starts' = starts
    BY <1>3, ParseEffect, Zenon DEF TypeInv
  <2>3. n = starts /\ starts > 0 /\ ppc[starts] \notin Ended
    BY <2>1, NotEnded, OnlyLast, Zenon
  <2>4. ppc'[starts] = p
    BY <2>1, <2>3, Zenon DEF TypeInv, ParserInv
  <2>5. pause_sem \in Nat /\ early \in Nat /\ undone \in Nat
    BY Zenon DEF TypeInv, MainInv
  <2>6. CASE ppc[n] = "wait" /\ p = "send"
    <3>1. /\ pause_sem > 0 /\ pause_sem' = pause_sem - 1 /\ early' = early /\ answered' = FALSE
          /\ undone' = (IF answered THEN undone ELSE undone + 1)
      BY <2>1, <2>6, Zenon DEF Moves, InHand
    <3> QED
      BY <2>2, <2>4, <2>5, <2>6, <3>1 DEF PauseInv
  <2>7. CASE ~(ppc[n] = "wait" /\ p = "send")
    <3>1. UNCHANGED <<pause_sem, early, undone, answered>>
      BY <2>1, <2>7, Zenon DEF Moves, account
    <3>2. answered => p \in Ended \cup {"reply", "wait"}
      BY <2>1, <2>3, <2>7, Zenon DEF PauseInv, Moves, Ended, InHand
    <3>3. server_state' = "START" /\ mpc' # "post" /\ p \in {"reply", "wait"} => answered
      BY <2>1, <2>3, <2>7, Zenon DEF PauseInv, Moves, Ended, InHand
    <3> QED
      BY <2>2, <2>3, <2>4, <3>1, <3>2, <3>3, Zenon DEF PauseInv
  <2> QED
    BY <2>6, <2>7, Zenon
<1>4. ASSUME NEW n \in Starts, Send(n)
      PROVE  PauseInv'
  BY <1>4, SendEffect, Zenon DEF PauseInv, main, parser, account
<1> QED
  BY <1>1, <1>2, <1>3, <1>4, NextCases, Zenon

-----------------------------------------------------------------------------
(***************************************************************************)
(* The frames sent and queued.                                             *)
(***************************************************************************)

\* What touches neither the queues nor the parse threads keeps the order.
LEMMA SameFrames ==
  ASSUME FrameInv, UNCHANGED <<queue, parser, sent>>
  PROVE  FrameInv'
BY Zenon DEF FrameInv, InOrder, Finished, parser

\* parse_thread goes on with the line in hand, or without one.
LEMMA SamePlace ==
  ASSUME TypeInv, FrameInv, NEW n \in Starts, NEW p, ppc' = [ppc EXCEPT ![n] = p],
         ppc[n] \in InHand <=> p \in InHand, ppc[n] # "cancelled",
         UNCHANGED <<queue, pos, can_item, fp, sent>>
  PROVE  FrameInv'
<1>1. ppc'[n] = p /\ \A m \in Starts \ {n} : ppc'[m] = ppc[m]
  BY Zenon DEF TypeInv, ParserInv
<1>2. \A m \in Starts : Finished(m)' = Finished(m)
  BY <1>1, Zenon DEF Finished, InHand
<1>3. \A m \in Starts : InOrder(m)'
  BY <1>1, <1>2, Zenon DEF FrameInv, InOrder
<1> QED
  BY <1>1, <1>3, Zenon DEF FrameInv

\* parse_thread reads a line: one that is not in the window, not of a frame or
\* the last one is finished with, another one is in hand now.
LEMMA LineFrames ==
  ASSUME TypeInv, ThreadInv, FrameInv, NEW n \in Starts, ParseLine(n), ~torn'
  PROVE  FrameInv'
<1> DEFINE line == fp[n][pos[n] + 1]
<1>1. /\ ppc[n] = "read" /\ pos[n] < Len(fp[n]) /\ can_item' = line
      /\ UNCHANGED <<queue, fp, sent>>
  BY LineEffect, Zenon
<1>2. pos'[n] = pos[n] + 1 /\ \A m \in Starts \ {n} : pos'[m] = pos[m]
  BY LineEffect, Zenon DEF TypeInv, ParserInv
<1>3. \A m \in Starts \ {n} : ppc'[m] = ppc[m] /\ ppc[m] \in Ended
  <2>1. ppc' = ppc \/ \E p \in {"read", "done", "check"} : ppc' = [ppc EXCEPT ![n] = p]
    BY LineEffect, Zenon
  <2>2. n = starts /\ \A m \in Starts \ {n} : ppc[m] \in Ended
    BY <1>1, OnlyLast, Zenon DEF Ended
  <2> QED
    BY <2>1, <2>2, Zenon DEF TypeInv, ParserInv
<1>4. \A m \in Starts \ {n} : InOrder(m)'
  BY <1>1, <1>2, <1>3, Zenon DEF FrameInv, InOrder, Finished
<1>5. line.kind # "bad" => Us(Beg) = Beg * Factor /\ Us(End) = End * Factor
  BY LineEffect, Zenon DEF Us
<1>6. line \in Lines /\ pos[n] \in Nat
  BY <1>1 DEF TypeInv, ParserInv
<1>7. sent[n] \o queue[n] \in Seq(Nat)
  BY DEF TypeInv, QueueInv
<1>8. IsSelection(sent[n] \o queue[n], fp[n], pos[n])
  BY <1>1, Zenon DEF FrameInv, InOrder, Finished
<1>9. \/ line.kind = "bad" /\ ppc'[n] = "read"
      \/ line.kind # "bad" /\ line.ts <= Us(Beg) /\ ppc'[n] = "read"
      \/ line.kind # "bad" /\ line.ts > Us(End) /\ ppc'[n] = "done"
      \/ line.kind # "bad" /\ ~(line.ts <= Us(Beg)) /\ ~(line.ts > Us(End)) /\ ppc'[n] = "check"
  BY <1>1, LineEffect, Zenon DEF TypeInv, ParserInv
<1>10. Beg * Factor \in Nat /\ End * Factor \in Nat
  BY ReplayAssumption
<1> HIDE DEF line
<1>11. CASE ppc'[n] = "check"
  <2>1. Finished(n)' = pos[n]
    BY <1>2, <1>6, <1>11 DEF Finished
  <2>2. InOrder(n)'
    BY <1>1, <1>8, <2>1, Zenon DEF InOrder
  <2>3. line.kind # "bad" /\ Beg * Factor < line.ts /\ line.ts <= End * Factor
    BY <1>5, <1>6, <1>9, <1>10, <1>11 DEF Lines
  <2>4. can_item' = fp'[n][pos'[n]]
    BY <1>1, <1>2, Zenon DEF line
  <2>5. \A m \in Starts \ {n} : ppc'[m] \notin InHand
    BY <1>3, Zenon DEF Ended, InHand
  <2> QED
    BY <1>1, <1>4, <2>2, <2>3, <2>4, <2>5, Zenon DEF FrameInv
<1>12. CASE ppc'[n] # "check"
  <2>1. ppc'[n] \in {"read", "done"} /\ Finished(n)' = pos[n] + 1
    BY <1>2, <1>9, <1>12, Zenon DEF Finished
  <2>2. ~Wanted(line)
    BY <1>5, <1>6, <1>9, <1>10, <1>12 DEF Wanted, Lines
  <2>3. IsSelection(sent[n] \o queue[n], fp[n], pos[n] + 1)
    BY <1>6, <1>7, <1>8, <2>2, SelectSkip, Zenon DEF line
  <2>4. InOrder(n)'
    BY <1>1, <2>1, <2>3, Zenon DEF InOrder
  <2>5. \A m \in Starts : ppc'[m] \notin InHand
    BY <1>3, <2>1, Zenon DEF Ended, InHand
  <2> QED
    BY <1>4, <2>4, <2>5, Zenon DEF FrameInv
<1> QED
  BY <1>11, <1>12, Zenon

\* parse_thread queues the frame in hand, if it is of channel 1.
LEMMA QueueFrames ==
  ASSUME TypeInv, TypeInv', ThreadInv, FrameInv, NEW n \in Starts, ParseSend(n)
  PROVE  FrameInv'
<1>1. ppc[n] = "send" /\ ppc'[n] = "read" /\ \A m \in Starts \ {n} : ppc'[m] = ppc[m]
  BY Zenon DEF ParseSend, ToPc, TypeInv, ParserInv
<1>2. n = starts /\ msqid = n /\ n \in Starts \ removed
  BY <1>1, OnlyLast, Zenon DEF Ended
<1>3. UNCHANGED <<pos, can_item, fp, sent>>
  BY Zenon DEF ParseSend, ghosts
<1>4. \A m \in Starts : ppc'[m] \notin InHand
  <2>1. \A m \in Starts \ {n} : ppc[m] \in Ended
    BY <1>2, OnlyLast, Zenon
  <2> QED
    BY <1>1, <2>1, Zenon DEF Ended, InHand
<1>5. \A m \in Starts \ {n} : queue'[m] = queue[m]
  BY <1>2, QueueEffect, Zenon DEF TypeInv, QueueInv
<1>6. \A m \in Starts \ {n} : InOrder(m)'
  BY <1>1, <1>3, <1>5, Zenon DEF FrameInv, InOrder, Finished
<1> DEFINE k == pos[n] - 1
           q == sent[n] \o queue[n]
           r == sent[n] \o queue'[n]
<1>7. k \in Nat /\ pos[n] = k + 1 /\ Finished(n)' = k + 1
  BY <1>1, <1>3 DEF TypeInv, ParserInv, InHand, Finished
<1>8. sent[n] \in Seq(Nat) /\ queue[n] \in Seq(Nat) /\ queue'[n] \in Seq(Nat)
  BY Zenon DEF TypeInv, QueueInv
<1>9. q \in Seq(Nat) /\ r \in Seq(Nat)
  BY <1>8
<1>10. IsSelection(q, fp[n], k)
  BY <1>1, Zenon DEF FrameInv, InOrder, Finished
<1>11. can_item.ts \in Nat
  BY Zenon DEF TypeInv, ParserInv, Lines
<1>12. /\ can_item = fp[n][k + 1] /\ can_item.kind # "bad"
       /\ Beg * Factor < can_item.ts /\ can_item.ts <= End * Factor
  BY <1>1, <1>7, Zenon DEF FrameInv, InHand
<1>13. ASSUME can_item.kind = "can1" PROVE IsSelection(r, fp[n], k + 1)
  <2>1. queue'[n] = Append(queue[n], can_item.ts)
    BY <1>2, <1>13, QueueEffect, Zenon DEF TypeInv, QueueInv
  <2>2. Len(r) = Len(q) + 1 /\ (\A j \in 1..Len(q) : r[j] = q[j]) /\ r[Len(q) + 1] = can_item.ts
    <3>1. PICK a \in Seq(Nat), b \in Seq(Nat), t \in Nat : a = sent[n] /\ b = queue[n] /\ t = can_item.ts
      BY <1>8, <1>11, Zenon
    <3>2. q = a \o b /\ r = a \o Append(b, t)
      BY <2>1, <3>1, Zenon
    <3>3. /\ Len(a \o Append(b, t)) = Len(a \o b) + 1
          /\ \A j \in 1..Len(a \o b) : (a \o Append(b, t))[j] = (a \o b)[j]
          /\ (a \o Append(b, t))[Len(a \o b) + 1] = t
      BY AppendFrame, Zenon
    <3> HIDE DEF q, r
    <3> QED
      BY <3>1, <3>2, <3>3, Zenon
  <2>3. Wanted(fp[n][k + 1])
    BY <1>12, <1>13, Zenon DEF Wanted
  <2> HIDE DEF k, q, r
  <2> QED
    BY <1>7, <1>9, <1>10, <1>12, <2>2, <2>3, SelectTake, Zenon
<1>14. ASSUME can_item.kind # "can1" PROVE IsSelection(r, fp[n], k + 1)
  <2>1. r = q
    BY <1>14, QueueEffect, Zenon
  <2>2. ~Wanted(fp[n][k + 1])
    BY <1>12, <1>14, Zenon DEF Wanted
  <2> HIDE DEF k, q, r
  <2> QED
    BY <1>7, <1>9, <1>10, <2>1, <2>2, SelectSkip, Zenon
<1>15. InOrder(n)'
  BY <1>3, <1>7, <1>13, <1>14, Zenon DEF InOrder
<1> QED
  BY <1>4, <1>6, <1>15, Zenon DEF FrameInv

\* A cancellation discards the frame in hand.
LEMMA CancelFrames ==
  ASSUME TypeInv, FrameInv, NEW n \in Starts, ParseCancelled(n)
  PROVE  FrameInv'
<1>1. UNCHANGED <<queue, pos, can_item, fp, sent>> /\ ppc' = [ppc EXCEPT ![n] = "cancelled"]
  BY Zenon DEF ParseCancelled, ToPc, ghosts
<1>2. ppc'[n] = "cancelled" /\ \A m \in Starts \ {n} : ppc'[m] = ppc[m]
  BY <1>1, Zenon DEF TypeInv, ParserInv
<1>3. ppc[n] \in InHand \cup {"nofp", "read"}
  BY Zenon DEF ParseCancelled, InHand
<1>4. InOrder(n)'
  BY <1>1, <1>2, <1>3, Zenon DEF FrameInv, InOrder, Finished, InHand
<1>5. \A m \in Starts \ {n} : InOrder(m)'
  BY <1>1, <1>2, Zenon DEF FrameInv, InOrder, Finished
<1> QED
  BY <1>1, <1>2, <1>4, <1>5, Zenon DEF FrameInv, InHand

\* send_thread takes the first frame of a queue.
LEMMA SentFrames ==
  ASSUME TypeInv, FrameInv, NEW n \in Starts, SendFrame(n)
  PROVE  FrameInv'
<1>1. UNCHANGED parser /\ at[n] \in Starts /\ queue[at[n]] # <<>>
  BY Zenon DEF SendFrame, TypeInv, SenderInv
<1>2. PICK a \in Starts : a = at[n] /\ queue[a] # <<>>
  BY <1>1, Zenon
<1>3. /\ queue'[a] = Tail(queue[a]) /\ sent'[a] = Append(sent[a], Head(queue[a]))
      /\ \A m \in Starts \ {a} : queue'[m] = queue[m] /\ sent'[m] = sent[m]
  BY <1>2, Zenon DEF SendFrame, TypeInv, QueueInv
<1>4. sent[a] \in Seq(Nat) /\ queue[a] \in Seq(Nat)
  BY <1>2, Zenon DEF TypeInv, QueueInv
<1>5. sent'[a] \o queue'[a] = sent[a] \o queue[a]
  <2>1. Append(sent[a], Head(queue[a])) \o Tail(queue[a]) = sent[a] \o queue[a]
    BY <1>2, <1>4, MoveFrame, Zenon
  <2> QED
    BY <1>3, <2>1, Zenon
<1>6. \A m \in Starts : sent'[m] \o queue'[m] = sent[m] \o queue[m]
  BY <1>3, <1>5, Zenon
<1> QED
  BY <1>1, <1>6, Zenon DEF FrameInv, InOrder, Finished, parser

\* A START begins a file with nothing sent.
LEMMA StartFrames ==
  ASSUME TypeInv, FrameInv, cmd_start_handle
  PROVE  FrameInv'
<1>1. PICK n \in Starts : n = starts + 1
  BY StartEffect, Zenon DEF TypeInv
<1>2. UNCHANGED <<queue, pos, can_item, sent>> /\ ppc' = [ppc EXCEPT ![n] = "open"]
  BY <1>1, StartEffect, Zenon DEF TypeInv
<1>3. PICK f \in Seq(Lines) : fp' = [fp EXCEPT ![n] = f]
  BY <1>1, StartEffect, Zenon DEF TypeInv
<1>4. ppc'[n] = "open" /\ \A m \in Starts \ {n} : fp'[m] = fp[m] /\ ppc'[m] = ppc[m]
  BY <1>2, <1>3, Zenon DEF TypeInv, ParserInv
<1>5. n > starts
  BY <1>1 DEF TypeInv, MainInv
<1>6. pos[n] = 0 /\ queue[n] = <<>> /\ sent[n] = <<>>
  BY <1>5, Zenon DEF TypeInv, FreshInv
<1>7. Len(sent[n] \o queue[n]) = 0
  BY <1>6
<1>8. InOrder(n)'
  <2>1. Finished(n)' = 0
    BY <1>2, <1>4, <1>6, Zenon DEF Finished
  <2>2. IsSelection(sent[n] \o queue[n], fp'[n], 0)
    BY <1>7, SelectNone, Zenon
  <2> QED
    BY <1>2, <2>1, <2>2, Zenon DEF InOrder
<1>9. \A m \in Starts \ {n} : InOrder(m)'
  BY <1>2, <1>4, Zenon DEF FrameInv, InOrder, Finished
<1> QED
  BY <1>2, <1>4, <1>8, <1>9 DEF FrameInv, InHand

\* Every step keeps the frames in order.
LEMMA FrameStep ==
  ASSUME TypeInv, TypeInv', ThreadInv, FrameInv, Next, ~torn'
  PROVE  FrameInv'
<1>1. CASE Handles
  BY <1>1, HandleEffect, SameFrames, Zenon
<1>2. CASE cmd_start_handle \/ StartLeaks
  BY <1>2, StartFrames, LeakEffect, SameFrames, Zenon DEF TypeInv
<1>3. ASSUME NEW n \in Starts, Parse(n) \/ ParseFails(n)
      PROVE  FrameInv'
  <2>1. CASE ParseLine(n) \/ ParseSend(n) \/ ParseCancelled(n)
    BY <2>1, LineFrames, QueueFrames, CancelFrames, Zenon
  <2>2. CASE ~(ParseLine(n) \/ ParseSend(n) \/ ParseCancelled(n))
    <3>1. UNCHANGED <<queue, pos, can_item, fp, sent>>
      BY <1>3, <2>2, ParseEffect, Zenon DEF TypeInv
    <3>2. \E p : /\ ppc' = [ppc EXCEPT ![n] = p]
                 /\ ppc[n] \in InHand <=> p \in InHand
                 /\ ppc[n] # "cancelled"
      <4>1. CASE ParseCrash(n)
        <5>1. ppc' = [ppc EXCEPT ![n] = "nofp"] /\ ppc[n] = "nofp"
          BY <4>1, Zenon DEF ParseCrash, parser, TypeInv, ParserInv
        <5> QED
          BY <5>1, Zenon DEF InHand
      <4> QED
        BY <1>3, <2>2, <4>1, Zenon DEF Parse, ParseFails, ParseOpen, ParseOpenFails, ParseNoFile, ParseEof, ParseCheck,
           ParseReply, ParseWait, ToPc, InHand
    <3> QED
      BY <3>1, <3>2, SamePlace, Zenon
  <2> QED
    BY <2>1, <2>2, Zenon
<1>4. ASSUME NEW n \in Starts, Send(n)
      PROVE  FrameInv'
  BY <1>4, SendEffect, SentFrames, SameFrames, Zenon
<1> QED
  BY <1>1, <1>2, <1>3, <1>4, NextCases, Zenon

-----------------------------------------------------------------------------
\* The inductive invariant: what is promised of the threads and of PAUSE holds
\* without overlapping STARTs, what is promised of the frames if moreover no
\* command arrived while a line was compared with the window.
ReplayInv ==
  /\ TypeInv
  /\ ~overlap => ThreadInv /\ PauseInv
  /\ ~overlap /\ ~torn => FrameInv

\* The server starts idle, with no thread and no queue.
LEMMA ReplayInit == Init => ReplayInv
<1> SUFFICES ASSUME Init PROVE ReplayInv
  BY Zenon
<1>1. MainInv /\ FreshInv
  BY ReplayAssumption DEF Init, MainInv, FreshInv
<1>2. ParserInv
  BY DEF Init, ParserInv, Places, Ended, Lines, InHand
<1>6. SenderInv /\ QueueInv
  BY DEF Init, SenderInv, QueueInv
<1>3. ThreadInv
  <2>1. EarlierInv
    BY DEF Init, EarlierInv, Starts
  <2>2. CurrentInv
    BY DEF Init, CurrentInv, Running
  <2> QED
    BY <2>1, <2>2, Zenon DEF ThreadInv
<1>4. PauseInv
  BY DEF Init, PauseInv
<1>5. FrameInv
  <2>1. \A n \in Starts : sent[n] = <<>> /\ queue[n] = <<>> /\ Finished(n) = 0 /\ ppc[n] = "none"
    BY Zenon DEF Init, Finished
  <2>2. ASSUME NEW n \in Starts PROVE InOrder(n)
    <3>1. sent[n] \in Seq(Nat) /\ queue[n] \in Seq(Nat) /\ Len(sent[n]) = 0 /\ Len(queue[n]) = 0
      BY <1>6, <2>1 DEF QueueInv
    <3>2. Len(sent[n] \o queue[n]) = 0
      BY <3>1, NoFrames, Zenon
    <3> QED
      BY <2>1, <3>2, SelectNone, Zenon DEF InOrder
  <2> QED
    BY <2>1, <2>2, Zenon DEF FrameInv, InHand
<1> QED
  BY <1>1, <1>2, <1>3, <1>4, <1>5, <1>6, Zenon DEF ReplayInv, TypeInv

\* The histories of overlapping STARTs and of torn times are not forgotten.
LEMMA GhostStep ==
  ASSUME TypeInv, Next
  PROVE  (~overlap' => ~overlap) /\ (~torn' => ~torn)
<1>1. CASE Handles
  BY <1>1, HandleEffect
<1>2. CASE cmd_start_handle \/ StartLeaks
  <2>1. CASE cmd_start_handle
    BY <2>1, StartEffect DEF TypeInv
  <2>2. CASE StartLeaks
    <3>1. ~overlap' => ~overlap
      BY <2>2, LeakEffect, Zenon DEF TypeInv
    <3>2. torn' = torn
      BY <2>2, Zenon DEF StartLeaks
    <3> QED
      BY <3>1, <3>2, Zenon
  <2> QED
    BY <1>2, <2>1, <2>2, Zenon
<1>3. ASSUME NEW n \in Starts, Parse(n) \/ ParseFails(n)
      PROVE  (~overlap' => ~overlap) /\ (~torn' => ~torn)
  <2>1. CASE ParseLine(n)
    BY <2>1, LineEffect, Zenon
  <2> QED
    BY <1>3, <2>1, ParseEffect, Zenon DEF TypeInv
<1>4. ASSUME NEW n \in Starts, Send(n)
      PROVE  (~overlap' => ~overlap) /\ (~torn' => ~torn)
  BY <1>4, SendEffect, Zenon
<1> QED
  BY <1>1, <1>2, <1>3, <1>4, NextCases, Zenon

\* The invariant holds in every state of the server.
THEOREM ReplayInvariance == Spec => []ReplayInv
<1>1. Init => ReplayInv
  BY ReplayInit, Zenon
<1>2. ReplayInv /\ [Next]_vars => ReplayInv'
  <2> SUFFICES ASSUME ReplayInv, [Next]_vars PROVE ReplayInv'
    BY Zenon
  <2>1. CASE Next
    <3>1. TypeInv'
      BY <2>1, TypeStep, Zenon DEF ReplayInv
    <3>2. (~overlap' => ~overlap) /\ (~torn' => ~torn)
      BY <2>1, GhostStep, Zenon DEF ReplayInv
    <3>3. ASSUME ~overlap' PROVE ThreadInv' /\ PauseInv'
      BY <2>1, <3>2, <3>3, ThreadStep, PauseStep, Zenon DEF ReplayInv
    <3>4. ASSUME ~overlap', ~torn' PROVE FrameInv'
      BY <2>1, <3>1, <3>2, <3>4, FrameStep, Zenon DEF ReplayInv
    <3> QED
      BY <3>1, <3>3, <3>4, Zenon DEF ReplayInv
  <2>2. CASE UNCHANGED vars
    <3> USE <2>2 DEF vars, main, parser, sender, ghosts, account
    <3>1. TypeInv'
      BY Zenon DEF ReplayInv, TypeInv, MainInv, ParserInv, SenderInv, QueueInv, FreshInv
    <3>2. ASSUME ~overlap PROVE ThreadInv' /\ PauseInv'
      BY <3>2, Zenon DEF ReplayInv, ThreadInv, EarlierInv, CurrentInv, PauseInv, Running
    <3>3. ASSUME ~overlap, ~torn PROVE FrameInv'
      BY <3>3, SameFrames, Zenon DEF ReplayInv
    <3>4. overlap' = overlap /\ torn' = torn
      BY Zenon
    <3> QED
      BY <3>1, <3>2, <3>3, <3>4 DEF ReplayInv
  <2> QED
    BY <2>1, <2>2, Zenon
<1> QED
  BY <1>1, <1>2, PTL DEF Spec

\* The frames of a replay are sent in the order of its file, each once.
THEOREM FramesAreInOrder == Spec => []FramesInOrder
<1>1. ReplayInv => FramesInOrder
  BY Zenon DEF ReplayInv, FrameInv, FramesInOrder
<1> QED
  BY <1>1, ReplayInvariance, PTL

\* A pause ends by a RESUME of its replay, and no RESUME ends two: what is in
\* pause_sem are the RESUMEs no pause has used up, those that came when the
\* parse thread was in no pause included.
THEOREM PausesAreAccounted == Spec => []EachResumeOnce
<1>1. ReplayInv => EachResumeOnce
  <2> SUFFICES ASSUME ReplayInv, ~overlap
               PROVE  /\ undone <= early
                      /\ pause_sem + undone = early + IF answered THEN 1 ELSE 0
                      /\ server_state = "START" /\ mpc # "post" /\ Held => pause_sem > 0
    BY Zenon DEF EachResumeOnce
  <2>1. TypeInv /\ ThreadInv /\ PauseInv
    BY Zenon DEF ReplayInv
  <2>2. pause_sem \in Nat /\ early \in Nat /\ undone \in Nat
    BY <2>1, Zenon DEF TypeInv, MainInv
  <2>3. ASSUME server_state = "START", mpc # "post", Held PROVE answered
    <3>1. PICK n \in Starts : ppc[n] \in {"reply", "wait"}
      BY <2>3, Zenon DEF Held
    <3>2. n = starts /\ starts > 0
      BY <2>1, <3>1, OnlyLast, Zenon DEF Ended
    <3> QED
      BY <2>1, <2>3, <3>1, <3>2, Zenon DEF PauseInv
  <2> QED
    BY <2>1, <2>2, <2>3 DEF PauseInv
<1> QED
  BY <1>1, ReplayInvariance, PTL

\* cmd_stop_handle never cancels a thread that is gone, and leaves none behind.
THEOREM StopsCleanly == Spec => []StopIsClean
<1>1. ReplayInv => StopIsClean
  <2> SUFFICES ASSUME ReplayInv, ~overlap
               PROVE  /\ mpc # "undefined"
                      /\ server_state = "IDEL" /\ mpc = "recv" =>
                           \A n \in Starts :
                             \/ ppc[n] \in {"open", "nofile"}
                             \/ ppc[n] \in Ended /\ spc[n] \in {"none", "done"}
    BY Zenon DEF StopIsClean
  <2>1. TypeInv /\ EarlierInv /\ CurrentInv
    BY Zenon DEF ReplayInv, ThreadInv
  <2>2. mpc # "undefined"
    BY <2>1, Zenon DEF CurrentInv
  <2>3. ASSUME NEW n \in Starts, server_state = "IDEL"
        PROVE  \/ ppc[n] \in {"open", "nofile"}
               \/ ppc[n] \in Ended /\ spc[n] \in {"none", "done"}
    <3>1. CASE n < starts
      BY <2>1, <3>1, Zenon DEF EarlierInv
    <3>2. CASE n = starts
      BY <2>1, <2>3, <3>2 DEF CurrentInv, Running, TypeInv, MainInv, Starts
    <3>3. CASE n > starts
      BY <2>1, <3>3, Zenon DEF TypeInv, FreshInv, Ended
    <3> QED
      BY <2>1, <3>1, <3>2, <3>3 DEF TypeInv, MainInv, Starts
  <2> QED
    BY <2>2, <2>3, Zenon
<1> QED
  BY <1>1, ReplayInvariance, PTL
=============================================================================
